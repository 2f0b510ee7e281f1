-------------------------- MODULE HarqUplinkProofs --------------------------
(***************************************************************************)
(* Proofs about HarqUplink, for every value of the constants: IInv is an   *)
(* inductive invariant of Spec, and the invariants the runs check follow   *)
(* from it.  One lemma per action shows that its step preserves IInv; each *)
(* has one step per conjunct of IInv that the action can disturb.          *)
(***************************************************************************)
EXTENDS HarqUplinkInv, FiniteSetTheorems, TLAPS

\* What the assumptions on the constants come to, in one place.
LEMMA Constants ==
  /\ NumProc \in Nat /\ FbInterval \in Nat /\ FbInterval >= 1
  /\ NumProc >= FbInterval + 3
  /\ MaxHarqRtx \in Nat /\ MaxHarqRtx <= 254
  /\ NoPdu \notin Pdus
  /\ 0 \in Codewords
  /\ Cardinality(Codewords) \in Nat /\ Cardinality(Codewords) >= 1
<1>1. /\ IsFiniteSet(Codewords) /\ Codewords # {} /\ 0 \in Codewords
      /\ FbInterval \in Nat \ {0} /\ NumProc \in Nat /\ MaxHarqRtx \in 0 .. 254
      /\ NumProc >= FbInterval + 3 /\ NoPdu \notin Pdus
  BY HarqAssumption, HarqRxAssumption, HarqUplinkAssumption
<1>2. Cardinality(Codewords) \in Nat /\ Cardinality(Codewords) # 0
  BY <1>1, FS_CardinalityType, FS_EmptySet
<1> QED
  BY <1>1, <1>2

\* A unit is its process and its codeword; First picks the one in use.
LEMMA FirstUnits ==
  /\ \A a \in Acid : First(a) \in Unit /\ First(a)[1] = a /\ First(a)[2] = 0
  /\ \A u \in Unit : u[1] \in Acid /\ (u[2] = 0 => u = First(u[1]))
BY Constants DEF First, Unit

\* The counter of processes wraps, and a step on and a step back cancel.
LEMMA NextPrev ==
  ASSUME NEW a \in Acid
  PROVE  /\ NextAcid(a) \in Acid /\ PrevAcid(a) \in Acid
         /\ PrevAcid(NextAcid(a)) = a
BY Constants DEF NextAcid, PrevAcid, Acid

\* The slot of a TTI is a process.
LEMMA SlotType == TypeOK => Slot \in Acid
BY NextPrev DEF TypeOK, Slot

\* Ages tell the processes apart: no two have the same, and only the
\* process whose turn it is has age 0.
LEMMA Ages ==
  ASSUME TypeOK
  PROVE  /\ \A a \in Acid : Age(a) \in 0 .. NumProc - 1
         /\ \A a, b \in Acid : Age(a) = Age(b) => a = b
         /\ \A a \in Acid : Age(a) = 0 <=> a = Slot
BY SlotType, Constants DEF Age, Acid

\* When the UE moves to the next process, the others grow older by one TTI.
LEMMA AgeGrows ==
  ASSUME TypeOK, Slot' = NextAcid(Slot)
  PROVE  \A a \in Acid : Age(a) < NumProc - 1 => Age(a)' = Age(a) + 1
BY SlotType, Constants DEF Age, Acid, NextAcid

\* While the slot stays, so do the ages.
LEMMA AgeStays ==
  ASSUME Slot' = Slot
  PROVE  \A a : Age(a)' = Age(a)
BY DEF Age

\* A TTI without a grant (LteMacUeRealistic::handleSelfMessage, 450-483).
LEMMA NoGrantStep ==
  ASSUME IInv, UeTickNoGrant
  PROVE  IInv'
<1>0. Slot' = Slot
  BY NextPrev DEF UeTickNoGrant, UeLoopStarts, Slot, IInv, TypeOK
<1>a. \A a : Age(a)' = Age(a)
  BY <1>0, AgeStays
<1>1. TypeOK'
  BY NextPrev DEF IInv, TypeOK, TxTypeOK, RxTypeOK, UeTickNoGrant, txVars, enbVars, rxVars, airVars
<1>2. NoError' /\ StepsInOrder'
  BY DEF IInv, NoError, StepsInOrder, UeTickNoGrant, UeLoopStarts, txVars, enbVars, rxVars, airVars
<1>3. IdleBeforeFirstTx' /\ OneCodeword' /\ SelectionMatches' /\ CountsMatch'
  BY DEF IInv, IdleBeforeFirstTx, OneCodeword, SelectionMatches, CountsMatch, UeTickNoGrant, UeLoopStarts, txVars, enbVars, rxVars, airVars, EmptyUnits, UnitsIn
<1>4. AgesTell'
  BY <1>a DEF IInv, AgesTell, UeTickNoGrant, UeLoopStarts, LoopsDone, enbVars, rxVars, airVars
<1>5. OneAtATime' /\ AnswersAwaited' /\ WaitingAnswered' /\ DroppedEmpty'
  BY DEF IInv, OneAtATime, AnswersAwaited, Awaits, WaitingAnswered, HasData, HasFeedback, DroppedEmpty, UeTickNoGrant, UeLoopStarts, txVars, enbVars, rxVars, airVars
<1>6. SwitchForgets'
  BY <1>0 DEF IInv, SwitchForgets, UeTickNoGrant, UeLoopStarts, txVars, enbVars, rxVars, airVars
<1>7. UnitContents' /\ CountedAlike'
  BY DEF IInv, UnitContents, CountedAlike, HasData, UeTickNoGrant, txVars, enbVars, rxVars, airVars
<1> QED
  BY <1>1, <1>2, <1>3, <1>4, <1>5, <1>6, <1>7 DEF IInv

\* The UE drops all its processes (macHandleD2DModeSwitch of the UE).  As the
\* eNodeB handles the same switch in this TTI, whatever is on its way to it or
\* under evaluation there is lost too.
LEMMA UeSwitchStep ==
  ASSUME IInv, UeModeSwitch
  PROVE  IInv'
<1> USE DEF UeModeSwitch
<1>0. Slot' = Slot
  BY DEF Slot
<1>a. \A a : Age(a)' = Age(a)
  BY <1>0, AgeStays
<1>b. ueStep = "tick" /\ dataSent = {} /\ ("enb" \in switching \/ resetHarq)
  BY DEF IInv, StepsInOrder, SwitchForgets
<1>1. TypeOK'
  BY Constants DEF IInv, TypeOK, TxTypeOK, RxTypeOK, TxForceDropAll, enbVars, rxVars, airVars
<1>2. NoError' /\ StepsInOrder'
  BY <1>b DEF IInv, NoError, StepsInOrder, TxForceDropAll, enbVars, rxVars, airVars
<1>3. IdleBeforeFirstTx' /\ OneCodeword' /\ DroppedEmpty' /\ UnitContents'
  BY FirstUnits DEF IInv, IdleBeforeFirstTx, OneCodeword, DroppedEmpty, UnitContents, TxForceDropAll, enbVars, rxVars, airVars
<1>4. SelectionMatches' /\ CountsMatch'
  BY FirstUnits, Constants DEF SelectionMatches, CountsMatch, TxForceDropAll, HarqNone, Acid
<1>5. AgesTell'
  BY <1>a DEF IInv, AgesTell, LoopsDone, enbVars, rxVars, airVars
<1>6. OneAtATime' /\ WaitingAnswered'
  BY FirstUnits DEF IInv, OneAtATime, WaitingAnswered, TxForceDropAll, airVars
<1>7. AnswersAwaited'
  BY <1>b, FirstUnits DEF IInv, TypeOK, Data, Feedback, AnswersAwaited, SwitchForgets, TxForceDropAll, enbVars, rxVars, airVars
<1>8. SwitchForgets'
  BY <1>b DEF IInv, SwitchForgets, TxForceDropAll, enbVars, rxVars, airVars
<1>9. CountedAlike'
  BY <1>b, FirstUnits DEF IInv, CountedAlike, SwitchForgets, TxForceDropAll, enbVars, rxVars, airVars
<1> QED
  BY <1>1, <1>2, <1>3, <1>4, <1>5, <1>6, <1>7, <1>8, <1>9 DEF IInv

\* The eNodeB aborts all its units (macHandleD2DModeSwitch of the eNodeB).
LEMMA EnbSwitchStep ==
  ASSUME IInv, EnbModeSwitch
  PROVE  IInv'
<1> USE DEF EnbModeSwitch
<1>0. Slot' = Slot
  BY DEF Slot, ueVars
<1>a. \A a : Age(a)' = Age(a)
  BY <1>0, AgeStays
<1>b. enbStep = "tick" /\ fbSent = {}
  BY DEF IInv, StepsInOrder
<1>c. \A a \in Acid : rxStatus'[First(a)] = "EMPTY" /\ rxCount'[a] = 0
  BY FirstUnits DEF RxAbortAll
<1>1. TypeOK'
  BY Constants DEF IInv, TypeOK, TxTypeOK, RxTypeOK, RxAbortAll, ueVars, txVars, airVars, CountModulus
<1>2. NoError' /\ StepsInOrder'
  BY DEF IInv, NoError, StepsInOrder, RxAbortAll, ueVars, txVars, airVars
<1>3. IdleBeforeFirstTx' /\ OneCodeword' /\ DroppedEmpty' /\ UnitContents'
  BY FirstUnits DEF IInv, IdleBeforeFirstTx, OneCodeword, DroppedEmpty, UnitContents, RxAbortAll, ueVars, txVars, airVars
<1>4. SelectionMatches' /\ CountsMatch'
  BY DEF IInv, SelectionMatches, CountsMatch, ueVars, txVars
<1>5. AgesTell'
  BY <1>a, <1>c DEF IInv, AgesTell, airVars
<1>6. OneAtATime'
  BY DEF IInv, OneAtATime, airVars
<1>7. AnswersAwaited'
  BY <1>c DEF IInv, AnswersAwaited, Awaits, RxAbortAll, ueVars, txVars, airVars
<1>8. WaitingAnswered'
  BY DEF IInv, WaitingAnswered, SwitchForgets, HasData, HasFeedback, DroppedEmpty, ueVars, txVars, airVars
<1>9. SwitchForgets'
  BY <1>0, <1>b, <1>c DEF IInv, SwitchForgets, RxAbortAll, ueVars, txVars, airVars
<1>10. CountedAlike'
  <2> SUFFICES ASSUME ~RxPurges, switching' = {}, NEW a \in Acid
               PROVE  /\ rxCount'[a] = 0
                      /\ txStatus'[First(a)] # "BUFFERED"
                      /\ txStatus'[First(a)] = "SELECTED" => txCount'[First(a)] = 0
                      /\ HasData(First(a))' /\ ~dropped'[a] => txCount'[First(a)] = 1
                      /\ \A f \in fbSent' \cup fbAir' :
                           f.unit = First(a) /\ ~dropped'[a] =>
                             f.ack \/ txCount'[First(a)] = MaxHarqRtx + 1
    BY <1>c DEF CountedAlike
  <2>1. \/ dropped[a]
        \/ /\ a = Slot
           /\ \/ txStatus[First(a)] = "SELECTED" /\ txCount[First(a)] = 0
              \/ txStatus[First(a)] = "WAITING" /\ txCount[First(a)] = 1
    BY DEF IInv, SwitchForgets
  <2>2. dropped[a] => txStatus[First(a)] = "EMPTY"
    BY DEF IInv, DroppedEmpty
  <2>3. HasData(First(a)) /\ ~dropped[a] => txStatus[First(a)] = "WAITING"
    BY FirstUnits DEF IInv, HasData, AnswersAwaited, Awaits
  <2>4. \A f \in fbAir : f.unit = First(a) => a # Slot
    BY FirstUnits, Ages, Constants DEF IInv, AgesTell
  <2> QED
    BY <1>b, <1>c, <2>1, <2>2, <2>3, <2>4 DEF HasData, ueVars, txVars, airVars
<1> QED
  BY <1>1, <1>2, <1>3, <1>4, <1>5, <1>6, <1>7, <1>8, <1>9, <1>10 DEF IInv

\* What the units of a process with a status come to when one codeword is used.
LEMMA UnitsInOne ==
  ASSUME IInv, NEW a \in Acid, NEW s, s # "EMPTY"
  PROVE  UnitsIn(a, s) = IF txStatus[First(a)] = s THEN {First(a)} ELSE {}
<1>1. \A u \in UnitsOf(a) : u \in Unit /\ u[1] = a
  BY DEF UnitsOf, Unit
<1>2. First(a) \in UnitsOf(a)
  BY Constants DEF First, UnitsOf
<1>3. \A u \in UnitsOf(a) : txStatus[u] = s => u = First(a)
  BY <1>1, FirstUnits DEF IInv, OneCodeword
<1> QED
  BY <1>2, <1>3 DEF UnitsIn

\* What is selected is one unit, and nothing is sent but what it holds.
LEMMA SelectedOne ==
  ASSUME IInv, selectedAcid # HarqNone
  PROVE  /\ selectedAcid \in Acid /\ First(selectedAcid) \in Unit
         /\ txStatus[First(selectedAcid)] = "SELECTED"
         /\ SelectedUnits = {First(selectedAcid)}
<1>1. selectedAcid \in Acid
  BY DEF IInv, TypeOK, TxTypeOK
<1>2. txStatus[First(selectedAcid)] = "SELECTED"
  BY <1>1 DEF IInv, SelectionMatches
<1>3. QED
  BY <1>1, <1>2, FirstUnits, UnitsInOne DEF SelectedUnits

\* When the loop of the UE starts, the process whose turn it is has had its
\* answer: every answer under way belongs to a younger one.
LEMMA TurnIsFree ==
  ASSUME IInv, UeLoopStarts
  PROVE  /\ txStatus[First(Slot)] \in {"EMPTY", "BUFFERED"}
         /\ selectedAcid = HarqNone
         /\ firstTx => GrantedAcid = Slot
         /\ GrantedAcid \in Acid
         /\ \A a \in Acid : txStatus[First(a)] # "SELECTED"
         /\ dataSent = {}
<1>1. /\ Slot \in Acid /\ Slot = currentHarq /\ ueStep = "tick" /\ dataSent = {}
      /\ "ue" \notin switching
      /\ (firstTx => GrantedAcid = Slot) /\ GrantedAcid \in Acid
  BY SlotType, Constants DEF IInv, TypeOK, StepsInOrder, UeLoopStarts, Slot, GrantedAcid, Acid
<1>2. selectedAcid = HarqNone /\ \A a \in Acid : txStatus[First(a)] # "SELECTED"
  BY <1>1, Constants DEF IInv, SelectionMatches, HarqNone, Acid
<1>3. Age(Slot) = 0
  BY <1>1, Ages DEF IInv
<1>4. ~HasData(First(Slot))
  BY <1>1, <1>3, FirstUnits DEF IInv, HasData, AgesTell
<1>5. ~HasFeedback(First(Slot))
  BY <1>1, <1>3, FirstUnits, Constants DEF IInv, HasFeedback, AgesTell
<1>6. rxStatus[First(Slot)] # "EVALUATING"
  <2>1. rxAge[First(Slot)] \in Nat
    BY <1>1, FirstUnits, Constants DEF IInv, TypeOK, RxTypeOK
  <2> QED
    BY <1>1, <1>3, <2>1 DEF IInv, AgesTell
<1>7. txStatus[First(Slot)] # "WAITING"
  BY <1>1, <1>4, <1>5, <1>6 DEF IInv, WaitingAnswered
<1>8. txStatus[First(Slot)] \in {"EMPTY", "SELECTED", "WAITING", "BUFFERED"}
  BY <1>1, FirstUnits DEF IInv, TypeOK, TxTypeOK
<1> QED
  BY <1>1, <1>2, <1>7, <1>8

\* What stays true when the UE steps on without touching its buffer: in the
\* turn of a process, or before the first transmission when the counter jumps.
LEMMA TurnStarts ==
  ASSUME IInv, UeLoopStarts, firstTx' = TRUE, ueStep' # "tick",
         firstTx => Slot' = Slot,
         currentHarq' \in Acid, ueStep' \in {"make", "flush"},
         ueStep' = "make" => txStatus[First(currentHarq')] = "EMPTY",
         UNCHANGED <<thrown, txVars, schedulingGrant, enbVars, airVars, switching, delivered>>
  PROVE  IInv'
<1> USE DEF txVars, enbVars, rxVars, airVars
<1>0. \A a : firstTx => Age(a)' = Age(a)
  BY AgeStays
<1>1. TypeOK'
  BY DEF IInv, TypeOK, TxTypeOK, RxTypeOK
<1>2. NoError' /\ StepsInOrder'
  BY DEF IInv, NoError, StepsInOrder, UeLoopStarts
<1>3. IdleBeforeFirstTx' /\ OneCodeword' /\ DroppedEmpty' /\ UnitContents'
  BY DEF IInv, IdleBeforeFirstTx, OneCodeword, DroppedEmpty, UnitContents
<1>4. SelectionMatches' /\ CountsMatch'
  BY TurnIsFree DEF IInv, SelectionMatches, CountsMatch
<1>5. AgesTell'
  BY <1>0 DEF IInv, AgesTell, IdleBeforeFirstTx, LoopsDone, UeLoopStarts
<1>6. OneAtATime' /\ AnswersAwaited' /\ WaitingAnswered'
  BY DEF IInv, OneAtATime, AnswersAwaited, Awaits, WaitingAnswered, HasData, HasFeedback
<1>7. SwitchForgets'
  <2>1. \A a \in Acid : ~(txStatus[First(a)] = "SELECTED") /\ dataSent = {}
    BY TurnIsFree
  <2> QED
    BY <2>1 DEF IInv, SwitchForgets, UeLoopStarts
<1>8. CountedAlike'
  BY DEF IInv, CountedAlike, HasData
<1> QED
  BY <1>1, <1>2, <1>3, <1>4, <1>5, <1>6, <1>7, <1>8 DEF IInv

\* The grant is used for a new transmission, and the RLC is asked for SDUs.
LEMMA RequestStep ==
  ASSUME IInv, UeTickRequestSdu
  PROVE  IInv'
<1>1. /\ UeLoopStarts /\ ReadyUnits(GrantedAcid) = {}
      /\ firstTx' = TRUE /\ ueStep' = "make" /\ currentHarq' = GrantedAcid
      /\ UNCHANGED <<thrown, txVars, schedulingGrant, enbVars, airVars, switching, delivered>>
  BY DEF UeTickRequestSdu
<1>2. GrantedAcid \in Acid /\ Slot' = GrantedAcid /\ (firstTx => GrantedAcid = Slot)
  BY <1>1, TurnIsFree DEF Slot
<1>3. txStatus[First(GrantedAcid)] # "BUFFERED"
  BY <1>1, <1>2, UnitsInOne DEF ReadyUnits
<1>4. txStatus[First(GrantedAcid)] = "EMPTY"
  BY <1>1, <1>2, <1>3, TurnIsFree DEF IInv, IdleBeforeFirstTx
<1> QED
  BY <1>1, <1>2, <1>4, TurnStarts

\* The grant finds nothing to send.
LEMMA NothingToSendStep ==
  ASSUME IInv, UeTickNothingToSend
  PROVE  IInv'
<1>1. /\ UeLoopStarts
      /\ firstTx' = TRUE /\ ueStep' = "flush" /\ currentHarq' = NextAcid(GrantedAcid)
      /\ UNCHANGED <<thrown, txVars, schedulingGrant, enbVars, airVars, switching, delivered>>
  BY DEF UeTickNothingToSend
<1>2. GrantedAcid \in Acid /\ (firstTx => GrantedAcid = Slot)
  BY <1>1, TurnIsFree
<1>3. Slot' = GrantedAcid /\ currentHarq' \in Acid
  BY <1>1, <1>2, NextPrev DEF Slot
<1> QED
  BY <1>1, <1>2, <1>3, TurnStarts

\* A singleton has one element.
LEMMA CardinalityOne == \A x : Cardinality({x}) = 1
BY FS_Singleton

\* Assigning the value a function has already changes nothing.
LEMMA ExceptSame ==
  ASSUME NEW S, NEW T, NEW f \in [S -> T], NEW x
  PROVE  [f EXCEPT ![x] = f[x]] = f
OBVIOUS

\* The grant meets a unit that is ready for retransmission: TurnIsFree makes
\* the process of the grant the one whose units are all there.
LEMMA RetransmitStep ==
  ASSUME IInv, UeTickRetransmit
  PROVE  IInv'
<1> DEFINE c == Slot
           u == First(c)
<1>1. PICK tbs \in 1 .. Cardinality(Codewords) : TxMarkSelected(GrantedAcid, tbs)
  BY DEF UeTickRetransmit
<1>2. /\ UeLoopStarts /\ firstTx' = TRUE /\ ueStep' = "flush"
      /\ currentHarq' = NextAcid(GrantedAcid)
      /\ UNCHANGED <<schedulingGrant, enbVars, airVars, switching, delivered>>
  BY DEF UeTickRetransmit
<1>3. ReadyUnits(GrantedAcid) # {} /\ tbs > 0 /\ tbs \in Nat
  BY <1>1, Constants DEF TxMarkSelected
<1>4. txStatus[First(GrantedAcid)] = "BUFFERED" /\ ReadyUnits(GrantedAcid) = {First(GrantedAcid)}
  BY <1>2, <1>3, TurnIsFree, UnitsInOne DEF ReadyUnits
<1>5. firstTx /\ GrantedAcid = c /\ c \in Acid /\ u \in Unit /\ txStatus[u] = "BUFFERED"
  BY <1>2, <1>4, TurnIsFree, FirstUnits DEF IInv, IdleBeforeFirstTx
<1>6. ReadyUnits(c) = {u} /\ Marked({u}, tbs) = {u}
  BY <1>3, <1>4, <1>5, CardinalityOne DEF Marked
<1>7. numSelected[c] = 0 /\ selectedAcid = HarqNone
  BY <1>2, <1>5, TurnIsFree DEF IInv, CountsMatch
<1>8. /\ txStatus' = [v \in Unit |-> IF v = u THEN "SELECTED" ELSE txStatus[v]]
      /\ txPdu' = txPdu /\ txCount' = txCount
      /\ numEmptyUnits' = numEmptyUnits
      /\ numSelected' = [numSelected EXCEPT ![c] = 1]
      /\ selectedAcid' = c
      /\ dropped' = dropped /\ thrown' = thrown
  <2>1. Cardinality({u}) = 1 /\ {u} \ {u} = {} /\ Cardinality({}) = 0
    BY CardinalityOne, FS_EmptySet
  <2>2. ~(numSelected[c] + Cardinality({u}) > Cardinality(Codewords))
    BY <1>7, <2>1, Constants
  <2>3. /\ txStatus' = [v \in Unit |-> IF v \in {u} THEN "SELECTED"
                                       ELSE IF v \in {u} THEN "EMPTY" ELSE txStatus[v]]
        /\ txPdu' = [v \in Unit |-> IF v \in {u} \ {u} THEN NoPdu ELSE txPdu[v]]
        /\ txCount' = [v \in Unit |-> IF v \in {u} \ {u} THEN 0 ELSE txCount[v]]
        /\ numEmptyUnits' = [numEmptyUnits EXCEPT ![c] = @ + Cardinality({u} \ {u})]
        /\ numSelected' = [numSelected EXCEPT ![c] = @ + Cardinality({u})]
        /\ selectedAcid' = c
        /\ UNCHANGED <<dropped, thrown>>
    BY <1>1, <1>5, <1>6, <2>2 DEF TxMarkSelected
  <2>4. /\ Cardinality({u} \ {u}) = 0
        /\ numEmptyUnits \in [Acid -> Int] /\ numSelected \in [Acid -> Int]
        /\ txPdu \in [Unit -> Pdus \cup {NoPdu}] /\ txCount \in [Unit -> Nat]
    BY <2>1 DEF IInv, TypeOK, TxTypeOK
  <2> HIDE DEF c, u
  <2>5. numEmptyUnits' = numEmptyUnits
    <3>1. numEmptyUnits[c] + Cardinality({u} \ {u}) = numEmptyUnits[c]
      BY <1>5, <2>4
    <3>2. numEmptyUnits' = [numEmptyUnits EXCEPT ![c] = numEmptyUnits[c]]
      BY <2>3, <3>1
    <3>3. [numEmptyUnits EXCEPT ![c] = numEmptyUnits[c]] = numEmptyUnits
      BY <2>4, ExceptSame
    <3> QED
      BY <3>2, <3>3, Zenon
  <2>6. numSelected' = [numSelected EXCEPT ![c] = 1]
    <3>1. numSelected[c] + Cardinality({u}) = 1
      BY <1>7, <2>1
    <3> QED
      BY <2>3, <3>1
  <2>7. txPdu' = txPdu /\ txCount' = txCount
    BY <2>3, <2>4
  <2> QED
    BY <2>3, <2>5, <2>6, <2>7
<1>9. Slot' = c /\ currentHarq' \in Acid /\ PrevAcid(currentHarq') = c
  BY <1>2, <1>5, NextPrev DEF Slot
<1>a. \A a : Age(a)' = Age(a)
  BY <1>9, AgeStays
<1>b. \A a \in Acid : First(a) \in Unit /\ (First(a) = u <=> a = c)
  BY <1>5, FirstUnits
<1> HIDE DEF c, u
<1> USE DEF enbVars, rxVars, airVars
<1>10. TypeOK'
  BY <1>2, <1>5, <1>8, <1>9 DEF IInv, TypeOK, TxTypeOK, RxTypeOK
<1>11. NoError' /\ StepsInOrder'
  BY <1>2, <1>8 DEF IInv, NoError, StepsInOrder, UeLoopStarts
<1>12. IdleBeforeFirstTx' /\ OneCodeword'
  BY <1>2, <1>8, <1>5, FirstUnits DEF IInv, IdleBeforeFirstTx, OneCodeword, u
<1>13. DroppedEmpty'
  BY <1>5, <1>8, <1>b DEF IInv, DroppedEmpty, u
<1>14. UnitContents'
  BY <1>5, <1>8, <1>b, Constants DEF IInv, UnitContents
<1>15. SelectionMatches'
  BY <1>2, <1>8, <1>9, <1>b, TurnIsFree DEF IInv, SelectionMatches
<1>16. CountsMatch'
  BY <1>5, <1>8, <1>b DEF IInv, CountsMatch, TypeOK, TxTypeOK
<1>17. AgesTell'
  BY <1>2, <1>a DEF IInv, AgesTell, LoopsDone, UeLoopStarts
<1>18. OneAtATime'
  BY <1>2 DEF IInv, OneAtATime
<1>19. \A v \in Unit : \A p : Awaits(v, p) => Awaits(v, p)'
  BY <1>5, <1>8 DEF Awaits
<1>20. AnswersAwaited'
  BY <1>2, <1>8, <1>19, <1>b DEF IInv, AnswersAwaited, TypeOK, Data, Feedback
<1>21. WaitingAnswered'
  BY <1>2, <1>8, <1>b DEF IInv, WaitingAnswered, HasData, HasFeedback
<1>22. SwitchForgets'
  <2>1. ~dropped[c] /\ ~(txStatus[First(c)] \in {"SELECTED", "WAITING"})
    BY <1>5 DEF IInv, DroppedEmpty, u, c
  <2>2. ~(resetHarq \/ "enb" \in switching)
    BY <1>2, <1>5, <2>1 DEF IInv, SwitchForgets, UeLoopStarts
  <2> QED
    BY <1>2, <2>2 DEF UeLoopStarts, SwitchForgets
<1>23. CountedAlike'
  BY <1>2, <1>5, <1>8, <1>b DEF IInv, CountedAlike, HasData, u
<1> QED
  BY <1>10, <1>11, <1>12, <1>13, <1>14, <1>15, <1>16, <1>17, <1>18, <1>20, <1>21, <1>22, <1>23 DEF IInv

\* macPduMake: the process whose turn it is has an empty first unit, since the
\* loop that asked for the SDUs found none ready, so no check of insertPdu fails.
LEMMA MakeStep ==
  ASSUME IInv, UeMakePdu
  PROVE  IInv'
<1> DEFINE c == currentHarq
           u == First(c)
<1>1. /\ ueStep = "make" /\ ueStep' = "flush" /\ currentHarq' = NextAcid(currentHarq)
      /\ c \in Acid /\ c = Slot /\ u \in Unit /\ u[1] = c /\ txStatus[u] = "EMPTY"
      /\ switching \subseteq {"enb"} /\ dataSent = {} /\ firstTx
      /\ UNCHANGED <<firstTx, schedulingGrant, enbVars, airVars, switching, delivered>>
  BY FirstUnits DEF UeMakePdu, IInv, TypeOK, StepsInOrder, Slot
<1>2. u \in EmptyUnits(c)
  BY <1>1, Constants DEF EmptyUnits, UnitsIn, UnitsOf, First
<1>3. PICK p \in FreshPdus : TxInsertPdus(c, {<<c, 0>>}, [v \in Unit |-> p])
  BY <1>2 DEF UeMakePdu
<1>4. numEmptyUnits[c] = Cardinality(Codewords) /\ numSelected[c] = 0
      /\ selectedAcid = HarqNone
  BY <1>1, Constants DEF IInv, CountsMatch, SelectionMatches
<1>5. ~ProcessRefused(c) /\ {u} \subseteq EmptyUnits(c) /\ u = <<c, 0>>
  BY <1>2, <1>4 DEF ProcessRefused, First
<1>6. p \in Pdus
  BY DEF FreshPdus
<1>7. /\ txStatus' = [v \in Unit |-> IF v = u THEN "SELECTED" ELSE txStatus[v]]
      /\ txPdu' = [v \in Unit |-> IF v = u THEN p ELSE txPdu[v]]
      /\ txCount' = [v \in Unit |-> IF v = u THEN 0 ELSE txCount[v]]
      /\ numEmptyUnits' = [numEmptyUnits EXCEPT ![c] = Cardinality(Codewords) - 1]
      /\ numSelected' = [numSelected EXCEPT ![c] = 1]
      /\ selectedAcid' = c
      /\ dropped' = [dropped EXCEPT ![c] = FALSE]
      /\ thrown' = thrown
  <2>1. /\ selectedAcid' = c
        /\ txStatus' = [v \in Unit |-> IF v \in {u} THEN "SELECTED" ELSE txStatus[v]]
        /\ txPdu' = [v \in Unit |-> IF v \in {u} THEN [w \in Unit |-> p][v] ELSE txPdu[v]]
        /\ txCount' = [v \in Unit |-> IF v \in {u} THEN 0 ELSE txCount[v]]
        /\ numEmptyUnits' = [numEmptyUnits EXCEPT ![c] = @ - Cardinality({u})]
        /\ numSelected' = [numSelected EXCEPT ![c] = @ + Cardinality({u})]
        /\ dropped' = [dropped EXCEPT ![c] = FALSE]
        /\ UNCHANGED thrown
    BY <1>3, <1>5 DEF TxInsertPdus
  <2> HIDE DEF c, u
  <2>0. Cardinality({u}) = 1
    BY CardinalityOne
  <2>2. numEmptyUnits[c] - Cardinality({u}) = Cardinality(Codewords) - 1
    BY <1>4, <2>0
  <2>3. numSelected[c] + Cardinality({u}) = 1
    BY <1>4, <2>0
  <2>4. numEmptyUnits' = [numEmptyUnits EXCEPT ![c] = Cardinality(Codewords) - 1]
    BY <2>1, <2>2
  <2>5. numSelected' = [numSelected EXCEPT ![c] = 1]
    BY <2>1, <2>3
  <2> QED
    BY <2>1, <2>4, <2>5
<1>8. Slot' = c /\ currentHarq' \in Acid /\ PrevAcid(currentHarq') = c
  BY <1>1, NextPrev DEF Slot
<1>a. \A a : Age(a)' = Age(a)
  BY <1>1, <1>8, AgeStays
<1>b. \A a \in Acid : First(a) \in Unit /\ First(a)[1] = a /\ (First(a) = u <=> a = c)
  BY <1>1, FirstUnits
<1>c. Age(c) = 0
  BY <1>1, Ages DEF IInv
<1>d. /\ \A m \in dataAir \cup fbSent \cup fbAir : m.unit \in Unit /\ m.unit[1] # c
      /\ rxStatus[u] # "EVALUATING"
  <2>1. \A m \in dataAir \cup fbSent \cup fbAir : m.unit \in Unit
    BY DEF IInv, TypeOK, Data, Feedback
  <2>2. \A m \in dataAir \cup fbSent \cup fbAir : m.unit[1] # c
    BY <1>c, Constants DEF IInv, AgesTell
  <2>3. rxAge[u] \in Nat
    BY <1>1, Constants DEF IInv, TypeOK, RxTypeOK
  <2> QED
    BY <1>1, <1>c, <2>1, <2>2, <2>3 DEF IInv, AgesTell
<1>e. \A v \in Unit : \A q : v[1] # c => (Awaits(v, q)' <=> Awaits(v, q)) /\ txCount'[v] = txCount[v]
                                     /\ dropped'[v[1]] = dropped[v[1]]
  BY <1>1, <1>7, FirstUnits DEF Awaits, IInv, TypeOK, TxTypeOK
<1> HIDE DEF c, u
<1> USE DEF enbVars, rxVars, airVars
<1>10. TypeOK'
  BY <1>1, <1>6, <1>7, <1>8, Constants DEF IInv, TypeOK, TxTypeOK, RxTypeOK
<1>11. NoError' /\ StepsInOrder'
  BY <1>1, <1>7 DEF IInv, NoError, StepsInOrder
<1>12. IdleBeforeFirstTx' /\ OneCodeword'
  BY <1>1, <1>7, FirstUnits DEF IInv, IdleBeforeFirstTx, OneCodeword, u
<1>13. DroppedEmpty'
  BY <1>1, <1>7, <1>b DEF IInv, DroppedEmpty, TypeOK, TxTypeOK
<1>14. UnitContents'
  BY <1>1, <1>6, <1>7, <1>b, Constants DEF IInv, UnitContents
<1>15. SelectionMatches'
  BY <1>1, <1>4, <1>7, <1>8, <1>b, Constants DEF IInv, SelectionMatches, HarqNone, Acid
<1>16. CountsMatch'
  BY <1>1, <1>7, <1>b, Constants DEF IInv, CountsMatch, TypeOK, TxTypeOK
<1>17. AgesTell'
  BY <1>1, <1>a DEF IInv, AgesTell, LoopsDone
<1>18. OneAtATime'
  BY <1>1 DEF IInv, OneAtATime
<1>20. AnswersAwaited'
  <2>1. \A d \in dataAir : \/ Awaits(d.unit, d.pdu)' /\ d.ndi = (txCount'[d.unit] = 1)
                           \/ dropped'[d.unit[1]] /\ (resetHarq \/ "enb" \in switching)
    BY <1>d, <1>e DEF IInv, AnswersAwaited
  <2>2. \A f \in fbSent \cup fbAir : dropped'[f.unit[1]] \/ Awaits(f.unit, f.pdu)'
    BY <1>d, <1>e DEF IInv, AnswersAwaited
  <2>3. \A a \in Acid : rxStatus[First(a)] = "EVALUATING" =>
          \/ Awaits(First(a), rxPdu[First(a)])'
          \/ dropped'[a] /\ "enb" \in switching
    BY <1>b, <1>d, <1>e, <1>1 DEF IInv, AnswersAwaited, Awaits
  <2> QED
    BY <1>1, <2>1, <2>2, <2>3 DEF AnswersAwaited, Awaits
<1>21. WaitingAnswered'
  BY <1>1, <1>7, <1>b DEF IInv, WaitingAnswered, HasData, HasFeedback
<1>22. SwitchForgets'
  BY <1>1, <1>7, <1>8, <1>b DEF IInv, SwitchForgets, TypeOK, TxTypeOK
<1>23. CountedAlike'
  <2>1. CASE RxPurges
    BY <1>1, <2>1 DEF IInv, CountedAlike
  <2>2. CASE ~RxPurges
    <3> SUFFICES ASSUME switching = {}, NEW a \in Acid
                 PROVE  LET w == First(a) IN
                   /\ rxStatus[w] = "EMPTY" =>
                        /\ rxCount[a] = 0
                        /\ txStatus'[w] # "BUFFERED"
                        /\ txStatus'[w] = "SELECTED" => txCount'[w] = 0
                        /\ HasData(w)' /\ ~dropped'[a] => txCount'[w] = 1
                        /\ \A f \in fbSent \cup fbAir :
                             f.unit = w /\ ~dropped'[a] => f.ack \/ txCount'[w] = MaxHarqRtx + 1
                   /\ rxStatus[w] = "EVALUATING" => rxCount[a] = txCount'[w]
                   /\ rxStatus[w] = "CORRUPTED" =>
                        /\ txStatus'[w] # "EMPTY" /\ txPdu'[w] = rxPdu[w]
                        /\ rxCount[a] \in 1 .. MaxHarqRtx
                        /\ rxCount[a] = txCount'[w] - (IF HasData(w)' THEN 1 ELSE 0)
                        /\ \A f \in fbSent \cup fbAir : f.unit = w => ~f.ack
      BY <1>1, <2>2 DEF CountedAlike
    <3>1. HasData(First(a))' <=> HasData(First(a))
      BY <1>1 DEF HasData
    <3>2. CASE a = c
      <4>1. rxStatus[u] # "CORRUPTED"
        BY <1>1, <2>2 DEF IInv, CountedAlike, c, u
      <4>2. rxStatus[u] = "EMPTY" => rxCount[c] = 0
        BY <1>1, <2>2 DEF IInv, CountedAlike, c, u
      <4>3. ~HasData(u)
        BY <1>1, <1>d DEF HasData
      <4> QED
        BY <1>1, <1>7, <1>b, <1>d, <3>1, <3>2, <4>1, <4>2, <4>3
    <3>3. CASE a # c
      <4>1. /\ txStatus'[First(a)] = txStatus[First(a)]
            /\ txCount'[First(a)] = txCount[First(a)]
            /\ txPdu'[First(a)] = txPdu[First(a)]
            /\ dropped'[a] = dropped[a]
        BY <1>7, <1>b, <3>3 DEF IInv, TypeOK, TxTypeOK
      <4> QED
        BY <2>2, <3>1, <4>1 DEF IInv, CountedAlike
    <3> QED
      BY <3>2, <3>3
  <2> QED
    BY <2>1, <2>2
<1> QED
  BY <1>10, <1>11, <1>12, <1>13, <1>14, <1>15, <1>16, <1>17, <1>18, <1>20, <1>21, <1>22, <1>23 DEF IInv

\* flushHarqBuffers: the one selected unit, if any, is sent and waits.
LEMMA FlushStep ==
  ASSUME IInv, UeFlush
  PROVE  IInv'
<1>1. /\ ueStep = "flush" /\ ueStep' = "air" /\ TxSendSelectedDown
      /\ dataSent = {} /\ dataSent' = SelectedData /\ schedulingGrant' = NoGrant
      /\ "ue" \notin switching
      /\ UNCHANGED <<currentHarq, firstTx, enbVars, fbSent, grantSent, dataAir,
                     fbAir, grantAir, switching, delivered>>
  BY DEF UeFlush, IInv, StepsInOrder
<1>2. Slot' = Slot
  BY <1>1 DEF Slot
<1>a. \A a : Age(a)' = Age(a)
  BY <1>2, AgeStays
<1> USE DEF enbVars, rxVars
<1>3. CASE selectedAcid = HarqNone
  <2>1. dataSent' = {} /\ UNCHANGED <<txVars, thrown>>
    BY <1>1, <1>3 DEF TxSendSelectedDown, SelectedData, SelectedUnits
  <2> USE DEF txVars
  <2>2. TypeOK'
    BY <1>1, <2>1 DEF IInv, TypeOK, TxTypeOK, RxTypeOK, Grant
  <2>3. NoError' /\ StepsInOrder'
    BY <1>1, <2>1 DEF IInv, NoError, StepsInOrder
  <2>4. IdleBeforeFirstTx' /\ OneCodeword' /\ DroppedEmpty' /\ UnitContents'
    BY <1>1, <2>1 DEF IInv, IdleBeforeFirstTx, OneCodeword, DroppedEmpty, UnitContents
  <2>5. SelectionMatches' /\ CountsMatch'
    BY <1>1, <1>3, <2>1 DEF IInv, SelectionMatches, CountsMatch
  <2>6. AgesTell'
    BY <1>1, <1>a, <2>1 DEF IInv, AgesTell, LoopsDone
  <2>7. OneAtATime' /\ AnswersAwaited' /\ WaitingAnswered'
    BY <1>1, <2>1 DEF IInv, OneAtATime, AnswersAwaited, Awaits, WaitingAnswered, HasData, HasFeedback
  <2>8. SwitchForgets' /\ CountedAlike'
    BY <1>1, <1>2, <2>1 DEF IInv, SwitchForgets, CountedAlike, HasData
  <2> QED
    BY <2>2, <2>3, <2>4, <2>5, <2>6, <2>7, <2>8 DEF IInv
<1>4. CASE selectedAcid # HarqNone
  <2>0. PICK c \in Acid : c = selectedAcid
    BY <1>4 DEF IInv, TypeOK, TxTypeOK
  <2> DEFINE u == First(c)
  <2>1. /\ c \in Acid /\ c = PrevAcid(currentHarq) /\ c = Slot
        /\ u \in Unit /\ u[1] = c /\ u[2] = 0 /\ txStatus[u] = "SELECTED"
    BY <1>1, <1>4, <2>0, FirstUnits DEF IInv, SelectionMatches, Slot
  <2>2. SelectedUnits = {u}
    BY <1>4, <2>0, <2>1, UnitsInOne DEF SelectedUnits
  <2>3. PICK d \in Data : /\ d = [unit |-> u, pdu |-> txPdu[u], ndi |-> txCount[u] = 0]
                          /\ dataSent' = {d}
    <3>1. txPdu[u] \in Pdus \cup {NoPdu} /\ (txCount[u] = 0) \in BOOLEAN
      BY <2>1 DEF IInv, TypeOK, TxTypeOK
    <3>2. [unit |-> u, pdu |-> txPdu[u], ndi |-> txCount[u] = 0] \in Data
      BY <2>1, <3>1 DEF Data
    <3>3. dataSent' = {[unit |-> u, pdu |-> txPdu[u], ndi |-> txCount[u] = 0]}
      BY <1>1, <2>2 DEF SelectedData
    <3> QED
      BY <3>2, <3>3
  <2>4. Cardinality({u}) = 1 /\ numSelected[c] = 1 /\ ~dropped[c]
    BY <2>1, CardinalityOne DEF IInv, CountsMatch, DroppedEmpty
  <2>5. /\ txStatus' = [v \in Unit |-> IF v \in {u} THEN "WAITING" ELSE txStatus[v]]
        /\ txCount' = [v \in Unit |-> IF v \in {u} THEN txCount[v] + 1 ELSE txCount[v]]
        /\ numSelected' = [numSelected EXCEPT ![c] = @ - Cardinality({u})]
        /\ selectedAcid' = HarqNone
        /\ UNCHANGED <<txPdu, numEmptyUnits, dropped, thrown>>
    BY <1>1, <1>4, <2>0, <2>2, <2>4 DEF TxSendSelectedDown
  <2> HIDE DEF u
  <2>6. /\ numSelected' = [numSelected EXCEPT ![c] = 0]
        /\ txStatus' = [v \in Unit |-> IF v = u THEN "WAITING" ELSE txStatus[v]]
        /\ txCount' = [v \in Unit |-> IF v = u THEN txCount[u] + 1 ELSE txCount[v]]
    <3>1. numSelected[c] - Cardinality({u}) = 0
      BY <2>4
    <3> QED
      BY <2>5, <3>1
  <2>b. \A a \in Acid : First(a) \in Unit /\ First(a)[1] = a /\ (First(a) = u <=> a = c)
    BY <2>1, FirstUnits DEF u
  <2>c. Age(c) = 0
    BY <2>1, Ages DEF IInv
  <2>d. /\ \A m \in dataAir \cup fbSent \cup fbAir : m.unit \in Unit /\ m.unit # u
        /\ rxStatus[u] # "EVALUATING"
    <3>1. \A m \in dataAir \cup fbSent \cup fbAir : m.unit \in Unit
      BY DEF IInv, TypeOK, Data, Feedback
    <3>2. \A m \in dataAir \cup fbSent \cup fbAir : m.unit[1] # c
      BY <2>c, Constants DEF IInv, AgesTell
    <3>3. rxAge[u] \in Nat
      BY <2>1, Constants DEF IInv, TypeOK, RxTypeOK
    <3>4. rxStatus[u] # "EVALUATING"
      BY <2>1, <2>c, <3>3 DEF IInv, AgesTell, u
    <3> QED
      BY <2>1, <3>1, <3>2, <3>4
  <2>e. \A v \in Unit : \A q : v # u => (Awaits(v, q)' <=> Awaits(v, q)) /\ txCount'[v] = txCount[v]
    BY <2>5, <2>6 DEF Awaits
  <2>f. d.unit = u /\ d.pdu = txPdu[u] /\ d.ndi = (txCount[u] = 0) /\ d \in Data
    BY <2>3
  <2>g. txCount[u] \in 0 .. MaxHarqRtx /\ txCount'[u] = txCount[u] + 1 /\ txStatus'[u] = "WAITING"
    BY <2>1, <2>6, Constants DEF IInv, UnitContents, TypeOK, TxTypeOK, u
  <2>7. TypeOK'
    BY <1>1, <2>1, <2>3, <2>5, <2>6, <2>f, Constants DEF IInv, TypeOK, TxTypeOK, RxTypeOK, Grant
  <2>8. NoError' /\ StepsInOrder'
    BY <1>1, <2>5 DEF IInv, NoError, StepsInOrder
  <2>9. IdleBeforeFirstTx' /\ OneCodeword'
    BY <1>1, <2>1, <2>3, <2>6, <2>f, FirstUnits DEF IInv, IdleBeforeFirstTx, StepsInOrder, OneCodeword
  <2>10. DroppedEmpty'
    BY <2>4, <2>5, <2>6, <2>b DEF IInv, DroppedEmpty
  <2>11. UnitContents'
    <3>1. \A a \in Acid : txPdu'[First(a)] = txPdu[First(a)]
      BY <2>5
    <3>2. txPdu[u] \in Pdus
      BY <2>1 DEF IInv, UnitContents, u
    <3> QED
      BY <2>6, <2>b, <2>g, <3>1, <3>2, Constants DEF IInv, UnitContents
  <2>12. SelectionMatches'
    BY <1>1, <1>4, <2>0, <2>5, <2>6, <2>b, Constants DEF IInv, SelectionMatches, HarqNone, Acid
  <2>13. CountsMatch'
    BY <2>1, <2>5, <2>6, <2>b DEF IInv, CountsMatch, TypeOK, TxTypeOK
  <2>14. AgesTell'
    BY <1>1, <1>a, <2>1, <2>3, <2>c, <2>f DEF IInv, AgesTell, LoopsDone
  <2>15. OneAtATime'
    BY <1>1, <2>3 DEF IInv, OneAtATime, AtMostOne
  <2>16. AnswersAwaited'
    <3>1. Awaits(u, d.pdu)' /\ d.ndi = (txCount'[u] = 1)
      BY <2>1, <2>4, <2>5, <2>f, <2>g DEF Awaits
    <3>2. \A e \in dataAir : \/ Awaits(e.unit, e.pdu)' /\ e.ndi = (txCount'[e.unit] = 1)
                             \/ dropped[e.unit[1]] /\ (resetHarq \/ "enb" \in switching)
      BY <2>d, <2>e DEF IInv, AnswersAwaited
    <3>3. \A f \in fbSent \cup fbAir : dropped[f.unit[1]] \/ Awaits(f.unit, f.pdu)'
      BY <2>d, <2>e DEF IInv, AnswersAwaited
    <3>4. \A a \in Acid : rxStatus[First(a)] = "EVALUATING" =>
            \/ Awaits(First(a), rxPdu[First(a)])'
            \/ dropped[a] /\ "enb" \in switching
      <4>1. \A a \in Acid : rxStatus[First(a)] = "EVALUATING" => First(a) \in Unit /\ First(a) # u
        BY <2>b, <2>d
      <4>2. \A a \in Acid : rxStatus[First(a)] = "EVALUATING" =>
              Awaits(First(a), rxPdu[First(a)]) \/ (dropped[a] /\ "enb" \in switching)
        BY DEF IInv, AnswersAwaited
      <4>3. \A a \in Acid : rxStatus[First(a)] = "EVALUATING" =>
              (Awaits(First(a), rxPdu[First(a)])' <=> Awaits(First(a), rxPdu[First(a)]))
        <5>1. rxPdu' = rxPdu
          BY <1>1
        <5> QED
          BY <5>1, <4>1, <2>5, <2>6 DEF Awaits
      <4> QED
        BY <4>2, <4>3
    <3> QED
      BY <1>1, <2>3, <2>5, <2>f, <3>1, <3>2, <3>3, <3>4 DEF AnswersAwaited, Awaits
  <2>17. WaitingAnswered'
    BY <1>1, <2>3, <2>6, <2>b, <2>f DEF IInv, WaitingAnswered, HasData, HasFeedback
  <2>18. SwitchForgets'
    BY <1>1, <1>2, <2>1, <2>3, <2>4, <2>5, <2>6, <2>b, <2>f, <2>g DEF IInv, SwitchForgets
  <2>19. CountedAlike'
    <3>1. CASE RxPurges
      BY <1>1, <3>1 DEF IInv, CountedAlike
    <3>2. CASE ~RxPurges
      <4> SUFFICES ASSUME switching = {}, NEW a \in Acid
                   PROVE  LET w == First(a) IN
                     /\ rxStatus[w] = "EMPTY" =>
                          /\ rxCount[a] = 0
                          /\ txStatus'[w] # "BUFFERED"
                          /\ txStatus'[w] = "SELECTED" => txCount'[w] = 0
                          /\ HasData(w)' /\ ~dropped[a] => txCount'[w] = 1
                          /\ \A f \in fbSent \cup fbAir :
                               f.unit = w /\ ~dropped[a] => f.ack \/ txCount'[w] = MaxHarqRtx + 1
                     /\ rxStatus[w] = "EVALUATING" => rxCount[a] = txCount'[w]
                     /\ rxStatus[w] = "CORRUPTED" =>
                          /\ txStatus'[w] # "EMPTY" /\ txPdu[w] = rxPdu[w]
                          /\ rxCount[a] \in 1 .. MaxHarqRtx
                          /\ rxCount[a] = txCount'[w] - (IF HasData(w)' THEN 1 ELSE 0)
                          /\ \A f \in fbSent \cup fbAir : f.unit = w => ~f.ack
        BY <1>1, <2>5, <3>2 DEF CountedAlike
      <4>1. CASE a = c
        <5>1. ~HasData(u) /\ HasData(u)'
          BY <1>1, <2>3, <2>d, <2>f DEF HasData
        <5> QED
          BY <2>1, <2>b, <2>d, <2>g, <3>2, <4>1, <5>1 DEF IInv, CountedAlike
      <4>2. CASE a # c
        <5>1. HasData(First(a))' <=> HasData(First(a))
          BY <1>1, <2>3, <2>b, <2>f, <4>2 DEF HasData
        <5>2. txStatus'[First(a)] = txStatus[First(a)] /\ txCount'[First(a)] = txCount[First(a)]
          BY <2>6, <2>b, <4>2
        <5> QED
          BY <3>2, <5>1, <5>2 DEF IInv, CountedAlike
      <4> QED
        BY <4>1, <4>2
    <3> QED
      BY <3>1, <3>2
  <2> QED
    BY <2>7, <2>8, <2>9, <2>10, <2>11, <2>12, <2>13, <2>14, <2>15, <2>16, <2>17, <2>18, <2>19 DEF IInv
<1> QED
  BY <1>3, <1>4

\* What one loop of the receiver does to the units in use.
LEMMA LoopEffect ==
  ASSUME IInv, enbStep = "tick", "enb" \notin switching, RxMainLoop, NEW a \in Acid
  PROVE  LET u == First(a)
             evaluated == rxStatus[u] = "EVALUATING" /\ rxAge[u] >= FbInterval
             exhausted == evaluated /\ ~rxResult[u] /\ rxCount[a] = MaxHarqRtx + 1
         IN  /\ u \in Evaluated <=> evaluated
             /\ rxStatus'[u] = "EVALUATING" =>
                  /\ rxStatus[u] = "EVALUATING" /\ ~evaluated
                  /\ rxAge'[u] = rxAge[u] /\ rxPdu'[u] = rxPdu[u]
             /\ evaluated =>
                  /\ rxAge[u] = FbInterval /\ Age(a) = FbInterval + 1
                  /\ Awaits(u, rxPdu[u])
                  /\ ~RxPurges => rxCount[a] = txCount[u]
                  /\ switching = {}
                  /\ rxStatus'[u] = IF rxResult[u] \/ exhausted \/ RxPurges
                                    THEN "EMPTY" ELSE "CORRUPTED"
                  /\ (rxResult[u] \/ exhausted) => rxCount'[a] = 0
                  /\ ~(rxResult[u] \/ exhausted \/ RxPurges) =>
                       rxCount'[a] = rxCount[a] /\ rxPdu'[u] = rxPdu[u]
             /\ ~evaluated =>
                  /\ ~RxPurges => rxStatus'[u] = rxStatus[u]
                  /\ rxStatus[u] \in {"EMPTY", "EVALUATING"} => rxStatus'[u] = rxStatus[u]
                  /\ RxPurges => rxStatus'[u] # "CORRUPTED"
                  /\ rxPdu'[u] = rxPdu[u] \/ rxStatus'[u] = "EMPTY"
                  /\ rxAge'[u] = rxAge[u]
                  /\ ~RxPurges \/ rxStatus[u] = "EMPTY" => rxCount'[a] = rxCount[a]
<1> DEFINE u == First(a)
           evaluated == rxStatus[u] = "EVALUATING" /\ rxAge[u] >= FbInterval
           exhausted == evaluated /\ ~rxResult[u] /\ rxCount[a] = MaxHarqRtx + 1
<1>1. /\ u \in Unit /\ u[1] = a /\ u[2] = 0
      /\ \A v \in Unit : v[1] = a /\ rxStatus[v] # "EMPTY" => v = u
  BY FirstUnits DEF IInv, OneCodeword
<1>2. u \in Evaluated <=> evaluated
  BY <1>1 DEF Evaluated
<1>3. rxAge[u] \in 0 .. FbInterval /\ rxResult[u] \in BOOLEAN
  BY <1>1 DEF IInv, TypeOK, RxTypeOK
<1>4. ASSUME evaluated
      PROVE  rxAge[u] = FbInterval /\ Age(a) = FbInterval + 1
  BY <1>3, <1>4, Constants DEF IInv, AgesTell
<1>5. ASSUME evaluated
      PROVE  switching = {} /\ Awaits(u, rxPdu[u])
  <2>1. ~resetHarq
    BY <1>5 DEF IInv, SwitchForgets
  <2>2. "ue" \notin switching
    BY <2>1 DEF IInv, SwitchForgets
  <2> QED
    BY <2>2, <1>5 DEF IInv, TypeOK, AnswersAwaited
<1>6. ASSUME evaluated, ~RxPurges
      PROVE  rxCount[a] = txCount[u]
  BY <1>5, <1>6 DEF IInv, CountedAlike
<1>7. u \in CorrectUnits <=> evaluated /\ rxResult[u]
  BY <1>2 DEF CorrectUnits
<1>8. u \in NackedUnits <=> evaluated /\ ~rxResult[u]
  BY <1>2, <1>7 DEF NackedUnits
<1>9. \A v \in NackedUnits : v \in Unit /\ rxStatus[v] # "EMPTY"
  BY DEF NackedUnits, Evaluated
<1>10. u \in ExhaustedUnits <=> exhausted
  BY <1>1, <1>8, <1>9, Constants DEF ExhaustedUnits
<1>11. u \in PurgedUnits <=> RxPurges /\ (u \in NackedUnits \/ rxStatus[u] = "CORRUPTED")
  BY <1>1 DEF PurgedUnits
<1>12. \A v \in ResetUnits : v \in Unit /\ rxStatus[v] # "EMPTY"
  BY DEF ResetUnits, CorrectUnits, ExhaustedUnits, PurgedUnits, NackedUnits, Evaluated
<1>13. (UnitsOf(a) \cap ResetUnits # {}) <=> u \in ResetUnits
  <2>1. \A v \in UnitsOf(a) : v \in Unit /\ v[1] = a
    BY DEF UnitsOf, Unit
  <2>2. u \in UnitsOf(a)
    BY Constants DEF UnitsOf, First
  <2> QED
    BY <1>1, <1>12, <2>1, <2>2
<1>14. /\ rxStatus'[u] = IF u \in ResetUnits THEN "EMPTY"
                         ELSE IF u \in NackedUnits THEN "CORRUPTED" ELSE rxStatus[u]
       /\ rxPdu'[u] = IF u \in ResetUnits THEN NoPdu ELSE rxPdu[u]
       /\ rxAge'[u] = IF u \in Evaluated THEN 0 ELSE rxAge[u]
       /\ rxCount'[a] = IF u \in ResetUnits THEN 0 ELSE rxCount[a]
  BY <1>1, <1>13 DEF RxMainLoop
<1>15. u \in ResetUnits <=> \/ evaluated /\ (rxResult[u] \/ exhausted \/ RxPurges)
                            \/ RxPurges /\ rxStatus[u] = "CORRUPTED"
  BY <1>7, <1>8, <1>10, <1>11 DEF ResetUnits
<1>16. evaluated => rxStatus[u] = "EVALUATING"
  OBVIOUS
<1> HIDE DEF evaluated, exhausted
<1>17. exhausted => evaluated
  BY DEF exhausted
<1>18. evaluated =>
         /\ rxAge[u] = FbInterval /\ Age(a) = FbInterval + 1
         /\ Awaits(u, rxPdu[u])
         /\ ~RxPurges => rxCount[a] = txCount[u]
         /\ switching = {}
         /\ rxStatus'[u] = IF rxResult[u] \/ exhausted \/ RxPurges
                           THEN "EMPTY" ELSE "CORRUPTED"
         /\ (rxResult[u] \/ exhausted) => rxCount'[a] = 0
         /\ ~(rxResult[u] \/ exhausted \/ RxPurges) =>
              rxCount'[a] = rxCount[a] /\ rxPdu'[u] = rxPdu[u]
  BY <1>4, <1>5, <1>6, <1>8, <1>14, <1>15, <1>16
<1>19. ~evaluated =>
         /\ ~RxPurges => rxStatus'[u] = rxStatus[u]
         /\ rxStatus[u] \in {"EMPTY", "EVALUATING"} => rxStatus'[u] = rxStatus[u]
         /\ RxPurges => rxStatus'[u] # "CORRUPTED"
         /\ rxPdu'[u] = rxPdu[u] \/ rxStatus'[u] = "EMPTY"
         /\ rxAge'[u] = rxAge[u]
         /\ ~RxPurges \/ rxStatus[u] = "EMPTY" => rxCount'[a] = rxCount[a]
  BY <1>2, <1>7, <1>8, <1>14, <1>15, <1>17
<1>20. rxStatus'[u] = "EVALUATING" =>
         /\ rxStatus[u] = "EVALUATING" /\ ~evaluated
         /\ rxAge'[u] = rxAge[u] /\ rxPdu'[u] = rxPdu[u]
  BY <1>2, <1>7, <1>8, <1>14, <1>15
<1> QED
  BY <1>2, <1>18, <1>19, <1>20 DEF evaluated, exhausted

\* A main loop of the eNodeB, whatever it grants: every evaluated unit is
\* answered, and the answer is the only one of its transmission.
LEMMA EnbTickStep ==
  ASSUME IInv, NEW grant \in Grant, EnbTick(grant)
  PROVE  IInv'
<1>1. /\ enbStep = "tick" /\ enbStep' = "air" /\ "enb" \notin switching /\ fbSent = {}
      /\ RxMainLoop /\ fbSent' = RxFeedback /\ grantSent' = grant
      /\ delivered' = delivered \cup ExtractedPdus /\ harqStatus' = NextHarqStatus
      /\ UNCHANGED <<ueVars, rxBuffer, dataSent, dataAir, fbAir, grantAir, switching>>
  BY DEF EnbTick, IInv, StepsInOrder
<1>2. Slot' = Slot
  BY <1>1 DEF Slot, ueVars
<1>a. \A a : Age(a)' = Age(a)
  BY <1>2, AgeStays
<1> USE DEF ueVars, txVars
<1>3. \A u \in Evaluated : u \in Unit /\ u = First(u[1]) /\ u[1] \in Acid /\ u[2] = 0
                           /\ rxStatus[u] = "EVALUATING" /\ rxAge[u] >= FbInterval
  BY FirstUnits DEF Evaluated, IInv, OneCodeword
<1>4. \A u \in Evaluated : /\ Age(u[1]) = FbInterval + 1
                           /\ Awaits(u, rxPdu[u]) /\ switching = {} /\ ~resetHarq
  <2> SUFFICES ASSUME NEW u \in Evaluated
               PROVE  Age(u[1]) = FbInterval + 1 /\ Awaits(u, rxPdu[u])
                      /\ switching = {} /\ ~resetHarq
    OBVIOUS
  <2>1. u = First(u[1]) /\ u[1] \in Acid /\ rxStatus[u] = "EVALUATING" /\ rxAge[u] >= FbInterval
    BY <1>3
  <2>2. ~resetHarq
    BY <2>1 DEF IInv, SwitchForgets
  <2> QED
    BY <1>1, <2>1, <2>2, LoopEffect
<1>5. /\ \A f \in fbSent' : /\ f \in Feedback /\ f.unit \in Evaluated
                            /\ f.pdu = rxPdu[f.unit] /\ f.ack = rxResult[f.unit]
      /\ \A u \in Evaluated : \E f \in fbSent' : f.unit = u
  <2>1. \A u \in Evaluated : rxPdu[u] \in Pdus \cup {NoPdu} /\ rxResult[u] \in BOOLEAN
    BY <1>3 DEF IInv, TypeOK, RxTypeOK
  <2>2. \A u \in Evaluated : [unit |-> u, pdu |-> rxPdu[u], ack |-> rxResult[u]] \in Feedback
    BY <1>3, <2>1 DEF Feedback
  <2>3. fbSent' = {[unit |-> u, pdu |-> rxPdu[u], ack |-> rxResult[u]] : u \in Evaluated}
    BY <1>1 DEF RxFeedback
  <2>4. \A f \in fbSent' : \E u \in Evaluated :
          f = [unit |-> u, pdu |-> rxPdu[u], ack |-> rxResult[u]]
    BY <2>3
  <2>5. \A u \in Evaluated : [unit |-> u, pdu |-> rxPdu[u], ack |-> rxResult[u]] \in fbSent'
    BY <2>3
  <2>6. ASSUME NEW f \in fbSent'
        PROVE  /\ f \in Feedback /\ f.unit \in Evaluated
               /\ f.pdu = rxPdu[f.unit] /\ f.ack = rxResult[f.unit]
    <3>1. PICK u \in Evaluated : f = [unit |-> u, pdu |-> rxPdu[u], ack |-> rxResult[u]]
      BY <2>4
    <3>2. f.unit = u /\ f.pdu = rxPdu[u] /\ f.ack = rxResult[u]
      BY <3>1
    <3> QED
      BY <2>2, <3>1, <3>2
  <2>7. ASSUME NEW u \in Evaluated
        PROVE  \E f \in fbSent' : f.unit = u
    <3>1. [unit |-> u, pdu |-> rxPdu[u], ack |-> rxResult[u]] \in fbSent'
      BY <2>5
    <3> QED
      BY <3>1
  <2> QED
    BY <2>6, <2>7
<1>6. TypeOK'
  <2>1. /\ \A u \in Unit : rxPdu[u] \in Pdus \cup {NoPdu} /\ rxResult[u] \in BOOLEAN
        /\ rxStatus \in [Unit -> {"EMPTY", "EVALUATING", "CORRUPTED"}]
        /\ rxAge \in [Unit -> 0 .. FbInterval]
        /\ rxCount \in [Acid -> 0 .. CountModulus - 1] /\ resetHarq \in BOOLEAN
    BY DEF IInv, TypeOK, RxTypeOK
  <2>2. RxTypeOK'
    BY <1>1, <2>1, Constants DEF RxMainLoop, RxTypeOK, CountModulus
  <2>3. ExtractedPdus \subseteq Pdus
    <3>1. \A u \in CorrectUnits : u \in Evaluated
      BY DEF CorrectUnits
    <3>2. \A u \in Evaluated : txPdu[u] = rxPdu[u] /\ txStatus[u] = "WAITING"
      BY <1>4 DEF Awaits
    <3>3. \A u \in Evaluated : txPdu[u] \in Pdus
      BY <1>3, <3>2 DEF IInv, UnitContents
    <3> QED
      BY <3>1, <3>2, <3>3 DEF ExtractedPdus
  <2>4. NextHarqStatus \in Acid \cup {HarqNone}
    <3>1. harqStatus \in Acid => NextAcid(harqStatus) \in Acid
      BY NextPrev
    <3> QED
      BY <3>1, Constants DEF IInv, TypeOK, NextHarqStatus, Acid
  <2> QED
    BY <1>1, <1>5, <2>2, <2>3, <2>4 DEF IInv, TypeOK, TxTypeOK, RxMainLoop
<1>7. NoError' /\ StepsInOrder'
  BY <1>1 DEF IInv, NoError, StepsInOrder, RxMainLoop
<1>8. IdleBeforeFirstTx'
  <2>1. ~firstTx => \A a \in Acid : rxStatus'[First(a)] = "EMPTY"
    BY <1>1, LoopEffect DEF IInv, IdleBeforeFirstTx
  <2>2. ~firstTx => Evaluated = {}
    BY <1>3 DEF IInv, IdleBeforeFirstTx
  <2> QED
    BY <1>1, <1>5, <2>1, <2>2 DEF IInv, IdleBeforeFirstTx
<1>9. OneCodeword'
  <2>1. \A u \in Unit : u[2] # 0 => u \notin Evaluated /\ u \notin NackedUnits
    BY <1>3 DEF NackedUnits
  <2>2. \A u \in Unit : u[2] # 0 => rxStatus'[u] = "EMPTY"
    BY <1>1, <2>1 DEF RxMainLoop, IInv, OneCodeword
  <2> QED
    BY <1>1, <1>3, <1>5, <2>2 DEF IInv, OneCodeword
<1>10. DroppedEmpty' /\ UnitContents' /\ SelectionMatches' /\ CountsMatch'
  BY <1>1 DEF IInv, DroppedEmpty, UnitContents, SelectionMatches, CountsMatch
<1>11. AgesTell'
  <2>1. \A a \in Acid : rxStatus'[First(a)] = "EVALUATING" =>
          /\ rxStatus[First(a)] = "EVALUATING" /\ ~(rxAge[First(a)] >= FbInterval)
          /\ rxAge'[First(a)] = rxAge[First(a)]
    BY <1>1, LoopEffect
  <2>2. \A a \in Acid : rxAge[First(a)] \in Nat
    BY FirstUnits, Constants DEF IInv, TypeOK, RxTypeOK
  <2>3. \A a \in Acid : rxStatus'[First(a)] = "EVALUATING" => rxAge'[First(a)] < FbInterval
    BY <2>1, <2>2, Constants
  <2>4. \A a \in Acid : rxStatus'[First(a)] = "EVALUATING" =>
          Age(a) = rxAge'[First(a)] + 1 /\ rxAge'[First(a)] # 0
    BY <1>1, <2>1 DEF IInv, AgesTell, LoopsDone
  <2>5. \A f \in fbSent' : Age(f.unit[1]) = FbInterval + 1
    BY <1>4, <1>5
  <2> QED
    BY <1>1, <1>a, <2>3, <2>4, <2>5 DEF IInv, AgesTell
<1>12. OneAtATime'
  <2> SUFFICES ASSUME NEW f \in fbSent', NEW g \in fbSent'
               PROVE  f = g
    BY <1>1 DEF IInv, OneAtATime, AtMostOne
  <2>1. f.unit \in Evaluated /\ g.unit \in Evaluated
    BY <1>5
  <2>2. f.unit[1] = g.unit[1]
    BY <1>3, <1>4, <2>1, Ages DEF IInv
  <2>3. f.unit = g.unit
    BY <1>3, <2>1, <2>2
  <2> QED
    BY <1>5, <2>3 DEF Feedback
<1>13. AnswersAwaited'
  <2>1. \A v, q : Awaits(v, q)' <=> Awaits(v, q)
    BY <1>1 DEF Awaits
  <2>2. \A a \in Acid : rxStatus'[First(a)] = "EVALUATING" =>
          rxStatus[First(a)] = "EVALUATING" /\ rxPdu'[First(a)] = rxPdu[First(a)]
    BY <1>1, LoopEffect
  <2>3. \A a \in Acid : rxStatus'[First(a)] = "EVALUATING" =>
          Awaits(First(a), rxPdu'[First(a)])
    BY <1>1, <2>2 DEF IInv, AnswersAwaited
  <2>4. resetHarq' = resetHarq
    BY <1>1 DEF RxMainLoop
  <2> QED
    BY <1>1, <1>4, <1>5, <2>1, <2>3, <2>4 DEF IInv, AnswersAwaited, Awaits
<1>14. WaitingAnswered'
  <2>1. \A a \in Acid : rxStatus[First(a)] = "EVALUATING" =>
          rxStatus'[First(a)] = "EVALUATING" \/ First(a) \in Evaluated
    BY <1>1, LoopEffect
  <2>2. \A a \in Acid : First(a) \in Evaluated => HasFeedback(First(a))'
    BY <1>5 DEF HasFeedback
  <2>3. \A a \in Acid : HasFeedback(First(a)) => HasFeedback(First(a))'
    BY <1>1 DEF HasFeedback
  <2> QED
    BY <1>1, <2>1, <2>2, <2>3 DEF IInv, WaitingAnswered, HasData
<1>15. SwitchForgets'
  <2>1. resetHarq => fbSent' = {}
    BY <1>4, <1>5
  <2>2. resetHarq => \A a \in Acid : rxStatus'[First(a)] = "EMPTY" /\ rxCount'[a] = 0
    BY <1>1, LoopEffect DEF IInv, SwitchForgets
  <2>3. resetHarq' = resetHarq
    BY <1>1 DEF RxMainLoop
  <2> QED
    BY <1>1, <1>2, <2>1, <2>2, <2>3 DEF IInv, SwitchForgets
<1>16. CountedAlike'
  <2>1. CASE RxPurges
    <3>1. \A a \in Acid : rxStatus'[First(a)] # "CORRUPTED"
      BY <1>1, <2>1, LoopEffect
    <3> QED
      BY <2>1, <3>1 DEF CountedAlike
  <2>2. CASE ~RxPurges
    <3> SUFFICES ASSUME switching = {}, NEW a \in Acid
                 PROVE  LET w == First(a) IN
                   /\ rxStatus'[w] = "EMPTY" =>
                        /\ rxCount'[a] = 0
                        /\ txStatus[w] # "BUFFERED"
                        /\ txStatus[w] = "SELECTED" => txCount[w] = 0
                        /\ HasData(w) /\ ~dropped[a] => txCount[w] = 1
                        /\ \A f \in fbSent' \cup fbAir :
                             f.unit = w /\ ~dropped[a] => f.ack \/ txCount[w] = MaxHarqRtx + 1
                   /\ rxStatus'[w] = "EVALUATING" => rxCount'[a] = txCount[w]
                   /\ rxStatus'[w] = "CORRUPTED" =>
                        /\ txStatus[w] # "EMPTY" /\ txPdu[w] = rxPdu'[w]
                        /\ rxCount'[a] \in 1 .. MaxHarqRtx
                        /\ rxCount'[a] = txCount[w] - (IF HasData(w) THEN 1 ELSE 0)
                        /\ \A f \in fbSent' \cup fbAir : f.unit = w => ~f.ack
      BY <1>1, <2>2 DEF CountedAlike, HasData
    <3> DEFINE w == First(a)
    <3>1. CASE w \in Evaluated
      <4>1. /\ rxStatus[w] = "EVALUATING" /\ rxAge[w] >= FbInterval /\ Age(a) = FbInterval + 1
            /\ w \in Unit /\ w[1] = a
        BY <1>3, <1>4, <3>1, FirstUnits
      <4>2. Awaits(w, rxPdu[w])
        BY <1>4, <3>1
      <4>3. ~HasData(w)
        BY <4>1, Constants DEF IInv, HasData, AgesTell
      <4>4. \A f \in fbAir : f.unit # w
        BY <4>1, Constants DEF IInv, AgesTell
      <4>5. \A f \in fbSent' : f.unit = w => f.ack = rxResult[w]
        BY <1>5
      <4>6. txStatus[w] = "WAITING" /\ txCount[w] \in 1 .. MaxHarqRtx + 1 /\ rxCount[a] = txCount[w]
        BY <2>2, <4>1, <4>2 DEF IInv, UnitContents, CountedAlike, Awaits
      <4>7. CASE rxResult[w] \/ rxCount[a] = MaxHarqRtx + 1
        <5>1. rxStatus'[w] = "EMPTY" /\ rxCount'[a] = 0
          BY <1>1, <4>1, <4>7, LoopEffect
        <5> QED
          BY <4>3, <4>4, <4>5, <4>6, <4>7, <5>1
      <4>8. CASE ~(rxResult[w] \/ rxCount[a] = MaxHarqRtx + 1)
        <5>1. rxStatus'[w] = "CORRUPTED" /\ rxCount'[a] = rxCount[a] /\ rxPdu'[w] = rxPdu[w]
          BY <1>1, <2>2, <4>1, <4>8, LoopEffect
        <5>2. txPdu[w] = rxPdu[w]
          BY <4>2 DEF Awaits
        <5> QED
          BY <4>3, <4>4, <4>5, <4>6, <4>8, <5>1, <5>2, Constants
      <4> QED
        BY <4>7, <4>8
    <3>2. CASE w \notin Evaluated
      <4>1. rxStatus'[w] = rxStatus[w] /\ rxCount'[a] = rxCount[a]
        BY <1>1, <2>2, <3>2, LoopEffect
      <4>2. rxStatus[w] = "CORRUPTED" => rxPdu'[w] = rxPdu[w]
        BY <1>1, <2>2, <3>2, <4>1, LoopEffect
      <4>3. \A f \in fbSent' : f.unit # w
        BY <1>5, <3>2
      <4> QED
        BY <2>2, <4>1, <4>2, <4>3 DEF IInv, CountedAlike
    <3> QED
      BY <3>1, <3>2
  <2> QED
    BY <2>1, <2>2
<1> QED
  BY <1>6, <1>7, <1>8, <1>9, <1>10, <1>11, <1>12, <1>13, <1>14, <1>15, <1>16 DEF IInv

\* A PDU reaches the eNodeB: its unit is empty, or holds the corrupted copy of
\* the same PDU, or the eNodeB has just aborted all its units.
LEMMA DataArrivesStep ==
  ASSUME IInv, DataArrives
  PROVE  IInv'
<1>1. PICK d \in dataAir, ok \in BOOLEAN : RxInsertPdu(d, ok) /\ dataAir' = dataAir \ {d}
  BY DEF DataArrives
<1>2. /\ LoopsDone /\ ueStep = "air" /\ enbStep = "air" /\ switching = {}
      /\ rxBuffer' = TRUE /\ dataAir' = {}
      /\ UNCHANGED <<ueVars, harqStatus, enbStep, dataSent, fbSent, grantSent, fbAir,
                     grantAir, switching, delivered>>
  BY <1>1 DEF DataArrives, LoopsDone, IInv, TypeOK, StepsInOrder, OneAtATime, AtMostOne
<1>3. PICK a \in Acid : a = d.unit[1]
  BY FirstUnits DEF IInv, TypeOK, Data
<1> DEFINE u == First(a)
<1>4. /\ d.unit = u /\ u \in Unit /\ u[1] = a /\ d \in Data /\ d.ndi \in BOOLEAN
      /\ d.pdu \in Pdus \cup {NoPdu} /\ Age(a) = 1
  BY <1>3, FirstUnits DEF IInv, TypeOK, Data, OneCodeword, AgesTell
<1>5. Slot' = Slot
  BY <1>2 DEF Slot, ueVars
<1>a. \A b : Age(b)' = Age(b)
  BY <1>5, AgeStays
<1>b. \A b \in Acid : First(b) \in Unit /\ First(b)[1] = b /\ (First(b) = u <=> b = a)
  BY FirstUnits
<1>c. \A v, q : Awaits(v, q)' <=> Awaits(v, q)
  BY <1>2 DEF Awaits, ueVars, txVars
<1> USE DEF ueVars, txVars
<1>6. CASE resetHarq
  <2>1. UNCHANGED <<rxVars, thrown>>
    BY <1>1, <1>6 DEF RxInsertPdu
  <2>2. dropped[a] /\ txStatus[u] = "EMPTY"
    <3>1. a # Slot
      BY <1>4, Ages DEF IInv
    <3> QED
      BY <1>2, <1>6, <3>1 DEF IInv, SwitchForgets, DroppedEmpty
  <2> USE DEF rxVars
  <2>3. TypeOK' /\ NoError' /\ StepsInOrder' /\ IdleBeforeFirstTx' /\ OneCodeword'
    BY <1>2, <2>1 DEF IInv, TypeOK, TxTypeOK, RxTypeOK, NoError, StepsInOrder, IdleBeforeFirstTx, OneCodeword
  <2>4. SelectionMatches' /\ CountsMatch' /\ DroppedEmpty' /\ UnitContents' /\ OneAtATime'
    BY <1>2, <2>1 DEF IInv, SelectionMatches, CountsMatch, DroppedEmpty, UnitContents, OneAtATime, AtMostOne
  <2>5. AgesTell'
    BY <1>2, <1>a, <2>1 DEF IInv, AgesTell, LoopsDone
  <2>6. AnswersAwaited'
    BY <1>2, <1>c, <2>1 DEF IInv, AnswersAwaited
  <2>7. \A b \in Acid : HasData(First(b)) => HasData(First(b))' \/ b = a
    BY <1>1, <1>2, <1>4, <1>b DEF HasData, IInv, OneAtATime, AtMostOne
  <2>8. WaitingAnswered'
    BY <1>2, <2>1, <2>2, <2>7 DEF IInv, WaitingAnswered, HasFeedback
  <2>9. SwitchForgets'
    BY <1>2, <1>5, <2>1 DEF IInv, SwitchForgets
  <2>10. CountedAlike'
    <3>1. \A b \in Acid : HasData(First(b))' => HasData(First(b))
      BY <1>2 DEF HasData
    <3>2. \A b \in Acid : rxStatus[First(b)] = "EMPTY"
      BY <1>6 DEF IInv, SwitchForgets
    <3> QED
      BY <1>2, <2>1, <3>1, <3>2 DEF IInv, CountedAlike
  <2> QED
    BY <2>3, <2>4, <2>5, <2>6, <2>8, <2>9, <2>10 DEF IInv
<1>7. CASE ~resetHarq
  <2>1. Awaits(u, d.pdu) /\ d.ndi = (txCount[u] = 1)
    BY <1>2, <1>4, <1>7 DEF IInv, AnswersAwaited
  <2>2. ~dropped[a] /\ txStatus[u] = "WAITING" /\ txPdu[u] = d.pdu
        /\ txCount[u] \in 1 .. MaxHarqRtx + 1
    BY <1>4, <2>1 DEF Awaits, IInv, UnitContents
  <2>3. rxStatus[u] # "EVALUATING"
    <3>1. rxAge[u] \in Nat
      BY <1>4, Constants DEF IInv, TypeOK, RxTypeOK
    <3> QED
      BY <1>4, <3>1 DEF IInv, AgesTell
  <2>4. HasData(u) /\ \A f \in fbSent \cup fbAir : f.unit # u
    BY <1>4, Constants DEF HasData, IInv, AgesTell
  <2>5. rxStatus[u] \in {"EMPTY", "CORRUPTED"}
    BY <1>4, <2>3 DEF IInv, TypeOK, RxTypeOK
  <2>6. ~RxPurges => rxCount[a] = txCount[u] - 1
    BY <1>2, <2>2, <2>4, <2>5 DEF IInv, CountedAlike
  <2>7. rxStatus[u] = "CORRUPTED" => ~d.ndi
    <3>1. rxStatus[u] = "CORRUPTED" => txCount[u] # 1
      BY <1>2, <1>4, <2>4, Constants DEF IInv, CountedAlike
    <3> QED
      BY <2>1, <3>1
  <2>8. /\ rxStatus' = [rxStatus EXCEPT ![u] = "EVALUATING"]
        /\ rxPdu' = [rxPdu EXCEPT ![u] = d.pdu]
        /\ rxResult' = [rxResult EXCEPT ![u] = ok]
        /\ rxAge' = [rxAge EXCEPT ![u] = 0]
        /\ rxCount' = [rxCount EXCEPT ![a] = (rxCount[a] + 1) % CountModulus]
        /\ UNCHANGED <<resetHarq, thrown>>
    <3>1. /\ ~(resetHarq) /\ ~(d.ndi /\ rxStatus[u] # "EMPTY")
          /\ ~(~d.ndi /\ rxStatus[u] = "EVALUATING")
      BY <1>7, <2>3, <2>5, <2>7
    <3> QED
      BY <1>1, <1>4, <3>1 DEF RxInsertPdu
  <2>9. (rxCount[a] + 1) % CountModulus \in 0 .. CountModulus - 1
    BY DEF IInv, TypeOK, RxTypeOK, CountModulus
  <2>10. ~RxPurges => (rxCount[a] + 1) % CountModulus = txCount[u]
    BY <2>2, <2>6, Constants DEF CountModulus
  <2> HIDE DEF u
  <2>11. TypeOK'
    BY <1>2, <1>4, <2>8, <2>9, Constants DEF IInv, TypeOK, TxTypeOK, RxTypeOK
  <2>12. NoError' /\ StepsInOrder' /\ OneAtATime'
    BY <1>2, <2>8 DEF IInv, NoError, StepsInOrder, OneAtATime, AtMostOne
  <2>13. IdleBeforeFirstTx'
    BY <1>1, <1>2 DEF IInv, IdleBeforeFirstTx
  <2>14. OneCodeword'
    BY <1>2, <1>4, <2>8, FirstUnits DEF IInv, OneCodeword, TypeOK, RxTypeOK, u
  <2>15. SelectionMatches' /\ CountsMatch' /\ DroppedEmpty' /\ UnitContents'
    BY <1>2, <2>8 DEF IInv, SelectionMatches, CountsMatch, DroppedEmpty, UnitContents
  <2>s. \A b \in Acid :
          /\ rxStatus'[First(b)] = (IF b = a THEN "EVALUATING" ELSE rxStatus[First(b)])
          /\ rxPdu'[First(b)] = (IF b = a THEN d.pdu ELSE rxPdu[First(b)])
          /\ rxAge'[First(b)] = (IF b = a THEN 0 ELSE rxAge[First(b)])
          /\ rxCount'[b] = (IF b = a THEN (rxCount[a] + 1) % CountModulus ELSE rxCount[b])
    BY <1>4, <1>b, <2>8 DEF IInv, TypeOK, RxTypeOK
  <2>16. AgesTell'
    BY <1>2, <1>4, <1>a, <2>s, Constants DEF IInv, AgesTell, LoopsDone
  <2>17. AnswersAwaited'
    <3>1. Awaits(First(a), d.pdu)
      BY <2>1 DEF u
    <3>2. \A b \in Acid : rxStatus'[First(b)] = "EVALUATING" =>
            \/ Awaits(First(b), rxPdu'[First(b)])
            \/ dropped[b] /\ "enb" \in switching
      BY <2>s, <3>1 DEF IInv, AnswersAwaited
    <3> QED
      BY <1>2, <1>c, <2>8, <3>2 DEF IInv, AnswersAwaited
  <2>18. \A b \in Acid : b # a => (HasData(First(b)) <=> HasData(First(b))')
    BY <1>1, <1>2, <1>4, <1>b DEF HasData, IInv, OneAtATime, AtMostOne
  <2>19. WaitingAnswered'
    BY <1>2, <2>s, <2>18 DEF IInv, WaitingAnswered, HasFeedback
  <2>20. SwitchForgets'
    BY <1>2, <1>7, <2>8 DEF SwitchForgets
  <2>21. CountedAlike'
    <3>1. CASE RxPurges
      BY <2>s, <3>1 DEF IInv, CountedAlike
    <3>2. CASE ~RxPurges
      <4> SUFFICES ASSUME NEW b \in Acid
                   PROVE  LET w == First(b) IN
                     /\ rxStatus'[w] = "EMPTY" =>
                          /\ rxCount'[b] = 0
                          /\ txStatus[w] # "BUFFERED"
                          /\ txStatus[w] = "SELECTED" => txCount[w] = 0
                          /\ HasData(w)' /\ ~dropped[b] => txCount[w] = 1
                          /\ \A f \in fbSent \cup fbAir :
                               f.unit = w /\ ~dropped[b] => f.ack \/ txCount[w] = MaxHarqRtx + 1
                     /\ rxStatus'[w] = "EVALUATING" => rxCount'[b] = txCount[w]
                     /\ rxStatus'[w] = "CORRUPTED" =>
                          /\ txStatus[w] # "EMPTY" /\ txPdu[w] = rxPdu'[w]
                          /\ rxCount'[b] \in 1 .. MaxHarqRtx
                          /\ rxCount'[b] = txCount[w] - (IF HasData(w)' THEN 1 ELSE 0)
                          /\ \A f \in fbSent \cup fbAir : f.unit = w => ~f.ack
        BY <1>2, <3>2 DEF CountedAlike
      <4>1. CASE b = a
        BY <2>s, <2>10, <3>2, <4>1 DEF u
      <4>2. CASE b # a
        BY <1>2, <2>s, <2>18, <3>2, <4>2 DEF IInv, CountedAlike
      <4> QED
        BY <4>1, <4>2
    <3> QED
      BY <3>1, <3>2
  <2> QED
    BY <2>11, <2>12, <2>13, <2>14, <2>15, <2>16, <2>17, <2>19, <2>20, <2>21 DEF IInv
<1> QED
  BY <1>6, <1>7

\* macHandleGrant changes nothing the invariant speaks of.
LEMMA GrantArrivesStep ==
  ASSUME IInv, GrantArrives
  PROVE  IInv'
<1> USE DEF GrantArrives, txVars, enbVars, rxVars
<1>0. Slot' = Slot
  BY DEF Slot
<1>a. \A a : Age(a)' = Age(a)
  BY <1>0, AgeStays
<1>1. TypeOK'
  BY DEF IInv, TypeOK, TxTypeOK, RxTypeOK, Grant
<1>2. NoError' /\ StepsInOrder' /\ IdleBeforeFirstTx' /\ OneCodeword' /\ SelectionMatches'
  BY DEF IInv, NoError, StepsInOrder, IdleBeforeFirstTx, OneCodeword, SelectionMatches
<1>3. CountsMatch' /\ OneAtATime' /\ DroppedEmpty' /\ UnitContents'
  BY DEF IInv, CountsMatch, OneAtATime, DroppedEmpty, UnitContents
<1>4. AgesTell'
  BY <1>a DEF IInv, AgesTell, LoopsDone
<1>5. AnswersAwaited' /\ WaitingAnswered'
  BY DEF IInv, AnswersAwaited, Awaits, WaitingAnswered, HasData, HasFeedback
<1>6. SwitchForgets' /\ CountedAlike'
  BY <1>0 DEF IInv, SwitchForgets, CountedAlike, HasData
<1> QED
  BY <1>1, <1>2, <1>3, <1>4, <1>5, <1>6 DEF IInv

\* A handover leaves nothing of the old link.
LEMMA HandOverStep ==
  ASSUME IInv, HandOver
  PROVE  IInv'
<1> USE DEF HandOver
<1>1. /\ switching = {} /\ ueStep = "air" /\ enbStep = "air"
      /\ dataAir = {} /\ fbAir = {} /\ Slot' = Slot
  BY DEF LoopsDone, AirEmpty, IInv, TypeOK, StepsInOrder, Slot
<1>2. TypeOK'
  <2>1. TxTypeOK'
    BY Constants DEF TxTypeOK
  <2>2. RxTypeOK'
    <3>1. 0 \in 0 .. FbInterval /\ 0 \in 0 .. CountModulus - 1
      BY Constants DEF CountModulus
    <3>2. /\ rxStatus' = [u \in Unit |-> "EMPTY"]
          /\ rxPdu' = [u \in Unit |-> NoPdu]
          /\ rxResult' = [u \in Unit |-> FALSE]
          /\ rxAge' = [u \in Unit |-> 0]
          /\ rxCount' = [a \in Acid |-> 0]
          /\ resetHarq' = FALSE
      OBVIOUS
    <3> QED
      BY <3>1, <3>2 DEF RxTypeOK
  <2> QED
    BY <2>1, <2>2 DEF IInv, TypeOK, Grant
<1>3. NoError' /\ StepsInOrder' /\ OneAtATime'
  BY <1>1 DEF IInv, NoError, StepsInOrder, OneAtATime, AtMostOne
<1>4. IdleBeforeFirstTx' /\ OneCodeword' /\ DroppedEmpty' /\ UnitContents'
  BY <1>1, FirstUnits, Constants DEF IInv, IdleBeforeFirstTx, OneCodeword, DroppedEmpty, UnitContents
<1>5. SelectionMatches' /\ CountsMatch'
  BY FirstUnits, Constants DEF SelectionMatches, CountsMatch, HarqNone, Acid
<1>6. AgesTell' /\ AnswersAwaited' /\ WaitingAnswered'
  BY <1>1, FirstUnits DEF AgesTell, AnswersAwaited, WaitingAnswered
<1>7. SwitchForgets' /\ CountedAlike'
  BY <1>1, FirstUnits DEF SwitchForgets, CountedAlike, HasData
<1> QED
  BY <1>2, <1>3, <1>4, <1>5, <1>6, <1>7 DEF IInv

\* Feedback reaches the UE: the process was dropped, or its unit waits for it.
LEMMA FeedbackArrivesStep ==
  ASSUME IInv, FeedbackArrives
  PROVE  IInv'
<1>1. PICK f \in fbAir : TxReceiveFeedback(f) /\ fbAir' = fbAir \ {f}
  BY DEF FeedbackArrives
<1>2. /\ LoopsDone /\ ueStep = "air" /\ enbStep = "air" /\ switching = {}
      /\ fbAir' = {}
      /\ UNCHANGED <<currentHarq, firstTx, schedulingGrant, ueStep, enbVars, dataSent,
                     fbSent, grantSent, dataAir, grantAir, switching, delivered>>
  BY <1>1 DEF FeedbackArrives, LoopsDone, IInv, TypeOK, StepsInOrder, OneAtATime, AtMostOne
<1>3. PICK a \in Acid : a = f.unit[1]
  BY FirstUnits DEF IInv, TypeOK, Feedback
<1> DEFINE u == First(a)
<1>4. /\ f.unit = u /\ u \in Unit /\ u[1] = a /\ f \in Feedback /\ f.ack \in BOOLEAN
      /\ Age(a) = FbInterval + 2
      /\ \A g \in fbAir : g = f
  BY <1>3, FirstUnits DEF IInv, TypeOK, Feedback, OneCodeword, AgesTell, OneAtATime, AtMostOne
<1>5. Slot' = Slot
  BY <1>2 DEF Slot
<1>a. \A b : Age(b)' = Age(b)
  BY <1>5, AgeStays
<1>b. \A b \in Acid : First(b) \in Unit /\ First(b)[1] = b /\ (First(b) = u <=> b = a)
  BY FirstUnits
<1>c. \A b \in Acid : HasData(First(b))' <=> HasData(First(b))
  BY <1>2 DEF HasData
<1>d. \A b \in Acid : HasFeedback(First(b)) /\ b # a => HasFeedback(First(b))'
  BY <1>2, <1>4, <1>b DEF HasFeedback
<1> USE DEF enbVars, rxVars
<1>6. AgesTell' /\ OneAtATime'
  BY <1>2, <1>a DEF IInv, AgesTell, LoopsDone, OneAtATime, AtMostOne
<1>7. CASE dropped[a]
  <2>1. UNCHANGED <<txVars, thrown>> /\ txStatus[u] = "EMPTY"
    BY <1>1, <1>3, <1>7 DEF TxReceiveFeedback, IInv, DroppedEmpty
  <2> USE DEF txVars
  <2>2. TypeOK' /\ NoError' /\ StepsInOrder' /\ IdleBeforeFirstTx' /\ OneCodeword'
    BY <1>2, <2>1 DEF IInv, TypeOK, TxTypeOK, RxTypeOK, NoError, StepsInOrder, IdleBeforeFirstTx, OneCodeword
  <2>3. SelectionMatches' /\ CountsMatch' /\ DroppedEmpty' /\ UnitContents'
    BY <1>2, <2>1 DEF IInv, SelectionMatches, CountsMatch, DroppedEmpty, UnitContents
  <2>4. AnswersAwaited'
    BY <1>2, <2>1 DEF IInv, AnswersAwaited, Awaits
  <2>5. WaitingAnswered'
    BY <1>2, <1>c, <1>d, <2>1 DEF IInv, WaitingAnswered
  <2>6. SwitchForgets'
    BY <1>2, <1>5, <2>1 DEF IInv, SwitchForgets
  <2>7. CountedAlike'
    BY <1>2, <1>c, <2>1 DEF IInv, CountedAlike
  <2> QED
    BY <1>6, <2>2, <2>3, <2>4, <2>5, <2>6, <2>7 DEF IInv
<1>8. CASE ~dropped[a]
  <2>1. txStatus[u] = "WAITING" /\ txPdu[u] = f.pdu /\ txCount[u] \in 1 .. MaxHarqRtx + 1
    BY <1>4, <1>8 DEF IInv, AnswersAwaited, Awaits, UnitContents
  <2>2. ~resetHarq
    <3>1. a # Slot
      BY <1>4, Ages, Constants DEF IInv
    <3> QED
      BY <1>2, <1>8, <3>1 DEF IInv, SwitchForgets
  <2>3. /\ \A m \in dataSent \cup dataAir \cup fbSent : m.unit # u
        /\ rxStatus[u] # "EVALUATING"
    <3>1. rxAge[u] \in Nat
      BY <1>4, Constants DEF IInv, TypeOK, RxTypeOK
    <3> QED
      BY <1>2, <1>4, <3>1, Constants DEF IInv, AgesTell
  <2>4. ~HasData(u) /\ ~HasFeedback(u)'
    BY <1>2, <2>3 DEF HasData, HasFeedback
  <2> DEFINE freed == f.ack \/ txCount[u] = MaxHarqRtx + 1
  <2>5. /\ txStatus' = [txStatus EXCEPT ![u] = IF freed THEN "EMPTY" ELSE "BUFFERED"]
        /\ txPdu' = IF freed THEN [txPdu EXCEPT ![u] = NoPdu] ELSE txPdu
        /\ txCount' = IF freed THEN [txCount EXCEPT ![u] = 0] ELSE txCount
        /\ numEmptyUnits' = IF freed THEN [numEmptyUnits EXCEPT ![a] = @ + 1] ELSE numEmptyUnits
        /\ UNCHANGED <<numSelected, dropped, selectedAcid, thrown>>
    BY <1>1, <1>3, <1>4, <1>8, <2>1 DEF TxReceiveFeedback, TxFreesUnit
  <2>s. \A b \in Acid :
          /\ txStatus'[First(b)] = IF b = a THEN IF freed THEN "EMPTY" ELSE "BUFFERED"
                                   ELSE txStatus[First(b)]
          /\ txCount'[First(b)] = IF b = a /\ freed THEN 0 ELSE txCount[First(b)]
          /\ txPdu'[First(b)] = IF b = a /\ freed THEN NoPdu ELSE txPdu[First(b)]
          /\ numEmptyUnits'[b] = IF b = a /\ freed THEN numEmptyUnits[b] + 1 ELSE numEmptyUnits[b]
    BY <1>4, <1>b, <2>5 DEF IInv, TypeOK, TxTypeOK
  <2>t. \A v \in Unit : \A q : v # u => (Awaits(v, q)' <=> Awaits(v, q)) /\ txCount'[v] = txCount[v]
    BY <1>4, <2>5 DEF Awaits, IInv, TypeOK, TxTypeOK
  <2>u. \A m \in dataSent \cup dataAir \cup fbSent : m.unit \in Unit
    BY DEF IInv, TypeOK, Data, Feedback
  <2> HIDE DEF u, freed
  <2>6. TypeOK'
    <3>1. TxTypeOK'
      BY <1>4, <2>5, Constants DEF IInv, TypeOK, TxTypeOK
    <3> QED
      BY <1>2, <2>5, <3>1 DEF IInv, TypeOK, RxTypeOK
  <2>7. NoError' /\ StepsInOrder'
    BY <1>2, <2>5 DEF IInv, NoError, StepsInOrder
  <2>8. IdleBeforeFirstTx'
    BY <1>1, <1>2 DEF IInv, IdleBeforeFirstTx
  <2>9. OneCodeword'
    BY <1>2, <2>5, FirstUnits DEF IInv, OneCodeword, TypeOK, TxTypeOK, u
  <2>10. SelectionMatches'
    BY <1>2, <2>1, <2>5, <2>s DEF IInv, SelectionMatches, u
  <2>11. CountsMatch'
    BY <2>1, <2>5, <2>s, Constants DEF IInv, CountsMatch, u
  <2>12. DroppedEmpty'
    BY <1>8, <2>5, <2>s DEF IInv, DroppedEmpty
  <2>13. UnitContents'
    BY <2>1, <2>s, Constants DEF IInv, UnitContents, freed, u
  <2>14. AnswersAwaited'
    <3>1. \A m \in dataSent \cup dataAir \cup fbSent :
            m.unit \in Unit /\ m.unit # u
      BY <2>3, <2>u
    <3>2. \A b \in Acid : rxStatus[First(b)] = "EVALUATING" =>
            \/ Awaits(First(b), rxPdu[First(b)])'
            \/ dropped[b] /\ "enb" \in switching
      <4> SUFFICES ASSUME NEW b \in Acid, rxStatus[First(b)] = "EVALUATING",
                          ~(dropped[b] /\ "enb" \in switching)
                   PROVE  Awaits(First(b), rxPdu[First(b)])'
        OBVIOUS
      <4>1. First(b) # u /\ First(b) \in Unit
        BY <1>b, <2>3
      <4>2. rxPdu' = rxPdu
        BY <1>2
      <4>3. Awaits(First(b), rxPdu[First(b)])
        BY DEF IInv, AnswersAwaited
      <4> QED
        BY <2>t, <4>1, <4>2, <4>3 DEF Awaits
    <3> QED
      BY <1>2, <2>5, <2>t, <3>1, <3>2 DEF IInv, AnswersAwaited, Awaits
  <2>15. WaitingAnswered'
    BY <1>2, <1>c, <1>d, <2>s DEF IInv, WaitingAnswered
  <2>16. SwitchForgets'
    BY <1>2, <2>2 DEF SwitchForgets
  <2>17. CountedAlike'
    <3>1. CASE RxPurges
      BY <1>2, <3>1 DEF IInv, CountedAlike
    <3>2. CASE ~RxPurges
      <4> SUFFICES ASSUME NEW b \in Acid
                   PROVE  LET w == First(b) IN
                     /\ rxStatus[w] = "EMPTY" =>
                          /\ rxCount[b] = 0
                          /\ txStatus'[w] # "BUFFERED"
                          /\ txStatus'[w] = "SELECTED" => txCount'[w] = 0
                          /\ HasData(w)' /\ ~dropped[b] => txCount'[w] = 1
                          /\ \A g \in fbSent :
                               g.unit = w /\ ~dropped[b] => g.ack \/ txCount'[w] = MaxHarqRtx + 1
                     /\ rxStatus[w] = "EVALUATING" => rxCount[b] = txCount'[w]
                     /\ rxStatus[w] = "CORRUPTED" =>
                          /\ txStatus'[w] # "EMPTY" /\ txPdu'[w] = rxPdu[w]
                          /\ rxCount[b] \in 1 .. MaxHarqRtx
                          /\ rxCount[b] = txCount'[w] - (IF HasData(w)' THEN 1 ELSE 0)
                          /\ \A g \in fbSent : g.unit = w => ~g.ack
        BY <1>2, <2>5, <3>2 DEF CountedAlike
      <4>1. CASE b = a
        <5>1. rxStatus[u] = "EMPTY" => rxCount[a] = 0 /\ freed
          BY <1>2, <1>4, <1>8, <3>2 DEF IInv, CountedAlike, freed, u
        <5>2. rxStatus[u] = "CORRUPTED" =>
                /\ ~freed /\ txPdu[u] = rxPdu[u] /\ rxCount[a] \in 1 .. MaxHarqRtx
                /\ rxCount[a] = txCount[u]
          BY <1>2, <1>4, <2>1, <2>4, <3>2, Constants DEF IInv, CountedAlike, freed, u
        <5>3. ~HasData(First(b))'
          BY <1>c, <2>4, <4>1 DEF u
        <5>4. \A g \in fbSent : g.unit # First(b)
          BY <2>3, <4>1 DEF u
        <5> QED
          BY <2>1, <2>3, <2>s, <4>1, <5>1, <5>2, <5>3, <5>4 DEF u
      <4>2. CASE b # a
        BY <1>2, <1>c, <2>s, <3>2, <4>2 DEF IInv, CountedAlike
      <4> QED
        BY <4>1, <4>2
    <3> QED
      BY <3>1, <3>2
  <2> QED
    BY <1>6, <2>6, <2>7, <2>8, <2>9, <2>10, <2>11, <2>12, <2>13, <2>14, <2>15, <2>16, <2>17 DEF IInv
<1> QED
  BY <1>7, <1>8

\* A new TTI: every age grows, what was sent is now in the air, and the next
\* mode switch reaches both ends or none.
LEMMA NextTtiStep ==
  ASSUME AgreedSwitches, IInv, NextTti
  PROVE  IInv'
<1>1. /\ ueStep = "air" /\ enbStep = "air" /\ ueStep' = "tick" /\ enbStep' = "tick"
      /\ dataAir = {} /\ fbAir = {}
      /\ dataAir' = dataSent /\ fbAir' = fbSent /\ grantAir' = grantSent
      /\ dataSent' = {} /\ fbSent' = {} /\ grantSent' = NoGrant
      /\ delivered' = delivered \ FreshPdus
      /\ RxNextTti
      /\ UNCHANGED <<txVars, currentHarq, firstTx, schedulingGrant, harqStatus, rxBuffer>>
  BY DEF NextTti, LoopsDone, AirEmpty
<1>2. switching = {} /\ switching' \in {{}, {"ue", "enb"}} /\ resetHarq' = FALSE
      /\ UNCHANGED <<rxStatus, rxPdu, rxResult, rxCount, thrown>>
  BY <1>1 DEF NextTti, AgreedSwitches, RxNextTti, IInv, TypeOK, StepsInOrder
<1>3. Slot' = NextAcid(Slot)
  <2>1. currentHarq \in Acid
    BY DEF IInv, TypeOK
  <2> QED
    BY <1>1, <2>1, Constants DEF Slot, NextAcid, PrevAcid, Acid
<1>a. \A a \in Acid : Age(a) < NumProc - 1 => Age(a)' = Age(a) + 1
  BY <1>3, AgeGrows DEF IInv
<1> USE DEF txVars
<1>4. TypeOK'
  <2>1. RxTypeOK'
    <3>1. rxAge \in [Unit -> 0 .. FbInterval]
      BY DEF IInv, TypeOK, RxTypeOK
    <3>2. \A u \in Unit : rxAge[u] < FbInterval => rxAge[u] + 1 \in 0 .. FbInterval
      BY <3>1, Constants
    <3>3. rxAge' \in [Unit -> 0 .. FbInterval]
      BY <1>1, <3>1, <3>2 DEF RxNextTti
    <3> QED
      BY <1>2, <3>3 DEF IInv, TypeOK, RxTypeOK
  <2> QED
    BY <1>1, <1>2, <2>1 DEF IInv, TypeOK, TxTypeOK, Grant
<1>5. NoError' /\ StepsInOrder' /\ OneAtATime'
  BY <1>1, <1>2 DEF IInv, NoError, StepsInOrder, OneAtATime, AtMostOne
<1>6. IdleBeforeFirstTx' /\ OneCodeword' /\ DroppedEmpty' /\ UnitContents'
  BY <1>1, <1>2 DEF IInv, IdleBeforeFirstTx, OneCodeword, DroppedEmpty, UnitContents
<1>7. SelectionMatches' /\ CountsMatch'
  BY <1>1 DEF IInv, SelectionMatches, CountsMatch
<1>8. AgesTell'
  <2>1. \A d \in dataSent : Age(d.unit[1])' = 1
    <3>1. \A d \in dataSent : Age(d.unit[1]) = 0 /\ d.unit[1] \in Acid
      BY FirstUnits DEF IInv, AgesTell, TypeOK, Data
    <3> QED
      BY <1>a, <3>1, Constants
  <2>2. \A f \in fbSent : Age(f.unit[1])' = FbInterval + 2
    <3>1. \A f \in fbSent : Age(f.unit[1]) = FbInterval + 1 /\ f.unit[1] \in Acid
      BY FirstUnits DEF IInv, AgesTell, TypeOK, Feedback
    <3> QED
      BY <1>a, <3>1, Constants
  <2>3. \A a \in Acid : rxStatus'[First(a)] = "EVALUATING" =>
          Age(a)' = rxAge'[First(a)] + 1 /\ rxAge'[First(a)] # 0
    <3> SUFFICES ASSUME NEW a \in Acid, rxStatus[First(a)] = "EVALUATING"
                 PROVE  Age(a)' = rxAge'[First(a)] + 1 /\ rxAge'[First(a)] # 0
      BY <1>2
    <3>1. /\ First(a) \in Unit /\ rxAge[First(a)] \in Nat
          /\ Age(a) = rxAge[First(a)] + 1 /\ rxAge[First(a)] < FbInterval
      BY <1>1, FirstUnits, Constants DEF IInv, AgesTell, TypeOK, RxTypeOK
    <3>2. rxAge'[First(a)] = rxAge[First(a)] + 1
      BY <1>1, <3>1 DEF RxNextTti
    <3> QED
      BY <1>a, <3>1, <3>2, Constants
  <2> QED
    BY <1>1, <2>1, <2>2, <2>3 DEF AgesTell
<1>9. \A v, q : Awaits(v, q)' <=> Awaits(v, q)
  BY <1>1 DEF Awaits
<1>10. AnswersAwaited'
  <2>1. \A a \in Acid : rxStatus'[First(a)] = "EVALUATING" => Awaits(First(a), rxPdu'[First(a)])
    BY <1>2 DEF IInv, AnswersAwaited
  <2> QED
    BY <1>1, <1>9, <2>1 DEF IInv, AnswersAwaited, Awaits
<1>11. \A a \in Acid : /\ HasData(First(a))' <=> HasData(First(a))
                       /\ HasFeedback(First(a))' <=> HasFeedback(First(a))
  BY <1>1 DEF HasData, HasFeedback
<1>12. WaitingAnswered'
  BY <1>1, <1>2, <1>11 DEF IInv, WaitingAnswered
<1>13. SwitchForgets'
  BY <1>2 DEF SwitchForgets
<1>14. CountedAlike'
  BY <1>1, <1>2, <1>11 DEF IInv, CountedAlike
<1> QED
  BY <1>4, <1>5, <1>6, <1>7, <1>8, <1>10, <1>12, <1>13, <1>14 DEF IInv

\* The invariant holds at the start.
LEMMA InitInv == Init => IInv
<1> SUFFICES ASSUME Init PROVE IInv
  OBVIOUS
<1> USE DEF Init, TxInit, RxInit
<1>1. TypeOK
  <2>1. TxTypeOK
    BY Constants DEF TxTypeOK
  <2>2. RxTypeOK
    <3>1. 0 \in 0 .. FbInterval /\ 0 \in 0 .. CountModulus - 1
      BY Constants DEF CountModulus
    <3> QED
      BY <3>1 DEF RxTypeOK
  <2>3. 0 \in Acid
    BY Constants DEF Acid
  <2> QED
    BY <2>1, <2>2, <2>3 DEF TypeOK, Grant
<1>2. NoError /\ StepsInOrder /\ OneAtATime
  BY DEF NoError, StepsInOrder, OneAtATime, AtMostOne
<1>3. IdleBeforeFirstTx /\ OneCodeword /\ DroppedEmpty /\ UnitContents
  BY FirstUnits, Constants DEF IdleBeforeFirstTx, OneCodeword, DroppedEmpty, UnitContents
<1>4. SelectionMatches /\ CountsMatch
  BY FirstUnits, Constants DEF SelectionMatches, CountsMatch, HarqNone, Acid
<1>5. AgesTell /\ AnswersAwaited /\ WaitingAnswered
  BY FirstUnits DEF AgesTell, AnswersAwaited, WaitingAnswered
<1>6. SwitchForgets /\ CountedAlike
  BY FirstUnits DEF SwitchForgets, CountedAlike, HasData
<1> QED
  BY <1>1, <1>2, <1>3, <1>4, <1>5, <1>6 DEF IInv

\* Nothing of the invariant depends on anything but the variables.
LEMMA StutterStep ==
  ASSUME IInv, UNCHANGED vars
  PROVE  IInv'
<1> USE DEF vars, ueVars, enbVars, airVars, txVars, rxVars
<1>1. Slot' = Slot
  BY DEF Slot
<1>2. \A a : Age(a)' = Age(a)
  BY <1>1, AgeStays
<1>3. TypeOK' /\ NoError' /\ StepsInOrder'
  BY DEF IInv, TypeOK, TxTypeOK, RxTypeOK, NoError, StepsInOrder
<1>4. IdleBeforeFirstTx' /\ OneCodeword' /\ SelectionMatches' /\ CountsMatch'
  BY DEF IInv, IdleBeforeFirstTx, OneCodeword, SelectionMatches, CountsMatch
<1>5. OneAtATime' /\ DroppedEmpty' /\ UnitContents'
  BY DEF IInv, OneAtATime, DroppedEmpty, UnitContents
<1>6. AgesTell'
  BY <1>2 DEF IInv, AgesTell, LoopsDone
<1>7. AnswersAwaited' /\ WaitingAnswered'
  BY DEF IInv, AnswersAwaited, Awaits, WaitingAnswered, HasData, HasFeedback
<1>8. SwitchForgets' /\ CountedAlike'
  BY <1>1 DEF IInv, SwitchForgets, CountedAlike, HasData
<1> QED
  BY <1>3, <1>4, <1>5, <1>6, <1>7, <1>8 DEF IInv

\* The invariant is inductive: one step per action of Next.
LEMMA NextStep ==
  ASSUME AgreedSwitches, IInv, [Next]_vars
  PROVE  IInv'
<1>1. CASE UeModeSwitch
  BY <1>1, UeSwitchStep
<1>2. CASE UeTickNoGrant
  BY <1>2, NoGrantStep
<1>3. CASE UeTickRetransmit
  BY <1>3, RetransmitStep
<1>4. CASE UeTickRequestSdu
  BY <1>4, RequestStep
<1>5. CASE UeTickNothingToSend
  BY <1>5, NothingToSendStep
<1>6. CASE UeMakePdu
  BY <1>6, MakeStep
<1>7. CASE UeFlush
  BY <1>7, FlushStep
<1>8. CASE EnbModeSwitch
  BY <1>8, EnbSwitchStep
<1>9. CASE EnbTickRtx
  <2>1. PICK a \in RtxGrants : EnbTick(a)
    BY <1>9 DEF EnbTickRtx
  <2>2. harqStatus \in Acid \cup {HarqNone} /\ 0 \in Acid
    BY Constants DEF IInv, TypeOK, Acid
  <2>3. NextHarqStatus \in Acid \cup {HarqNone} /\ (rxBuffer => NextHarqStatus \in Acid)
    BY <2>2, NextPrev DEF NextHarqStatus
  <2>4. a \in Grant
    BY <2>1, <2>3, NextPrev DEF RtxGrants, RtxAcid, Grant
  <2> QED
    BY <2>1, <2>4, EnbTickStep
<1>10. CASE EnbTickOther
  <2>1. PICK grant \in {HarqNone, NoGrant} : EnbTick(grant)
    BY <1>10 DEF EnbTickOther
  <2>2. grant \in Grant
    BY <2>1 DEF Grant
  <2> QED
    BY <2>1, <2>2, EnbTickStep
<1>11. CASE DataArrives
  BY <1>11, DataArrivesStep
<1>12. CASE FeedbackArrives
  BY <1>12, FeedbackArrivesStep
<1>13. CASE GrantArrives
  BY <1>13, GrantArrivesStep
<1>14. CASE NextTti
  BY <1>14, NextTtiStep
<1>15. CASE HandOver
  BY <1>15, HandOverStep
<1>16. CASE UNCHANGED vars
  BY <1>16, StutterStep
<1> QED
  BY <1>1, <1>2, <1>3, <1>4, <1>5, <1>6, <1>7, <1>8, <1>9, <1>10, <1>11, <1>12,
     <1>13, <1>14, <1>15, <1>16 DEF Next

\* IInv always holds when a mode switch reaches both ends in the same TTI.
THEOREM Invariance == ASSUME AgreedSwitches PROVE Spec => []IInv
<1>1. Init => IInv
  BY InitInv
<1>2. IInv /\ [Next]_vars => IInv'
  BY NextStep
<1> QED
  BY <1>1, <1>2, PTL DEF Spec

\* Every variable of the uplink stays in its type, the 8-bit count of the
\* receiver included.
THEOREM TypeCorrect == ASSUME AgreedSwitches PROVE Spec => []TypeOK
<1>1. IInv => TypeOK
  BY DEF IInv
<1> QED
  BY <1>1, Invariance, PTL

\* No check of the two H-ARQ buffers ever fails, for any number of processes
\* that is at least the feedback delay plus three, any maxHarqRtx, any handovers
\* and with or without the purge, as long as both ends see each mode switch.
THEOREM NeverThrows == ASSUME AgreedSwitches PROVE Spec => []NoError
<1>1. IInv => NoError
  BY DEF IInv
<1> QED
  BY <1>1, Invariance, PTL

\* Feedback that arrives is ignored, its process being dropped, or meets the
\* very PDU it answers, still waiting: no process comes round before its answer.
THEOREM FeedbackFindsItsPdu == ASSUME AgreedSwitches PROVE Spec => []FeedbackIsAwaited
<1>1. IInv => FeedbackIsAwaited
  BY DEF IInv, AnswersAwaited, Awaits, FeedbackIsAwaited
<1> QED
  BY <1>1, Invariance, PTL

\* A process has as many units as there are codewords.
LEMMA UnitsOfCardinality ==
  ASSUME NEW a
  PROVE  IsFiniteSet(UnitsOf(a)) /\ Cardinality(UnitsOf(a)) = Cardinality(Codewords)
<1> DEFINE f == [c \in Codewords |-> <<a, c>>]
<1>1. f \in Injection(Codewords, UnitsOf(a))
  BY DEF Injection, IsInjective, UnitsOf
<1>2. f \in Surjection(Codewords, UnitsOf(a))
  BY DEF Surjection, UnitsOf
<1>3. ExistsBijection(Codewords, UnitsOf(a))
  BY <1>1, <1>2 DEF ExistsBijection, Bijection
<1> QED
  BY <1>3, HarqAssumption, FS_Bijection

\* With one codeword in use, at most the first unit of a process is not empty.
LEMMA EmptyUnitsCounted ==
  ASSUME IInv, NEW a \in Acid
  PROVE  Cardinality(EmptyUnits(a)) =
           Cardinality(Codewords) - (IF txStatus[First(a)] = "EMPTY" THEN 0 ELSE 1)
<1>1. \A u \in UnitsOf(a) : u \in Unit /\ u[1] = a
  BY DEF UnitsOf, Unit
<1>2. First(a) \in UnitsOf(a)
  BY Constants DEF First, UnitsOf
<1>3. \A u \in UnitsOf(a) : u # First(a) => txStatus[u] = "EMPTY"
  BY <1>1, FirstUnits DEF IInv, OneCodeword
<1>4. CASE txStatus[First(a)] = "EMPTY"
  <2>1. EmptyUnits(a) = UnitsOf(a)
    BY <1>3, <1>4 DEF EmptyUnits, UnitsIn
  <2> QED
    BY <1>4, <2>1, UnitsOfCardinality, Constants
<1>5. CASE txStatus[First(a)] # "EMPTY"
  <2>1. EmptyUnits(a) = UnitsOf(a) \ {First(a)}
    BY <1>2, <1>3, <1>5 DEF EmptyUnits, UnitsIn
  <2>2. Cardinality(UnitsOf(a) \ {First(a)}) = Cardinality(UnitsOf(a)) - 1
    BY <1>2, UnitsOfCardinality, FS_RemoveElement
  <2> QED
    BY <1>5, <2>1, <2>2, UnitsOfCardinality
<1> QED
  BY <1>4, <1>5

\* numEmptyUnits_ and numSelected_ count what they stand for, after any
\* interleaving of insertions, feedback, retransmissions and forced drops.
THEOREM CountersAreRight == ASSUME AgreedSwitches PROVE Spec => []CountersMatch
<1>1. IInv => CountersMatch
  <2> SUFFICES ASSUME IInv PROVE CountersMatch
    OBVIOUS
  <2>1. ASSUME NEW a \in Acid PROVE numEmptyUnits[a] = Cardinality(EmptyUnits(a))
    BY EmptyUnitsCounted DEF IInv, CountsMatch
  <2>2. ASSUME NEW a \in Acid PROVE numSelected[a] = Cardinality(UnitsIn(a, "SELECTED"))
    <3>1. UnitsIn(a, "SELECTED") = IF txStatus[First(a)] = "SELECTED" THEN {First(a)} ELSE {}
      BY UnitsInOne
    <3>2. Cardinality({First(a)}) = 1 /\ Cardinality({}) = 0
      BY CardinalityOne, FS_EmptySet
    <3> QED
      BY <3>1, <3>2 DEF IInv, CountsMatch
  <2>3. ASSUME NEW u \in Unit, txStatus[u] = "SELECTED" PROVE selectedAcid = u[1]
    <3>1. u = First(u[1]) /\ u[1] \in Acid
      BY <2>3, FirstUnits DEF IInv, OneCodeword
    <3> QED
      BY <2>3, <3>1 DEF IInv, SelectionMatches
  <2> QED
    BY <2>1, <2>2, <2>3 DEF CountersMatch
<1> QED
  BY <1>1, Invariance, PTL

\* A set of which every member is s has one member.
LEMMA OnlyMember ==
  ASSUME NEW S, NEW s \in S, \A x \in S : x = s
  PROVE  S = {s} /\ Cardinality(S) = 1
<1>1. S = {s}
  OBVIOUS
<1> QED
  BY <1>1, CardinalityOne

\* A waiting unit has exactly one answer coming, and it names its PDU.
THEOREM OneAnswerForEach == ASSUME AgreedSwitches PROVE Spec => []WaitingHasAnswer
<1>1. IInv => WaitingHasAnswer
  <2> SUFFICES ASSUME IInv, switching = {}, NEW u \in Unit, txStatus[u] = "WAITING"
               PROVE  NumAnswers(u) = 1 /\ AnswersTo(u) = {txPdu[u]}
    BY DEF WaitingHasAnswer
  <2>1. PICK a \in Acid : a = u[1] /\ u = First(a) /\ ~dropped[a] /\ Age(a) \in Nat
    BY FirstUnits, Ages DEF IInv, OneCodeword, DroppedEmpty
  <2>2. /\ \A d \in dataSent : d.unit = u => Age(a) = 0 /\ d.pdu = txPdu[u]
        /\ \A d \in dataAir : d.unit = u => Age(a) = 1 /\ d.pdu = txPdu[u]
        /\ \A f \in fbSent : f.unit = u => Age(a) = FbInterval + 1 /\ f.pdu = txPdu[u]
        /\ \A f \in fbAir : f.unit = u => Age(a) = FbInterval + 2 /\ f.pdu = txPdu[u]
    BY <2>1 DEF IInv, AgesTell, AnswersAwaited, Awaits
  <2>3. rxStatus[u] = "EVALUATING" =>
          /\ rxPdu[u] = txPdu[u] /\ Age(a) \in 1 .. FbInterval + 1
          /\ Age(a) = FbInterval + 1 => enbStep = "tick"
          /\ Age(a) = 1 => dataAir = {}
    <3>1. rxAge[u] \in 0 .. FbInterval /\ enbStep \in {"tick", "air"}
      BY DEF IInv, TypeOK, RxTypeOK
    <3> QED
      BY <2>1, <3>1, Constants DEF IInv, AgesTell, AnswersAwaited, Awaits
  <2>4. enbStep = "tick" => fbSent = {}
    BY DEF IInv, StepsInOrder
  <2>5. \/ HasData(u) \/ rxStatus[u] = "EVALUATING" \/ HasFeedback(u)
    BY <2>1 DEF IInv, WaitingAnswered
  <2>6. /\ \A x, y \in DataFor(u) : x = y
        /\ \A x, y \in FeedbackFor(u) : x = y
    BY <2>2, Constants DEF DataFor, FeedbackFor, IInv, OneAtATime, AtMostOne
  <2>7. /\ \A d \in DataFor(u) : d.pdu = txPdu[u]
        /\ \A f \in FeedbackFor(u) : f.pdu = txPdu[u]
    BY <2>2 DEF DataFor, FeedbackFor
  <2>8. /\ HasData(u) <=> DataFor(u) # {}
        /\ HasFeedback(u) <=> FeedbackFor(u) # {}
    BY DEF HasData, HasFeedback, DataFor, FeedbackFor
  <2>9. /\ HasData(u) => rxStatus[u] # "EVALUATING" /\ ~HasFeedback(u)
        /\ HasFeedback(u) => rxStatus[u] # "EVALUATING"
    BY <2>2, <2>3, <2>4, Constants DEF HasData, HasFeedback
  <2>10. Cardinality({}) = 0
    BY FS_EmptySet
  <2>11. {rxPdu[v] : v \in {w \in {u} : rxStatus[w] = "EVALUATING"}} =
           IF rxStatus[u] = "EVALUATING" THEN {rxPdu[u]} ELSE {}
    OBVIOUS
  <2>12. CASE HasData(u)
    <3>1. PICK d : d \in DataFor(u)
      BY <2>8, <2>12
    <3>2. DataFor(u) = {d} /\ Cardinality(DataFor(u)) = 1
      BY <2>6, <3>1, OnlyMember
    <3>3. FeedbackFor(u) = {} /\ rxStatus[u] # "EVALUATING"
      BY <2>8, <2>9, <2>12
    <3> QED
      BY <2>7, <2>10, <2>11, <3>1, <3>2, <3>3 DEF NumAnswers, AnswersTo
  <2>13. CASE HasFeedback(u)
    <3>1. PICK f : f \in FeedbackFor(u)
      BY <2>8, <2>13
    <3>2. FeedbackFor(u) = {f} /\ Cardinality(FeedbackFor(u)) = 1
      BY <2>6, <3>1, OnlyMember
    <3>3. DataFor(u) = {} /\ rxStatus[u] # "EVALUATING"
      BY <2>8, <2>9, <2>13
    <3> QED
      BY <2>7, <2>10, <2>11, <3>1, <3>2, <3>3 DEF NumAnswers, AnswersTo
  <2>14. CASE rxStatus[u] = "EVALUATING"
    <3>1. DataFor(u) = {} /\ FeedbackFor(u) = {}
      BY <2>8, <2>9, <2>14
    <3> QED
      BY <2>3, <2>10, <2>11, <2>14, <3>1 DEF NumAnswers, AnswersTo
  <2> QED
    BY <2>5, <2>12, <2>13, <2>14
<1> QED
  BY <1>1, Invariance, PTL

\* A receiver that keeps corrupted PDUs has counted the transmissions that the
\* sender counted, so that both ends give up at the same one.
THEOREM EndsAgree == ASSUME AgreedSwitches PROVE Spec => []EndsCountAlike
<1>1. IInv => EndsCountAlike
  <2> SUFFICES ASSUME IInv, ~RxPurges, switching = {}, NEW u \in Unit
               PROVE  /\ txStatus[u] = "BUFFERED" =>
                           /\ rxStatus[u] = "CORRUPTED" /\ rxPdu[u] = txPdu[u]
                           /\ rxCount[u[1]] = txCount[u]
                      /\ rxStatus[u] = "CORRUPTED" => txPdu[u] = rxPdu[u]
    BY DEF EndsCountAlike
  <2>1. CASE u[2] # 0
    BY <2>1 DEF IInv, OneCodeword
  <2>2. CASE u[2] = 0
    <3>1. PICK a \in Acid : a = u[1] /\ u = First(a)
      BY <2>2, FirstUnits
    <3>2. txStatus[u] = "BUFFERED" => rxStatus[u] # "EMPTY"
      BY <3>1 DEF IInv, CountedAlike
    <3>3. rxStatus[u] = "EVALUATING" => txStatus[u] # "BUFFERED"
      BY <3>1 DEF IInv, AnswersAwaited, Awaits
    <3>4. rxStatus[u] \in {"EMPTY", "EVALUATING", "CORRUPTED"}
      BY DEF IInv, TypeOK, RxTypeOK
    <3>5. txStatus[u] = "BUFFERED" => ~HasData(u)
      BY <3>1 DEF IInv, AnswersAwaited, Awaits, HasData, DroppedEmpty
    <3>6. rxStatus[u] = "CORRUPTED" =>
            txPdu[u] = rxPdu[u] /\ rxCount[a] = txCount[u] - (IF HasData(u) THEN 1 ELSE 0)
      BY <3>1 DEF IInv, CountedAlike
    <3>7. txCount[u] \in Nat
      BY DEF IInv, TypeOK, TxTypeOK
    <3> QED
      BY <3>1, <3>2, <3>3, <3>4, <3>5, <3>6, <3>7
  <2> QED
    BY <2>1, <2>2
<1> QED
  BY <1>1, Invariance, PTL
=============================================================================
