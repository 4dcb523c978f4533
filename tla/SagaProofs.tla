------------------------------ MODULE SagaProofs ------------------------------
(***************************************************************************)
(* Theorems about the whole system, for all players, groups, matches,      *)
(* threads, failures and bounds.                                           *)
(*                                                                         *)
(* Each step of the whole is, for each service, one of its own steps or    *)
(* none: in the company of the others a service still runs as its module   *)
(* specifies it, and what is proved of it alone holds.  That the messages  *)
(* it receives are what its module takes them for follows from what is     *)
(* proved of their sender.                                                 *)
(***************************************************************************)
EXTENDS Saga, FiniteSetTheorems, TLAPS

\* The services again, now with the theorems about them.
PP == INSTANCE PredictionProofs WITH
        Outcomes <- Predictable, Admins <- {},
        picks <- predictions, request <- submission, faults <- predictionFaults

FP == INSTANCE FixtureProofs WITH
        Locks <- LockEvents, Locked <- Contents, Admins <- FixtureAdmins,
        picks <- matchPicks, request <- resultRequest, waiting <- lockQueue,
        sent <- lockSent, dead <- lockDead, worker <- outboxJob, faults <- fixtureFaults

LP == INSTANCE LedgerBookProofs WITH
        Events <- SettledEvents, Settlements <- LineSequences,
        ManualCommands <- {}, Admins <- {}, MaxEntries <- 0,
        sent <- settledSent, ready <- settledQueue, dead <- settledDead, faults <- ledgerFaults

\* They are, word for word, the services that Saga is made of.
LEMMA SamePrediction == (P!Init => PP!Init) /\ ([P!Next]_P!vars => [PP!Next]_PP!vars)
  BY DEF P!Init, PP!Init, P!vars, PP!vars, P!Next, PP!Next, P!Lockers,
          PP!Lockers, P!NoRef, PP!NoRef, P!NoRequest, PP!NoRequest, P!NoRun,
          PP!NoRun, P!MembersOf, PP!MembersOf, P!CreateGroup, PP!CreateGroup,
          P!JoinGroup, PP!JoinGroup, P!SyncMatchRef, PP!SyncMatchRef, P!Tick,
          PP!Tick, P!SubmitPick, PP!SubmitPick, P!CheckWindow, PP!CheckWindow,
          P!RowsOf, PP!RowsOf, P!RequestedRows, PP!RequestedRows, P!ReadPick,
          PP!ReadPick, P!CommitPick, PP!CommitPick, P!RequestStep, PP!RequestStep,
          P!WindowClosed, PP!WindowClosed, P!QueryDue, PP!QueryDue, P!LockMatch,
          PP!LockMatch, P!JobStep, PP!JobStep, P!ReadGroups, PP!ReadGroups,
          P!ReadMembers, PP!ReadMembers, P!PayloadOf, PP!PayloadOf,
          P!ReadMemberPick, PP!ReadMemberPick, P!Events, PP!Events, P!Conflicts,
          PP!Conflicts, P!Locked, PP!Locked, P!PersistLocks, PP!PersistLocks,
          P!CommitLocks, PP!CommitLocks, P!Unpublished, PP!Unpublished,
          P!PublishNext, PP!PublishNext, P!MarkLocked, PP!MarkLocked, P!LockStep,
          PP!LockStep, P!Abort, PP!Abort, P!LockConflicts, PP!LockConflicts,
          P!Fault, PP!Fault, P!LockFails, PP!LockFails, P!CommitAnswerLost,
          PP!CommitAnswerLost, P!ConfirmLost, PP!ConfirmLost, P!Restart,
          PP!Restart

LEMMA SameFixture == (F!Init => FP!Init) /\ ([F!Next]_F!vars => [FP!Next]_FP!vars)
  BY DEF F!Init, FP!Init, F!vars, FP!vars, F!Next, FP!Next, F!consumer,
          FP!consumer, F!publisher, FP!publisher, F!NoRequest, FP!NoRequest,
          F!NoHandling, FP!NoHandling, F!NoWork, FP!NoWork, F!Outcomes,
          FP!Outcomes, F!OutcomeFromScores, FP!OutcomeFromScores, F!SettlePick,
          FP!SettlePick, F!Flush, FP!Flush, F!EnterResult, FP!EnterResult,
          F!Evaluate, FP!Evaluate, F!ReadPicks, FP!ReadPicks, F!CommitResult,
          FP!CommitResult, F!SettleStep, FP!SettleStep, F!PublishLock,
          FP!PublishLock, F!HandlePickLocked, FP!HandlePickLocked, F!SameKey,
          FP!SameKey, F!Upserted, FP!Upserted, F!CommitProjection,
          FP!CommitProjection, F!Ack, FP!Ack, F!ConsumerStep, FP!ConsumerStep,
          F!Unpublished, FP!Unpublished, F!SelectPending, FP!SelectPending,
          F!PublishNext, FP!PublishNext, F!MarkPublished, FP!MarkPublished,
          F!OutboxStep, FP!OutboxStep, F!Fault, FP!Fault, F!RequestFails,
          FP!RequestFails, F!ProjectionFails, FP!ProjectionFails, F!AckLost,
          FP!AckLost, F!PublishFails, FP!PublishFails, F!Restart, FP!Restart

LEMMA SameLedger == (L!Init => LP!Init) /\ ([L!Next]_L!vars => [LP!Next]_LP!vars)
  BY DEF L!Init, LP!Init, L!vars, LP!vars, L!Next, LP!Next, L!db, LP!db,
          L!sequences, LP!sequences, L!broker, LP!broker, L!Workers, LP!Workers,
          L!NoCommand, LP!NoCommand, L!NoTx, LP!NoTx, L!NoJob, LP!NoJob,
          L!SeededAccounts, LP!SeededAccounts, L!Cardinality, LP!Cardinality,
          L!Wrap, LP!Wrap, L!LongRange, LP!LongRange, L!LongTotal, LP!LongTotal,
          L!ValidateBalanced, LP!ValidateBalanced, L!FlipDirection, LP!FlipDirection, L!KeyExists,
          LP!KeyExists, L!Retry, LP!Retry, L!DeadLetter, LP!DeadLetter, L!Fail,
          LP!Fail, L!Publish, LP!Publish, L!Deliver, LP!Deliver, L!Remaining,
          LP!Remaining, L!SettleCommand, LP!SettleCommand, L!Begin, LP!Begin,
          L!SettleLosingPick, LP!SettleLosingPick, L!Ack, LP!Ack, L!ListenerStep,
          LP!ListenerStep, L!PostManualEntry, LP!PostManualEntry, L!Flip, LP!Flip,
          L!ReverseCommand, LP!ReverseCommand, L!Reverse, LP!Reverse, L!HoldsKey,
          LP!HoldsKey, L!HoldsOwner, LP!HoldsOwner, L!Advance, LP!Advance,
          L!InsertEntry, LP!InsertEntry, L!CurrentLine, LP!CurrentLine,
          L!PostingTo, LP!PostingTo, L!PostLine, LP!PostLine, L!OpenAccount,
          LP!OpenAccount, L!Persist, LP!Persist, L!Commit, LP!Commit, L!WaitsFor,
          LP!WaitsFor, L!Deadlocked, LP!Deadlocked, L!DeadlockVictim,
          LP!DeadlockVictim, L!WorkerStep, LP!WorkerStep, L!Fault, LP!Fault,
          L!StatementFails, LP!StatementFails, L!CommitAnswerLost,
          LP!CommitAnswerLost, L!ConnectionLost, LP!ConnectionLost, L!Restart,
          LP!Restart

-----------------------------------------------------------------------------
(***************************************************************************)
(* The assumptions of the services.                                        *)
(***************************************************************************)
LEMMA PredictionConstants == PP!PredictionAssumption
  BY SagaAssumption DEF PP!PredictionAssumption, F!Outcomes

\* A PickLocked event has one pick for each of its users.
LEMMA LockEventPicks ==
    ASSUME NEW l \in LockEvents
    PROVE  /\ l.match \in Matches /\ l.group \in Groups
           /\ l.picks \subseteq
                 [user : Users, predicted : Predictable \cup {Null}, stake : {Stake}]
           /\ \A p, q \in l.picks : p.user = q.user => p = q
  BY DEF LockEvents, PickSets, OneForEachUser

LEMMA FixtureConstants == FP!FixtureAssumption
<1>1. \A l \in LockEvents :
         /\ Contents[l].match \in Matches
         /\ Contents[l].picks \subseteq
               [user : Users, predicted : FP!Outcomes \cup {Null}, stake : Nat]
         /\ \A p, q \in Contents[l].picks : p.user = q.user => p = q
  <2>1. Predictable \subseteq FP!Outcomes /\ Stake \in Nat
    BY SagaAssumption DEF F!Outcomes, FP!Outcomes
  <2>2. \A l \in LockEvents : Contents[l] = l
    BY DEF Contents
  <2> QED
    BY <2>1, <2>2, LockEventPicks
<1> QED
  BY <1>1, SagaAssumption DEF FP!FixtureAssumption, F!Outcomes, FP!Outcomes

\* SetToSeq lists the members of a finite set, each once.
LEMMA ListedOnce ==
    ASSUME NEW S, IsFiniteSet(S)
    PROVE  /\ SeqsExt!SetToSeq(S) \in Seq(S)
           /\ \A i, j \in DOMAIN SeqsExt!SetToSeq(S) :
                 SeqsExt!SetToSeq(S)[i] = SeqsExt!SetToSeq(S)[j] => i = j
<1> DEFINE Lists(f) == SeqsExt!IsInjective(f)
<1>1. PICK n \in Nat : n = Cardinality(S) /\ n = SeqsExt!Cardinality(S)
  BY FS_CardinalityType DEF Cardinality, SeqsExt!Cardinality
<1>2. \E f \in [1..n -> S] : Lists(f)
  BY <1>1, FS_CardinalityType DEF ExistsBijection, Bijection, Injection, IsInjective,
     SeqsExt!IsInjective
<1>3. SeqsExt!SetToSeq(S) = CHOOSE f \in [1..n -> S] : Lists(f)
  BY <1>1 DEF SeqsExt!SetToSeq
<1>4. SeqsExt!SetToSeq(S) \in [1..n -> S] /\ Lists(SeqsExt!SetToSeq(S))
  BY <1>2, <1>3
<1> QED
  BY <1>4 DEF SeqsExt!IsInjective

\* A MatchSettled event has one line for each of its users.
LEMMA SettledEventLines ==
    ASSUME NEW e \in SettledEvents
    PROVE  /\ e.row \in 1..MaxEvents
           /\ e.lines \subseteq [user : Users, result : {"WON", "LOST"}, stake : {Stake}]
           /\ \A s, t \in e.lines : s.user = t.user => s = t
           /\ IsFiniteSet(e.lines)
<1>1. /\ e.row \in 1..MaxEvents
      /\ e.lines \subseteq [user : Users, result : {"WON", "LOST"}, stake : {Stake}]
      /\ \A s, t \in e.lines : s.user = t.user => s = t
  BY DEF SettledEvents, LineSets, OneForEachUser
<1>2. IsFiniteSet(e.lines)
  <2>1. [s \in e.lines |-> s.user] \in Injection(e.lines, Users)
    BY <1>1 DEF Injection, IsInjective
  <2> QED
    BY <2>1, SagaAssumption, FS_Injection
<1> QED
  BY <1>1, <1>2

\* What the ledger loops over are these lines.
LEMMA LineOfEvent ==
    ASSUME NEW e \in SettledEvents
    PROVE  /\ LineSequences[e] \in Seq(LP!SettlementLine)
           /\ \A i \in DOMAIN LineSequences[e] : LineSequences[e][i] \in e.lines
           /\ \A i, j \in DOMAIN LineSequences[e] :
                 LineSequences[e][i].user = LineSequences[e][j].user => i = j
<1>1. PICK seq : seq = SeqsExt!SetToSeq(e.lines)
  OBVIOUS
<1>2. LineSequences[e] = seq
  BY <1>1 DEF LineSequences
<1>3. seq \in Seq(e.lines) /\ \A i, j \in DOMAIN seq : seq[i] = seq[j] => i = j
  BY <1>1, ListedOnce, SettledEventLines
<1>4. e.lines \subseteq LP!SettlementLine
  BY SettledEventLines, SagaAssumption DEF LP!SettlementLine
<1>5. \A i \in DOMAIN seq : seq[i] \in e.lines
  BY <1>3
<1>6. seq \in Seq(LP!SettlementLine)
  BY <1>3, <1>4
<1> QED
  BY <1>2, <1>3, <1>5, <1>6, SettledEventLines

LEMMA LedgerConstants ==
    LP!LedgerAssumption /\ LP!OneLinePerUser /\ LP!MaxLongAssumption
<1>1. LineSequences \in [SettledEvents -> Seq(LP!SettlementLine)]
  BY LineOfEvent DEF LineSequences
<1>2. LP!OneLinePerUser /\ LP!MaxLongAssumption
  BY LineOfEvent, SagaAssumption DEF LP!OneLinePerUser, LP!MaxLongAssumption
<1>3. LP!LedgerAssumption
  BY <1>1, SagaAssumption DEF LP!LedgerAssumption, LP!SystemOwners, L!SystemOwners,
     IsFiniteSet, LP!IsFiniteSet
<1> QED
  BY <1>2, <1>3

-----------------------------------------------------------------------------
(***************************************************************************)
(* Prediction depends on nobody.                                           *)
(***************************************************************************)
LEMMA PredictionSteps == ASSUME [Next]_vars PROVE [P!Next]_P!vars
<1>1. CASE LockStep
  BY <1>1 DEF LockStep, PublishPickLocked, P!Next, P!Lockers, P!LockStep
<1>2. CASE PlayerStep \/ LockJob \/ FixtureSync
  BY <1>2 DEF PlayerStep, LockJob, FixtureSync, P!Next, P!Lockers
<1>3. CASE PredictionFails
  BY <1>3 DEF PredictionFails, PickLockedConfirmLost, P!Next, P!Lockers
<1> DEFINE Stands == UNCHANGED predictionVars
<1>4. CASE Stands
  BY <1>4 DEF predictionVars, P!vars
<1> HIDE DEF Stands
<1>5. ASSUME Next, ~LockStep, ~(PlayerStep \/ LockJob \/ FixtureSync), ~PredictionFails
      PROVE  Stands
  BY <1>5 DEF Next, Stands, EnterResult, SettleStep, ProjectionStep, OutboxStep,
     PublishMatchSettled, ListenerStep, Deliver, Declare, Failure, FixtureFails, LedgerFails,
     OnlyFixture, OnlyBroker
<1>6. CASE UNCHANGED vars
  BY <1>4, <1>6 DEF vars, Stands
<1> QED
  BY <1>1, <1>2, <1>3, <1>4, <1>5, <1>6

\* Every behaviour of the whole is, seen from Prediction, a behaviour of
\* Prediction.
THEOREM PredictionInTheSystem == Spec => P!Spec
  BY PredictionSteps, PTL DEF Spec, P!Spec, Init

\* What Prediction announces, or is about to, is an event as Fixture reads it.
PredictionMessages ==
    \A event \in announced \cup P!Unpublished(Job) : LockMessage(event) \in LockEvents

LEMMA MessageOfEvent ==
    ASSUME NEW event \in PP!PickLocked, PP!EachOnce(event)
    PROVE  LockMessage(event) \in LockEvents
<1> DEFINE lines == {[user |-> p.user, predicted |-> p.predicted, stake |-> Stake] :
                        p \in event.picks}
<1>1. /\ event.match \in Matches /\ event.group \in Groups
      /\ event.picks \subseteq [user : Users, predicted : Predictable \cup {Null}]
  BY DEF PP!PickLocked
<1>2. lines \subseteq [user : Users, predicted : Predictable \cup {Null}, stake : {Stake}]
  BY <1>1
<1>3. lines # {} /\ OneForEachUser(lines)
  <2>1. lines # {}
    BY DEF PP!EachOnce
  <2>2. ASSUME NEW s \in lines, NEW t \in lines, s.user = t.user PROVE s = t
    <3>1. PICK p \in event.picks :
             s = [user |-> p.user, predicted |-> p.predicted, stake |-> Stake]
      OBVIOUS
    <3>2. PICK q \in event.picks :
             t = [user |-> q.user, predicted |-> q.predicted, stake |-> Stake]
      OBVIOUS
    <3> QED
      BY <2>2, <3>1, <3>2 DEF PP!EachOnce
  <2> QED
    BY <2>1, <2>2 DEF OneForEachUser
<1>4. lines \in PickSets
  BY <1>2, <1>3 DEF PickSets
<1> QED
  BY <1>1, <1>4 DEF LockMessage, LockEvents

LEMMA PredictionFacts == Spec => [](PP!TypeOK /\ PredictionMessages)
<1> DEFINE Once == \A w \in PP!Lockers :
                      \A event \in announced \cup PP!Unpublished(w) : PP!EachOnce(event)
<1>1. Spec => PP!Spec
  BY SamePrediction, PredictionInTheSystem, PTL DEF PP!Spec, P!Spec
<1>2. Spec => [](PP!TypeOK /\ Once)
  BY <1>1, PP!TypeCorrect, PP!EventsNameEachOnce, PredictionConstants, PTL
<1>3. PP!TypeOK /\ Once => PredictionMessages
  <2> SUFFICES ASSUME PP!TypeOK, Once, NEW event \in announced \cup P!Unpublished(Job)
               PROVE  LockMessage(event) \in LockEvents
    BY DEF PredictionMessages
  <2>1. PP!Unpublished(Job) = P!Unpublished(Job) /\ Job \in PP!Lockers
    BY DEF PP!Unpublished, P!Unpublished, PP!Lockers
  <2>2. PP!EachOnce(event)
    BY <2>1
  <2>3. event \in PP!PickLocked
    <3>1. CASE event \in announced
      BY <3>1 DEF PP!TypeOK
    <3>2. CASE event \in P!Unpublished(Job)
      <4>1. run[Job] \in PP!Run /\ run[Job].step = "publish" /\ event \in run[Job].events
        BY <2>1, <3>2 DEF PP!TypeOK, P!Unpublished
      <4> QED
        BY <4>1 DEF PP!Run, PP!NoRun
    <3> QED
      BY <3>1, <3>2
  <2> QED
    BY <2>2, <2>3, MessageOfEvent
<1> HIDE DEF Once
<1> QED
  BY <1>2, <1>3, PTL

-----------------------------------------------------------------------------
(***************************************************************************)
(* Fixture depends on Prediction for what it consumes.                     *)
(***************************************************************************)
LEMMA FixtureSteps == ASSUME [Next]_vars, PredictionMessages PROVE [F!Next]_F!vars
<1> DEFINE Stands == UNCHANGED fixtureVars
<1>1. CASE Stands
  BY <1>1 DEF fixtureVars, F!vars
<1>2. ASSUME NEW event \in P!Unpublished(Job), DeliverLock(event) PROVE [F!Next]_F!vars
  <2>1. LockMessage(event) \in LockEvents
    BY DEF PredictionMessages
  <2>2. CASE F!PublishLock(LockMessage(event))
    BY <2>1, <2>2 DEF F!Next
  <2> QED
    BY <1>1, <1>2, <2>2 DEF DeliverLock
<1>3. CASE LockStep
  BY <1>1, <1>2, <1>3 DEF LockStep, PublishPickLocked, OnlyPrediction
<1>4. CASE PredictionFails
  BY <1>1, <1>2, <1>4 DEF PredictionFails, PickLockedConfirmLost, OnlyPrediction
<1>5. CASE \E a \in FixtureAdmins :
              \/ \E m \in Matches, score \in Scores : EnterResult(a, m, score)
              \/ SettleStep(a)
  BY <1>5 DEF EnterResult, SettleStep, F!Next
<1>6. CASE ProjectionStep
  BY <1>6 DEF ProjectionStep, F!Next, F!ConsumerStep
<1>7. CASE OutboxStep
  BY <1>7 DEF OutboxStep, PublishMatchSettled, F!Next, F!OutboxStep
<1>8. CASE FixtureFails
  BY <1>8 DEF FixtureFails, F!Next
<1> HIDE DEF Stands
<1>9. CASE FixtureSync \/ PlayerStep \/ LockJob \/ (\E s \in B!Services : Declare(s))
  <2>1. Stands
    BY <1>9 DEF Stands, FixtureSync, PlayerStep, LockJob, Declare, OnlyPrediction, OnlyBroker
  <2> QED
    BY <1>1, <2>1
<1>10. CASE LedgerFails \/ \E c \in Consumers :
                ListenerStep(c) \/ \E e \in SettledEvents : Deliver(c, e)
  <2>1. Stands
    BY <1>10 DEF Stands, LedgerFails, ListenerStep, Deliver
  <2> QED
    BY <1>1, <2>1
<1>11. CASE UNCHANGED vars
  BY <1>1, <1>11 DEF vars, Stands
<1> QED
  BY <1>3, <1>4, <1>5, <1>6, <1>7, <1>8, <1>9, <1>10, <1>11 DEF Next, Failure

\* Every behaviour of the whole is a behaviour of Fixture: what Prediction sends
\* is a PickLocked event with one pick for each of its users.
THEOREM FixtureInTheSystem == Spec => F!Spec
<1>1. PredictionMessages /\ [Next]_vars => [F!Next]_F!vars
  BY FixtureSteps
<1> QED
  BY <1>1, PredictionFacts, PTL DEF Spec, F!Spec, Init

\* What Fixture is about to publish is an event as the ledger reads it.
FixtureMessages == \A i \in outboxJob.left : SettledMessage(i) \in SettledEvents

LEMMA MessageOfRow ==
    ASSUME FP!TypeOK, FP!OneLinePerUser, FP!LinesComeFromLocks,
           NEW i \in DOMAIN outbox, i \in 1..MaxEvents
    PROVE  SettledMessage(i) \in SettledEvents
<1> DEFINE Line(s) == [user |-> s.user, result |-> s.result, stake |-> s.stake]
           lines == {Line(s) : s \in outbox[i].settlements}
<1>1. outbox[i] \in FP!OutboxRow
  BY DEF FP!TypeOK
<1>2. ASSUME NEW s \in outbox[i].settlements
      PROVE  Line(s) \in [user : Users, result : {"WON", "LOST"}, stake : {Stake}]
  <2>1. s.user \in Users /\ s.result \in {"WON", "LOST"}
    BY <1>1 DEF FP!OutboxRow, FP!Settlement
  <2>2. PICK l \in projected :
           [user |-> s.user, predicted |-> s.predicted, stake |-> s.stake] \in Contents[l].picks
    BY DEF FP!LinesComeFromLocks
  <2>3. l \in LockEvents /\ Contents[l] = l
    BY DEF FP!TypeOK, Contents
  <2>4. s.stake = Stake
    BY <2>2, <2>3, LockEventPicks
  <2> QED
    BY <2>1, <2>4
<1>3. OneForEachUser(lines)
  BY DEF FP!OneLinePerUser, OneForEachUser
<1>4. lines \in LineSets
  BY <1>2, <1>3 DEF LineSets
<1> QED
  BY <1>4 DEF SettledMessage, SettledEvents

LEMMA FixtureFacts == Spec => [](FP!TypeOK /\ FP!LinesComeFromLocks /\ FixtureMessages)
<1>1. Spec => FP!Spec
  BY SameFixture, FixtureInTheSystem, PTL DEF FP!Spec, F!Spec
<1>2. Spec => [](/\ FP!TypeOK /\ FP!OneLinePerUser /\ FP!LinesComeFromLocks
                 /\ DOMAIN outbox \subseteq 1..MaxEvents)
  BY <1>1, FP!TypeCorrect, FP!OneLineForEachUser, FP!LinesAreHandedOver,
     FP!OutboxWithinBound, FixtureConstants, PTL
<1>3. /\ FP!TypeOK /\ FP!OneLinePerUser /\ FP!LinesComeFromLocks
      /\ DOMAIN outbox \subseteq 1..MaxEvents
      => FixtureMessages
  BY MessageOfRow DEF FixtureMessages, FP!TypeOK
<1> QED
  BY <1>2, <1>3, PTL

-----------------------------------------------------------------------------
(***************************************************************************)
(* The ledger depends on Fixture, and through it on Prediction.            *)
(***************************************************************************)
LEMMA LedgerSteps == ASSUME [Next]_vars, FixtureMessages PROVE [L!Next]_L!vars
<1> DEFINE Stands == UNCHANGED ledgerVars
<1>1. CASE Stands
  BY <1>1 DEF ledgerVars, L!vars, L!db, L!sequences, L!broker
<1>2. ASSUME NEW i \in outboxJob.left, PublishMatchSettled(i) PROVE [L!Next]_L!vars
  <2>1. SettledMessage(i) \in SettledEvents
    BY DEF FixtureMessages
  <2>2. CASE L!Publish(SettledMessage(i))
    BY <2>1, <2>2 DEF L!Next
  <2> QED
    BY <1>1, <1>2, <2>2 DEF PublishMatchSettled
<1>3. CASE OutboxStep
  BY <1>1, <1>2, <1>3 DEF OutboxStep, OnlyFixture
<1>4. ASSUME NEW c \in Consumers,
             ListenerStep(c) \/ \E e \in SettledEvents : Deliver(c, e)
      PROVE  [L!Next]_L!vars
  <2>1. CASE L!WorkerStep(c)
    BY <2>1 DEF L!Next, L!Workers
  <2>2. CASE L!Ack(c) \/ L!SettleLosingPick(c)
    BY <2>2 DEF L!Next, L!ListenerStep
  <2>3. CASE \E e \in SettledEvents : Deliver(c, e)
    BY <2>3 DEF Deliver, L!Next
  <2> QED
    BY <1>4, <2>1, <2>2, <2>3 DEF ListenerStep
<1>5. CASE LedgerFails
  BY <1>5 DEF LedgerFails, L!Next, L!Workers
<1> HIDE DEF Stands
<1>6. CASE FixtureSync \/ PlayerStep \/ LockJob \/ ProjectionStep
           \/ (\E s \in B!Services : Declare(s))
  <2>1. Stands
    BY <1>6 DEF Stands, FixtureSync, PlayerStep, LockJob, ProjectionStep, Declare,
       OnlyPrediction, OnlyFixture, OnlyBroker
  <2> QED
    BY <1>1, <2>1
<1>7. CASE LockStep \/ PredictionFails \/ FixtureFails
  <2>1. Stands
    BY <1>7 DEF Stands, LockStep, PredictionFails, FixtureFails, PublishPickLocked,
       PickLockedConfirmLost, DeliverLock, OnlyPrediction
  <2> QED
    BY <1>1, <2>1
<1>8. CASE \E a \in FixtureAdmins :
              \/ \E m \in Matches, score \in Scores : EnterResult(a, m, score)
              \/ SettleStep(a)
  <2>1. Stands
    BY <1>8 DEF Stands, EnterResult, SettleStep, OnlyFixture
  <2> QED
    BY <1>1, <2>1
<1>9. CASE UNCHANGED vars
  BY <1>1, <1>9 DEF vars, Stands
<1> QED
  BY <1>3, <1>4, <1>5, <1>6, <1>7, <1>8, <1>9 DEF Next, Failure

\* Every behaviour of the whole is a behaviour of the ledger: what Fixture sends
\* is a MatchSettled event with one line for each of its users.
THEOREM LedgerInTheSystem == Spec => L!Spec
<1>1. FixtureMessages /\ [Next]_vars => [L!Next]_L!vars
  BY LedgerSteps
<1> QED
  BY <1>1, FixtureFacts, PTL DEF Spec, L!Spec, Init

LEMMA LedgerBehaviour == Spec => LP!Spec
  BY SameLedger, LedgerInTheSystem, PTL DEF LP!Spec, L!Spec

\* In every reachable state of the whole the balances of all accounts add up to
\* nothing, and a player's is minus the stakes lost: no administrator writes entries
\* here, and Fixture's lines carry the stake that Prediction announced.
THEOREM BooksOfTheSystem == Spec => [](L!BooksBalance /\ L!PlayersOweTheirLosses)
<1>1. LP!ManualTotalsFit /\ LP!StakesCount
  <2>1. \A e \in SettledEvents : \A i \in DOMAIN LineSequences[e] :
           LineSequences[e][i].stake >= 0
    BY LineOfEvent, SettledEventLines, SagaAssumption
  <2> QED
    BY <2>1 DEF LP!ManualTotalsFit, LP!StakesCount
<1>2. LP!Spec => []LP!BooksBalance
  BY <1>1, LP!MoneyIsConserved, LedgerConstants
<1>3. LP!Spec => []LP!PlayersOweTheirLosses
  BY <1>1, LP!LossesChargedOnce, LedgerConstants
<1>4. LP!BooksBalance <=> L!BooksBalance
  BY DEF LP!BooksBalance, L!BooksBalance, LP!BalanceOf, L!BalanceOf, LP!EffectOn, L!EffectOn,
     LP!Signed, L!Signed, LP!SetsExt!MapThenSumSet, L!SetsExt!MapThenSumSet,
     LP!SetsExt!MapThenFoldSet, L!SetsExt!MapThenFoldSet
<1>5. LP!PlayersOweTheirLosses <=> L!PlayersOweTheirLosses
  BY DEF LP!PlayersOweTheirLosses, L!PlayersOweTheirLosses, LP!BalanceOf, L!BalanceOf,
     LP!EffectOn, L!EffectOn, LP!Signed, L!Signed, LP!LostStakes, L!LostStakes,
     LP!LostStake, L!LostStake, LP!SetsExt!MapThenSumSet, L!SetsExt!MapThenSumSet,
     LP!SetsExt!MapThenFoldSet, L!SetsExt!MapThenFoldSet
<1> QED
  BY <1>2, <1>3, <1>4, <1>5, LedgerBehaviour, PTL

-----------------------------------------------------------------------------
(***************************************************************************)
(* The broker.                                                             *)
(***************************************************************************)
LEMMA LedgerFacts == Spec => [](LP!TypeOK /\ LP!LiveDeliveries)
  BY LedgerBehaviour, LP!TypeCorrect, LP!DeliveriesAreEvents, LedgerConstants, PTL

BrokerStep ==
    \/ UNCHANGED brokerVars
    \/ \E message \in LockEvents : B!PublishPickLocked(message)
    \/ \E message \in SettledEvents : B!PublishMatchSettled(message)
    \/ \E s \in B!Services : B!Declare(s) \/ B!Disconnect(s)
    \/ \E message \in LockEvents \cup SettledEvents : B!Reject(message)

LEMMA BrokerSteps ==
    ASSUME [Next]_vars, PredictionMessages, FixtureMessages, FP!TypeOK, LP!LiveDeliveries
    PROVE  BrokerStep
<1> DEFINE Stands == UNCHANGED brokerVars
<1>1. Stands => BrokerStep
  BY DEF BrokerStep
<1>2. \A s \in B!Services : B!Declare(s) \/ B!Disconnect(s) => BrokerStep
  BY DEF BrokerStep
<1>3. "fixture" \in B!Services /\ "ledger" \in B!Services
  BY DEF B!Services
<1>4. ASSUME NEW event \in P!Unpublished(Job), DeliverLock(event) PROVE BrokerStep
  BY <1>4 DEF DeliverLock, PredictionMessages, BrokerStep
<1>5. CASE LockStep
  BY <1>1, <1>4, <1>5 DEF LockStep, PublishPickLocked, OnlyPrediction
<1>6. CASE PredictionFails
  BY <1>1, <1>4, <1>6 DEF PredictionFails, PickLockedConfirmLost, OnlyPrediction
<1>7. CASE OutboxStep
  BY <1>1, <1>7 DEF OutboxStep, OnlyFixture, PublishMatchSettled, FixtureMessages, BrokerStep
<1>8. CASE FixtureFails
  <2>1. handling.step \in {"commit", "ack"} => handling.event \in LockEvents
    BY DEF FP!TypeOK, FP!Handling, FP!NoHandling
  <2>2. F!ProjectionFails /\ B!Reject(handling.event) => BrokerStep
    BY <2>1 DEF F!ProjectionFails, BrokerStep
  <2> QED
    BY <1>1, <1>2, <1>3, <1>8, <2>2 DEF FixtureFails
<1>9. ASSUME NEW c \in Consumers, RejectIfGivenUp(c) PROVE BrokerStep
  BY <1>1, <1>9 DEF RejectIfGivenUp, LP!LiveDeliveries, BrokerStep
<1>10. CASE \E c \in Consumers : ListenerStep(c) \/ \E e \in SettledEvents : Deliver(c, e)
  BY <1>1, <1>9, <1>10 DEF ListenerStep, Deliver, brokerVars
<1>11. CASE LedgerFails
  BY <1>2, <1>3, <1>9, <1>11 DEF LedgerFails
<1>12. CASE \E s \in B!Services : Declare(s)
  BY <1>2, <1>12 DEF Declare
<1> HIDE DEF Stands
<1>13. CASE FixtureSync \/ PlayerStep \/ LockJob
  <2>1. Stands
    BY <1>13 DEF Stands, FixtureSync, PlayerStep, LockJob, OnlyPrediction
  <2> QED
    BY <1>1, <2>1
<1>14. CASE \/ ProjectionStep
            \/ \E a \in FixtureAdmins :
                  \/ \E m \in Matches, score \in Scores : EnterResult(a, m, score)
                  \/ SettleStep(a)
  <2>1. Stands
    BY <1>14 DEF Stands, ProjectionStep, EnterResult, SettleStep, OnlyFixture
  <2> QED
    BY <1>1, <2>1
<1>15. CASE UNCHANGED vars
  BY <1>1, <1>15 DEF vars, Stands
<1> QED
  BY <1>5, <1>6, <1>7, <1>8, <1>10, <1>11, <1>12, <1>13, <1>14, <1>15 DEF Next, Failure

\* What a service has declared since it connected is bound, whoever bound it.
BrokerInv ==
    /\ B!TypeOK
    /\ DOMAIN declared = B!Services
    /\ \A s \in B!Services : \A i \in 1..declared[s] : B!Declarations(s)[i] \in bound

\* Nothing is unbound, and no dead-letter queue is emptied.
LEMMA NextBrokerInv ==
    ASSUME BrokerInv, BrokerStep
    PROVE  /\ BrokerInv'
           /\ bound \subseteq bound'
           /\ \A s \in B!Services : deadLetters[s] \subseteq deadLetters'[s]
<1> USE DEF BrokerInv, B!TypeOK
<1>1. \A s \in B!Services :
         /\ Len(B!Declarations(s)) = 2
         /\ \A i \in 1..2 : B!Declarations(s)[i] \in
               {B!PickLockedQueue, B!MatchSettledQueue} \cup {B!DeadLetterQueue(t) : t \in B!Services}
  BY DEF B!Services, B!Declarations, B!FixtureDeclarations, B!LedgerDeclarations
<1>2. CASE UNCHANGED brokerVars
  BY <1>2 DEF brokerVars
<1>3. CASE \E message \in LockEvents : B!PublishPickLocked(message)
  BY <1>3 DEF B!PublishPickLocked
<1>4. CASE \E message \in SettledEvents : B!PublishMatchSettled(message)
  <2>1. B!SeqsExt!ToSet(B!FixtureDeclarations) \subseteq
           {B!PickLockedQueue, B!MatchSettledQueue} \cup {B!DeadLetterQueue(t) : t \in B!Services}
    BY DEF B!SeqsExt!ToSet, B!FixtureDeclarations, B!Services
  <2> QED
    BY <1>4, <2>1 DEF B!PublishMatchSettled
<1>5. ASSUME NEW s \in B!Services, B!Declare(s)
      PROVE  /\ BrokerInv'
             /\ bound \subseteq bound'
             /\ \A t \in B!Services : deadLetters[t] \subseteq deadLetters'[t]
  <2>1. declared[s] \in 0..1 /\ declared' = [declared EXCEPT ![s] = declared[s] + 1]
    BY <1>1, <1>5 DEF B!Declare, B!Connected
  <2>2. bound' = bound \cup {B!Declarations(s)[declared[s] + 1]}
    BY <1>5 DEF B!Declare
  <2>3. UNCHANGED <<unrouted, deadLetters>>
    BY <1>5 DEF B!Declare
  <2>4. ASSUME NEW t \in B!Services
        PROVE  /\ declared'[t] \in 0..Len(B!Declarations(t))
               /\ \A i \in 1..declared'[t] : B!Declarations(t)[i] \in bound'
    BY <1>1, <2>1, <2>2
  <2>5. bound' \subseteq
           {B!PickLockedQueue, B!MatchSettledQueue} \cup {B!DeadLetterQueue(t) : t \in B!Services}
    BY <1>1, <2>1, <2>2
  <2> QED
    BY <2>1, <2>2, <2>3, <2>4, <2>5
<1>6. ASSUME NEW s \in B!Services, B!Disconnect(s)
      PROVE  /\ BrokerInv'
             /\ bound \subseteq bound'
             /\ \A t \in B!Services : deadLetters[t] \subseteq deadLetters'[t]
  BY <1>1, <1>6 DEF B!Disconnect
<1>7. CASE \E message \in LockEvents \cup SettledEvents : B!Reject(message)
  BY <1>7 DEF B!Reject
<1> QED
  BY <1>2, <1>3, <1>4, <1>5, <1>6, <1>7 DEF BrokerStep

LEMMA InitBrokerInv == Init => BrokerInv
  BY DEF Init, B!Init, BrokerInv, B!TypeOK, B!Services, B!Declarations, B!FixtureDeclarations,
     B!LedgerDeclarations

LEMMA BrokerFacts == Spec => []BrokerInv
<1>1. /\ PredictionMessages /\ FixtureMessages /\ FP!TypeOK /\ LP!LiveDeliveries
      /\ BrokerInv /\ [Next]_vars
      => BrokerInv'
  BY BrokerSteps, NextBrokerInv
<1> QED
  BY <1>1, InitBrokerInv, PredictionFacts, FixtureFacts, LedgerFacts, PTL DEF Spec

\* In every reachable state of the whole, each service and the broker are well
\* typed: whatever one service sends is what the other takes it for.
THEOREM TypeCorrect == Spec => []TypeOK
<1>1. PP!TypeOK => P!TypeOK
  BY DEF P!TypeOK, PP!TypeOK, P!Ref, PP!Ref, P!NoRef, PP!NoRef, P!PickRow, PP!PickRow,
     P!NoRequest, PP!NoRequest, P!Submission, PP!Submission, P!Lockers, PP!Lockers, P!Run,
     PP!Run, P!NoRun, PP!NoRun, P!PayloadLine, PP!PayloadLine, P!PickLocked, PP!PickLocked
<1>2. FP!TypeOK => F!TypeOK
  BY DEF F!TypeOK, FP!TypeOK, F!MatchRow, FP!MatchRow, F!Statuses, FP!Statuses, F!Outcomes,
     FP!Outcomes, F!PickRow, FP!PickRow, F!OutboxRow, FP!OutboxRow, F!Result, FP!Result,
     F!Settlement, FP!Settlement, F!Request, FP!Request, F!NoRequest, FP!NoRequest,
     F!Handling, FP!Handling, F!NoHandling, FP!NoHandling
<1>3. LP!TypeOK => L!TypeOK
  BY DEF L!TypeOK, LP!TypeOK, L!AccountRow, LP!AccountRow, L!Owners, LP!Owners,
     L!SystemOwners, LP!SystemOwners, L!EntryRow, LP!EntryRow, L!Keys, LP!Keys, L!SettleKeys,
     LP!SettleKeys, L!ReverseKeys, LP!ReverseKeys, L!ManualKeys, LP!ManualKeys, L!Actions,
     LP!Actions, L!Posting, LP!Posting, L!Directions, LP!Directions, L!Workers, LP!Workers,
     L!Transaction, LP!Transaction, L!Command, LP!Command, L!NoCommand, LP!NoCommand,
     L!Line, LP!Line, L!Delivery, LP!Delivery
<1>4. BrokerInv => B!TypeOK
  BY DEF BrokerInv
<1>5. PP!TypeOK /\ FP!TypeOK /\ LP!TypeOK /\ BrokerInv => TypeOK
  BY <1>1, <1>2, <1>3, <1>4 DEF TypeOK
<1> QED
  BY <1>5, PredictionFacts, FixtureFacts, LedgerFacts, BrokerFacts, PTL

-----------------------------------------------------------------------------
(***************************************************************************)
(* Dead letters.  A consumer works on a message only after it has bound    *)
(* its dead-letter queue, and what is bound stays bound while it works, is *)
(* disconnected and connects again.                                        *)
(***************************************************************************)
WorkIsSafe ==
    /\ handling.step # "idle" => B!DeadLetterQueue("fixture") \in bound
    /\ \A c \in Consumers : job[c].live => B!DeadLetterQueue("ledger") \in bound

DeadInv == WorkIsSafe /\ DeadLettersKept

\* Fixture rejects the message it is working on, and works only when connected.
FixtureRejects ==
    \/ /\ lockDead' = lockDead
       /\ handling'.step # "idle" => handling.step # "idle" \/ B!Connected("fixture")
    \/ /\ handling.step # "idle" /\ handling'.step = "idle"
       /\ lockDead' = lockDead \cup {handling.event}
       /\ B!Reject(handling.event)

\* The ledger, likewise, in each of its threads.
LedgerRejects ==
    \/ /\ settledDead' = settledDead
       /\ \A c \in Consumers : job'[c].live => job[c].live \/ B!Connected("ledger")
    \/ \E c \in Consumers :
          /\ \A d \in Consumers : job'[d].live => job[d].live
          /\ job[c].live /\ settledDead' = settledDead \cup {job[c].event}
          /\ B!Reject(job[c].event)

LEMMA NextDeadInv ==
    ASSUME DeadInv, BrokerInv, BrokerStep, FixtureRejects, LedgerRejects
    PROVE  DeadInv'
<1>1. /\ bound \subseteq bound'
      /\ \A s \in B!Services : deadLetters[s] \subseteq deadLetters'[s]
  BY NextBrokerInv
<1>2. "fixture" \in B!Services /\ "ledger" \in B!Services
  BY DEF B!Services
<1>3. ASSUME NEW s \in B!Services, B!Connected(s) PROVE B!DeadLetterQueue(s) \in bound
  <2>1. \A i \in 1..2 : B!Declarations(s)[i] \in bound
    BY <1>3 DEF BrokerInv, B!Connected, B!Declarations, B!FixtureDeclarations,
       B!LedgerDeclarations
  <2>2. B!DeadLetterQueue(s) \in {B!Declarations(s)[1], B!Declarations(s)[2]}
    BY DEF B!Services, B!Declarations, B!FixtureDeclarations, B!LedgerDeclarations,
       B!DeadLetterQueue
  <2> QED
    BY <2>1, <2>2
<1>4. ASSUME NEW s \in B!Services, NEW message, B!Reject(message),
             B!DeadLetterQueue(s) \in bound
      PROVE  message \in deadLetters'[s]
  BY <1>4 DEF B!Reject
<1>5. /\ handling'.step # "idle" => B!DeadLetterQueue("fixture") \in bound'
      /\ lockDead' \subseteq deadLetters'["fixture"]
  <2> USE DEF DeadInv, WorkIsSafe, DeadLettersKept
  <2>1. CASE lockDead' = lockDead
    BY <1>1, <1>2, <1>3, <2>1 DEF FixtureRejects
  <2>2. CASE /\ handling.step # "idle" /\ handling'.step = "idle"
             /\ lockDead' = lockDead \cup {handling.event}
             /\ B!Reject(handling.event)
    BY <1>1, <1>2, <1>4, <2>2
  <2> QED
    BY <2>1, <2>2 DEF FixtureRejects
<1>6. /\ \A c \in Consumers : job'[c].live => B!DeadLetterQueue("ledger") \in bound'
      /\ settledDead' \subseteq deadLetters'["ledger"]
  <2> USE DEF DeadInv, WorkIsSafe, DeadLettersKept
  <2>1. CASE settledDead' = settledDead
    BY <1>1, <1>2, <1>3, <2>1 DEF LedgerRejects
  <2>2. ASSUME NEW c \in Consumers, \A d \in Consumers : job'[d].live => job[d].live,
               job[c].live, settledDead' = settledDead \cup {job[c].event},
               B!Reject(job[c].event)
        PROVE  /\ \A d \in Consumers : job'[d].live => B!DeadLetterQueue("ledger") \in bound'
               /\ settledDead' \subseteq deadLetters'["ledger"]
    BY <1>1, <1>2, <1>4, <2>2
  <2> QED
    BY <2>1, <2>2 DEF LedgerRejects
<1> QED
  BY <1>5, <1>6 DEF DeadInv, WorkIsSafe, DeadLettersKept

LEMMA NextFixtureRejects == [Next]_vars => FixtureRejects
<1> SUFFICES ASSUME [Next]_vars PROVE FixtureRejects
  OBVIOUS
<1> DEFINE Stands == UNCHANGED <<lockDead, handling>>
<1>1. Stands => FixtureRejects
  BY DEF FixtureRejects
<1>2. UNCHANGED fixtureVars => Stands
  BY DEF fixtureVars
<1>3. ASSUME NEW event \in P!Unpublished(Job), DeliverLock(event) PROVE Stands
  BY <1>2, <1>3 DEF DeliverLock, F!PublishLock
<1>4. CASE ProjectionStep
  <2>1. CASE B!Connected("fixture") /\ \E l \in LockEvents : F!HandlePickLocked(l)
    BY <2>1 DEF F!HandlePickLocked, FixtureRejects
  <2>2. CASE F!CommitProjection
    BY <2>2 DEF F!CommitProjection, FixtureRejects
  <2>3. CASE F!Ack
    BY <2>3 DEF F!Ack, F!NoHandling, FixtureRejects
  <2> QED
    BY <1>4, <2>1, <2>2, <2>3 DEF ProjectionStep
<1>5. CASE FixtureFails
  <2>1. CASE F!ProjectionFails /\ B!Reject(handling.event)
    BY <2>1 DEF F!ProjectionFails, F!NoHandling, FixtureRejects
  <2>2. CASE F!AckLost \/ F!Restart
    BY <2>2 DEF F!AckLost, F!Restart, F!NoHandling, FixtureRejects
  <2>3. CASE F!PublishFails \/ \E a \in FixtureAdmins : F!RequestFails(a)
    BY <1>1, <2>3 DEF F!PublishFails, F!RequestFails, F!consumer
  <2> QED
    BY <1>5, <2>1, <2>2, <2>3 DEF FixtureFails
<1>6. CASE \/ OutboxStep
           \/ \E a \in FixtureAdmins :
                 \/ \E m \in Matches, score \in Scores : EnterResult(a, m, score)
                 \/ SettleStep(a)
  <2>1. Stands
    BY <1>6 DEF OutboxStep, PublishMatchSettled, F!SelectPending, F!PublishNext,
       F!MarkPublished, EnterResult, F!EnterResult, SettleStep, F!SettleStep, F!ReadPicks,
       F!CommitResult, F!consumer
  <2> QED
    BY <1>1, <2>1
<1> HIDE DEF Stands
<1>7. CASE LockStep \/ PredictionFails
  BY <1>1, <1>2, <1>3, <1>7 DEF LockStep, PublishPickLocked, PredictionFails,
     PickLockedConfirmLost, OnlyPrediction
<1>8. CASE FixtureSync \/ PlayerStep \/ LockJob \/ (\E s \in B!Services : Declare(s))
  BY <1>1, <1>2, <1>8 DEF FixtureSync, PlayerStep, LockJob, Declare, OnlyPrediction, OnlyBroker
<1>9. CASE LedgerFails \/ \E c \in Consumers :
               ListenerStep(c) \/ \E e \in SettledEvents : Deliver(c, e)
  BY <1>1, <1>2, <1>9 DEF LedgerFails, ListenerStep, Deliver
<1>10. CASE UNCHANGED vars
  BY <1>1, <1>2, <1>10 DEF vars
<1> QED
  BY <1>4, <1>5, <1>6, <1>7, <1>8, <1>9, <1>10 DEF Next, Failure

\* An attempt that fails is retried, or the delivery is given up.
LEMMA GivingUp ==
    ASSUME LP!TypeOK, NEW c \in Consumers, L!Fail(c), RejectIfGivenUp(c)
    PROVE  LedgerRejects
<1>1. job \in [Consumers -> LP!Delivery]
  BY DEF LP!TypeOK
<1>2. CASE L!Retry(c)
  BY <1>1, <1>2 DEF L!Retry, LedgerRejects
<1>3. CASE L!DeadLetter(c)
  <2>1. job' = [job EXCEPT ![c] = L!NoJob]
    BY <1>3 DEF L!DeadLetter
  <2>2. \A d \in Consumers : job'[d].live => job[d].live
    BY <1>1, <2>1 DEF L!NoJob
  <2>3. CASE job[c].live
    BY <1>1, <1>3, <2>1, <2>2, <2>3 DEF L!DeadLetter, RejectIfGivenUp, LedgerRejects
  <2>4. CASE ~job[c].live
    BY <1>3, <2>2, <2>4 DEF L!DeadLetter, LedgerRejects
  <2> QED
    BY <2>3, <2>4
<1> QED
  BY <1>2, <1>3 DEF L!Fail

LEMMA NextLedgerRejects == ASSUME LP!TypeOK, [Next]_vars PROVE LedgerRejects
<1> DEFINE Stands == UNCHANGED <<settledDead, job>>
<1>1. Stands => LedgerRejects
  BY DEF LedgerRejects
<1>2. UNCHANGED ledgerVars => Stands
  BY DEF ledgerVars
<1>3. job \in [Consumers -> LP!Delivery]
  BY DEF LP!TypeOK
<1>4. ASSUME NEW c \in Consumers, NEW e \in SettledEvents, Deliver(c, e)
      PROVE  LedgerRejects
  BY <1>4 DEF Deliver, L!Deliver, LedgerRejects
<1>5. ASSUME NEW c \in Consumers, L!Ack(c) PROVE LedgerRejects
  BY <1>3, <1>5 DEF L!Ack, L!NoJob, LedgerRejects
<1>6. ASSUME NEW c \in Consumers, L!SettleLosingPick(c), RejectIfGivenUp(c)
      PROVE  LedgerRejects
  <2>1. CASE L!Fail(c)
    BY <1>6, <2>1, GivingUp
  <2>2. CASE UNCHANGED settledDead /\ \E n : job' = [job EXCEPT ![c].next = n]
    BY <1>3, <2>2 DEF LedgerRejects
  <2> QED
    BY <1>6, <2>1, <2>2 DEF L!SettleLosingPick
<1>7. ASSUME NEW c \in Consumers, L!WorkerStep(c), RejectIfGivenUp(c) PROVE LedgerRejects
  <2>1. CASE L!Fail(c)
    BY <1>7, <2>1, GivingUp
  <2>2. CASE Stands
    BY <1>1, <2>2
  <2>3. CASE L!Commit(c)
    BY <1>3, <2>3 DEF L!Commit, L!broker, LedgerRejects
  <2> QED
    BY <1>7, <2>1, <2>2, <2>3 DEF L!WorkerStep, L!InsertEntry, L!PostLine, L!OpenAccount,
       L!DeadlockVictim, L!broker
<1>8. CASE LedgerFails
  <2>1. ASSUME NEW c \in Consumers, L!StatementFails(c) \/ L!CommitAnswerLost(c),
               RejectIfGivenUp(c)
        PROVE  LedgerRejects
    BY <2>1, GivingUp DEF L!StatementFails, L!CommitAnswerLost
  <2>2. ASSUME NEW c \in Consumers, L!ConnectionLost(c) PROVE LedgerRejects
    BY <1>3, <2>2 DEF L!ConnectionLost, LedgerRejects
  <2>3. CASE L!Restart
    BY <2>3 DEF L!Restart, L!NoJob, LedgerRejects
  <2> QED
    BY <1>8, <2>1, <2>2, <2>3 DEF LedgerFails
<1>9. CASE OutboxStep
  <2>1. Stands
    BY <1>2, <1>9 DEF OutboxStep, PublishMatchSettled, L!Publish, OnlyFixture
  <2> QED
    BY <1>1, <2>1
<1> HIDE DEF Stands
<1>10. CASE \E c \in Consumers : ListenerStep(c) \/ \E e \in SettledEvents : Deliver(c, e)
  BY <1>4, <1>5, <1>6, <1>7, <1>10 DEF ListenerStep
<1>11. CASE LockStep \/ PredictionFails \/ FixtureFails
  BY <1>1, <1>2, <1>11 DEF LockStep, PublishPickLocked, DeliverLock, PredictionFails,
     PickLockedConfirmLost, FixtureFails, OnlyPrediction
<1>12. CASE FixtureSync \/ PlayerStep \/ LockJob \/ ProjectionStep
  BY <1>1, <1>2, <1>12 DEF FixtureSync, PlayerStep, LockJob, ProjectionStep, OnlyPrediction,
     OnlyFixture
<1>13. CASE \/ \E s \in B!Services : Declare(s)
            \/ \E a \in FixtureAdmins :
                  \/ \E m \in Matches, score \in Scores : EnterResult(a, m, score)
                  \/ SettleStep(a)
  BY <1>1, <1>2, <1>13 DEF Declare, EnterResult, SettleStep, OnlyFixture, OnlyBroker
<1>14. CASE UNCHANGED vars
  BY <1>1, <1>2, <1>14 DEF vars
<1> QED
  BY <1>8, <1>9, <1>10, <1>11, <1>12, <1>13, <1>14 DEF Next, Failure

\* In every reachable state each rejected message is in the dead-letter queue of
\* the service that rejected it, however the services started, failed and
\* connected again, and whichever of them had set up its queues by then.
THEOREM NoRejectedMessageIsLost == Spec => []DeadLettersKept
<1>1. Init => DeadInv
  BY DEF Init, F!Init, F!NoHandling, L!Init, L!NoJob, DeadInv, WorkIsSafe, DeadLettersKept
<1>2. /\ PredictionMessages /\ FixtureMessages /\ FP!TypeOK /\ LP!TypeOK /\ LP!LiveDeliveries
      /\ BrokerInv /\ DeadInv /\ [Next]_vars
      => DeadInv'
  BY BrokerSteps, NextDeadInv, NextFixtureRejects, NextLedgerRejects
<1>3. DeadInv => DeadLettersKept
  BY DEF DeadInv
<1> QED
  BY <1>1, <1>2, <1>3, PredictionFacts, FixtureFacts, LedgerFacts, BrokerFacts, PTL DEF Spec

-----------------------------------------------------------------------------
(***************************************************************************)
(* From the pick to the charge: what a queue has carried is what its       *)
(* sender has on record, and records stay.                                 *)
(***************************************************************************)
SentLocksAreAnnounced ==
    \A l \in LockEvents : lockSent[l] > 0 => \E event \in announced : l = LockMessage(event)

SentSettlementsAreStaged ==
    \A e \in SettledEvents :
        settledSent[e] > 0 => e.row \in DOMAIN outbox /\ e = SettledMessage(e.row)

\* PickLocked events stay announced, and only what is being announced is sent.
LEMMA NextSentLocks ==
    ASSUME FP!TypeOK, SentLocksAreAnnounced, [Next]_vars
    PROVE  SentLocksAreAnnounced'
<1>1. lockSent \in [LockEvents -> Nat]
  BY DEF FP!TypeOK
<1> DEFINE Stands == announced \subseteq announced' /\ lockSent' = lockSent
<1>2. Stands => SentLocksAreAnnounced'
  BY DEF SentLocksAreAnnounced, LockMessage
<1>3. UNCHANGED fixtureVars => lockSent' = lockSent
  BY DEF fixtureVars
<1>4. UNCHANGED predictionVars => announced' = announced
  BY DEF predictionVars
<1>5. ASSUME NEW event, announced' = announced \cup {event}, DeliverLock(event)
      PROVE  SentLocksAreAnnounced'
  <2>1. CASE F!PublishLock(LockMessage(event))
    BY <1>1, <1>5, <2>1 DEF F!PublishLock, SentLocksAreAnnounced, LockMessage
  <2>2. CASE UNCHANGED fixtureVars
    BY <1>2, <1>3, <1>5, <2>2
  <2> QED
    BY <1>5, <2>1, <2>2 DEF DeliverLock
<1>6. CASE LockStep
  <2>1. ASSUME NEW event \in P!Unpublished(Job), PublishPickLocked(event)
        PROVE  SentLocksAreAnnounced'
    BY <1>5, <2>1 DEF PublishPickLocked, P!PublishNext
  <2>2. CASE /\ OnlyPrediction
             /\ \/ P!ReadGroups(Job)
                \/ \E g \in Groups : P!ReadMembers(Job, g)
                \/ \E g \in Groups, u \in Users : P!ReadMemberPick(Job, g, u)
                \/ P!CommitLocks(Job)
                \/ P!LockConflicts(Job)
                \/ P!MarkLocked(Job)
    BY <1>2, <1>3, <2>2 DEF OnlyPrediction, P!ReadGroups, P!ReadMembers, P!ReadMemberPick,
       P!CommitLocks, P!LockConflicts, P!MarkLocked
  <2> QED
    BY <1>6, <2>1, <2>2 DEF LockStep
<1>7. CASE PredictionFails
  <2>1. ASSUME NEW event \in P!Unpublished(Job), PickLockedConfirmLost(event)
        PROVE  SentLocksAreAnnounced'
    BY <1>5, <2>1 DEF PickLockedConfirmLost, P!ConfirmLost
  <2>2. CASE OnlyPrediction /\ (P!LockFails(Job) \/ P!CommitAnswerLost(Job) \/ P!Restart)
    BY <1>2, <1>3, <2>2 DEF OnlyPrediction, P!LockFails, P!CommitAnswerLost, P!Restart
  <2> QED
    BY <1>7, <2>1, <2>2 DEF PredictionFails
<1>8. CASE FixtureSync \/ PlayerStep \/ LockJob
  BY <1>2, <1>3, <1>8 DEF FixtureSync, PlayerStep, LockJob, OnlyPrediction, P!SyncMatchRef,
     P!CreateGroup, P!JoinGroup, P!Tick, P!SubmitPick, P!RequestStep, P!CheckWindow,
     P!ReadPick, P!CommitPick, P!JobStep, P!QueryDue, P!LockMatch
<1>9. CASE ProjectionStep \/ OutboxStep
  BY <1>2, <1>4, <1>9 DEF ProjectionStep, OutboxStep, OnlyFixture, F!HandlePickLocked,
     F!CommitProjection, F!Ack, PublishMatchSettled, F!PublishNext, F!SelectPending,
     F!MarkPublished, F!consumer
<1>10. CASE \E a \in FixtureAdmins :
               \/ \E m \in Matches, score \in Scores : EnterResult(a, m, score)
               \/ SettleStep(a)
  BY <1>2, <1>4, <1>10 DEF EnterResult, SettleStep, OnlyFixture, F!EnterResult,
     F!SettleStep, F!ReadPicks, F!CommitResult, F!consumer
<1>11. CASE FixtureFails
  BY <1>2, <1>4, <1>11 DEF FixtureFails, F!PublishFails, F!RequestFails, F!ProjectionFails,
     F!AckLost, F!Restart, F!consumer
<1>12. CASE LedgerFails \/ \E c \in Consumers :
                ListenerStep(c) \/ \E e \in SettledEvents : Deliver(c, e)
  BY <1>2, <1>3, <1>4, <1>12 DEF LedgerFails, ListenerStep, Deliver
<1>13. CASE \E s \in B!Services : Declare(s)
  BY <1>2, <1>3, <1>4, <1>13 DEF Declare, OnlyBroker
<1>14. CASE UNCHANGED vars
  BY <1>2, <1>3, <1>4, <1>14 DEF vars
<1> QED
  BY <1>6, <1>7, <1>8, <1>9, <1>10, <1>11, <1>12, <1>13, <1>14 DEF Next, Failure

\* An outbox row is never changed but for its mark.
RowsStay ==
    \A i \in DOMAIN outbox :
        /\ i \in DOMAIN outbox' /\ outbox'[i].settlements = outbox[i].settlements
        /\ outbox'[i].match = outbox[i].match /\ outbox'[i].result = outbox[i].result

LEMMA NextRowsStay == ASSUME FP!TypeOK, [F!Next]_F!vars PROVE RowsStay
<1>1. outbox \in Seq(FP!OutboxRow)
  BY DEF FP!TypeOK
<1>2. UNCHANGED outbox => RowsStay
  BY DEF RowsStay
<1>3. ASSUME NEW a \in FixtureAdmins, F!CommitResult(a) PROVE RowsStay
  <2>1. PICK row : outbox' = Append(outbox, row)
    BY <1>3 DEF F!CommitResult
  <2> QED
    BY <1>1, <2>1 DEF RowsStay
<1>4. CASE F!MarkPublished
  <2>1. \A i \in DOMAIN outbox : outbox[i] \in FP!OutboxRow
    BY <1>1
  <2> QED
    BY <1>4, <2>1 DEF F!MarkPublished, FP!OutboxRow, RowsStay
<1>5. CASE F!ConsumerStep \/ F!ProjectionFails \/ F!AckLost \/ F!PublishFails \/ F!Restart
           \/ \E l \in LockEvents : F!PublishLock(l)
  BY <1>2, <1>5 DEF F!ConsumerStep, F!HandlePickLocked, F!CommitProjection, F!Ack,
     F!ProjectionFails, F!AckLost, F!PublishFails, F!Restart, F!PublishLock
<1>6. ASSUME NEW a \in FixtureAdmins,
             \/ \E m \in Matches, score \in Scores : F!EnterResult(a, m, score)
             \/ F!ReadPicks(a) \/ F!RequestFails(a)
      PROVE  RowsStay
  BY <1>2, <1>6 DEF F!EnterResult, F!ReadPicks, F!RequestFails
<1>7. CASE F!SelectPending \/ \E i \in outboxJob.left : F!PublishNext(i)
  BY <1>2, <1>7 DEF F!SelectPending, F!PublishNext
<1>8. CASE UNCHANGED F!vars
  BY <1>2, <1>8 DEF F!vars
<1> QED
  BY <1>3, <1>4, <1>5, <1>6, <1>7, <1>8 DEF F!Next, F!SettleStep, F!OutboxStep

LEMMA NextSentSettlements ==
    ASSUME FP!TypeOK, LP!TypeOK, SentSettlementsAreStaged, RowsStay, [Next]_vars
    PROVE  SentSettlementsAreStaged'
<1>1. settledSent \in [SettledEvents -> Nat]
  BY DEF LP!TypeOK
<1>2. \A i \in DOMAIN outbox : i \in DOMAIN outbox' /\ SettledMessage(i)' = SettledMessage(i)
  BY DEF RowsStay, SettledMessage
<1>3. settledSent' = settledSent => SentSettlementsAreStaged'
  BY <1>2 DEF SentSettlementsAreStaged
<1>4. UNCHANGED ledgerVars => settledSent' = settledSent
  BY DEF ledgerVars
<1>5. ASSUME NEW i \in outboxJob.left, PublishMatchSettled(i) PROVE SentSettlementsAreStaged'
  <2>1. i \in DOMAIN outbox
    BY DEF FP!TypeOK
  <2>2. CASE L!Publish(SettledMessage(i))
    <3>1. settledSent' = [settledSent EXCEPT ![SettledMessage(i)] = @ + 1]
      BY <2>2 DEF L!Publish
    <3>2. SettledMessage(i).row = i
      BY DEF SettledMessage
    <3> QED
      BY <1>1, <1>2, <2>1, <3>1, <3>2 DEF SentSettlementsAreStaged
  <2> QED
    BY <1>3, <1>4, <1>5, <2>2 DEF PublishMatchSettled
<1>6. CASE OutboxStep
  BY <1>3, <1>4, <1>5, <1>6 DEF OutboxStep, OnlyFixture
<1>7. ASSUME NEW c \in Consumers, ListenerStep(c) \/ \E e \in SettledEvents : Deliver(c, e)
      PROVE  settledSent' = settledSent
  BY <1>7 DEF ListenerStep, Deliver, L!Deliver, L!Ack, L!SettleLosingPick, L!WorkerStep,
     L!InsertEntry, L!PostLine, L!OpenAccount, L!Commit, L!DeadlockVictim, L!broker
<1>8. CASE LedgerFails
  BY <1>3, <1>8 DEF LedgerFails, L!StatementFails, L!CommitAnswerLost, L!ConnectionLost, L!Restart
<1>9. CASE LockStep \/ PredictionFails \/ FixtureFails
  BY <1>3, <1>4, <1>9 DEF LockStep, PublishPickLocked, DeliverLock, PredictionFails,
     PickLockedConfirmLost, FixtureFails, OnlyPrediction
<1>10. CASE FixtureSync \/ PlayerStep \/ LockJob \/ ProjectionStep
  BY <1>3, <1>4, <1>10 DEF FixtureSync, PlayerStep, LockJob, ProjectionStep, OnlyPrediction,
     OnlyFixture
<1>11. CASE \/ \E s \in B!Services : Declare(s)
            \/ \E a \in FixtureAdmins :
                  \/ \E m \in Matches, score \in Scores : EnterResult(a, m, score)
                  \/ SettleStep(a)
  BY <1>3, <1>4, <1>11 DEF Declare, EnterResult, SettleStep, OnlyFixture, OnlyBroker
<1>12. CASE UNCHANGED vars
  BY <1>3, <1>4, <1>12 DEF vars
<1> QED
  BY <1>3, <1>6, <1>7, <1>8, <1>9, <1>10, <1>11, <1>12 DEF Next, Failure

\* A charge is for a line of an outbox row.
ChargesHaveLines ==
    \A x \in journal : \E i \in DOMAIN outbox : \E s \in outbox[i].settlements :
        x.key = <<"settle", SettledMessage(i), s.user>>

\* A charge goes back to a line of a published event, the line to a pick of a
\* projected event, the pick to what Prediction announced.
LEMMA ChargeOrigin ==
    ASSUME FP!TypeOK, FP!LinesComeFromLocks, FP!ProjectedWerePublished,
           LP!CommittedRequests, LP!ChargesWerePublished,
           \A x \in journal : x.action = "SETTLE_PICK",
           SentLocksAreAnnounced, SentSettlementsAreStaged
    PROVE  ChargesAreAnnounced /\ ChargesHaveLines
<1> SUFFICES
        ASSUME NEW x \in journal
        PROVE  /\ \E i \in DOMAIN outbox : \E s \in outbox[i].settlements :
                      x.key = <<"settle", SettledMessage(i), s.user>>
               /\ \E i \in DOMAIN outbox : \E event \in announced : \E pick \in event.picks :
                      /\ x.key = <<"settle", SettledMessage(i), pick.user>>
                      /\ event.match = outbox[i].match
                      /\ pick.predicted # outbox[i].result.outcome
                      /\ L!LinesOf(x.lines) =
                            << [owner |-> pick.user, amount |-> Stake, direction |-> "DEBIT"],
                               [owner |-> "POOL", amount |-> Stake, direction |-> "CREDIT"] >>
  BY DEF ChargesAreAnnounced, ChargesHaveLines
<1>0. PICK e \in SettledEvents : \E n \in DOMAIN LineSequences[e] :
         LP!Loses(e, n) /\ LP!CommandOf(x) = LP!Charge(e, n)
  <2>1. LP!Asked(LP!CommandOf(x), journal) /\ x.action = "SETTLE_PICK"
    BY DEF LP!CommittedRequests
  <2>2. \A y : LP!CommandOf(x) # LP!ReverseCommand(y)
    BY <2>1 DEF LP!CommandOf, LP!ReverseCommand
  <2> QED
    BY <2>1, <2>2 DEF LP!Asked
<1>1. PICK n \in DOMAIN LineSequences[e] :
         LP!Loses(e, n) /\ LP!CommandOf(x) = LP!Charge(e, n)
  BY <1>0
<1>2. PICK line : line = LineSequences[e][n]
  OBVIOUS
<1>3. /\ line \in e.lines /\ line.result = "LOST"
      /\ line \in [user : Users, result : {"WON", "LOST"}, stake : {Stake}]
  BY <1>1, <1>2, LineOfEvent, SettledEventLines DEF LP!Loses
<1>4. /\ x.key = <<"settle", e, line.user>>
      /\ L!LinesOf(x.lines) =
            << [owner |-> line.user, amount |-> Stake, direction |-> "DEBIT"],
               [owner |-> "POOL", amount |-> Stake, direction |-> "CREDIT"] >>
  <2>1. LP!LinesOf(x.lines) = L!LinesOf(x.lines)
    BY DEF LP!LinesOf, L!LinesOf, LP!LineOf, L!LineOf
  <2>2. LP!CommandOf(x) = LP!SettleCommand(e, line) /\ line.stake = Stake
    BY <1>1, <1>2, <1>3 DEF LP!Charge
  <2> QED
    BY <2>1, <2>2 DEF LP!CommandOf, LP!SettleCommand
<1>5. settledSent[e] > 0
  BY <1>1, <1>4 DEF LP!ChargesWerePublished
<1>6. PICK i : i = e.row /\ i \in DOMAIN outbox /\ e = SettledMessage(i)
  BY <1>5 DEF SentSettlementsAreStaged
<1>7. PICK s \in outbox[i].settlements :
         line = [user |-> s.user, result |-> s.result, stake |-> s.stake]
  BY <1>3, <1>6 DEF SettledMessage
<1>8. PICK l \in projected :
         /\ Contents[l].match = outbox[i].match
         /\ [user |-> s.user, predicted |-> s.predicted, stake |-> s.stake] \in Contents[l].picks
         /\ s.result = "WON" <=> s.predicted = outbox[i].result.outcome
  BY <1>6 DEF FP!LinesComeFromLocks
<1>9. l \in LockEvents /\ Contents[l] = l /\ lockSent[l] > 0
  BY DEF FP!TypeOK, FP!ProjectedWerePublished, Contents
<1>10. PICK event \in announced : l = LockMessage(event)
  BY <1>9 DEF SentLocksAreAnnounced
<1>11. PICK pick \in event.picks :
          [user |-> s.user, predicted |-> s.predicted, stake |-> s.stake]
             = [user |-> pick.user, predicted |-> pick.predicted, stake |-> Stake]
  BY <1>8, <1>9, <1>10 DEF LockMessage
<1>12. event.match = outbox[i].match
  BY <1>8, <1>9, <1>10 DEF LockMessage
<1>13. pick.user = line.user /\ pick.predicted # outbox[i].result.outcome
  BY <1>3, <1>7, <1>8, <1>11
<1>14. x.key = <<"settle", SettledMessage(i), s.user>>
  BY <1>4, <1>6, <1>7
<1> QED
  BY <1>4, <1>6, <1>12, <1>13, <1>14

LEMMA ChargeFacts == Spec => [](ChargesAreAnnounced /\ ChargesHaveLines)
<1> DEFINE Charges == \A x \in journal : x.action = "SETTLE_PICK"
<1>1. Init => SentLocksAreAnnounced /\ SentSettlementsAreStaged
  BY DEF Init, F!Init, L!Init, SentLocksAreAnnounced, SentSettlementsAreStaged
<1>2. FP!TypeOK /\ SentLocksAreAnnounced /\ [Next]_vars => SentLocksAreAnnounced'
  BY NextSentLocks
<1>3. /\ PredictionMessages /\ FP!TypeOK /\ LP!TypeOK
      /\ SentSettlementsAreStaged /\ [Next]_vars
      => SentSettlementsAreStaged'
  BY FixtureSteps, NextRowsStay, NextSentSettlements
<1>4. Spec => FP!Spec
  BY SameFixture, FixtureInTheSystem, PTL DEF FP!Spec, F!Spec
<1>5. Spec => []FP!ProjectedWerePublished
  BY <1>4, FP!OnlyPublishedIsProjected, FixtureConstants, PTL
<1>6. Spec => [](LP!CommittedRequests /\ LP!ChargesWerePublished /\ Charges)
  <2>1. LP!Spec => [](LP!CommittedRequests /\ LP!EntryIds)
    BY LP!EntriesAsAsked, LedgerConstants
  <2>2. LP!Spec => []LP!ChargesWerePublished
    BY LP!OnlyPublishedIsCharged, LedgerConstants
  <2>3. LP!Spec => []Charges
    BY LP!OnlyCharges, LedgerConstants
  <2> QED
    BY <2>1, <2>2, <2>3, LedgerBehaviour, PTL
<1>7. /\ FP!TypeOK /\ FP!LinesComeFromLocks /\ FP!ProjectedWerePublished
      /\ LP!CommittedRequests /\ LP!ChargesWerePublished /\ Charges
      /\ SentLocksAreAnnounced /\ SentSettlementsAreStaged
      => ChargesAreAnnounced /\ ChargesHaveLines
  BY ChargeOrigin
<1> HIDE DEF Charges
<1> QED
  BY <1>1, <1>2, <1>3, <1>5, <1>6, <1>7, PredictionFacts, FixtureFacts, LedgerFacts, PTL
     DEF Spec

\* In every reachable state of the whole, each entry of the journal charges a
\* player one stake for a pick that Prediction announced and the result of an
\* outbox row shows to be lost.
THEOREM OnlyLosersAreCharged == Spec => []ChargesAreAnnounced
  BY ChargeFacts, PTL

-----------------------------------------------------------------------------
(***************************************************************************)
(* One stake for a player and match.  The ledger charges once per event and *)
(* player, so that this depends on the events Fixture makes of a match.    *)
(* With one administrator at a time, at most one of them has lines: only   *)
(* the first projection can write LOCKED over a result, and before the     *)
(* first projection there are no picks to charge.  When administrators     *)
(* also wait for the lock, a match has one event.                          *)
(***************************************************************************)
\* The steps of the whole that matches, picks, the number of outbox rows, requests
\* and what handle_pick_locked has read depend on.
ResultStep ==
    \/ /\ UNCHANGED <<matches, matchPicks, resultRequest>> /\ DOMAIN outbox' = DOMAIN outbox
       /\ handling' = handling \/ handling'.step # "commit"
    \/ \E a \in FixtureAdmins :
          \/ \E m \in Matches, score \in Scores : EnterResult(a, m, score)
          \/ F!ReadPicks(a) \/ F!CommitResult(a) \/ F!RequestFails(a)
    \/ (\E l \in LockEvents : F!HandlePickLocked(l)) \/ F!CommitProjection \/ F!Restart

LEMMA ResultSteps == ASSUME [Next]_vars PROVE ResultStep
<1> DEFINE Stands == UNCHANGED <<matches, matchPicks, resultRequest, outbox, handling>>
<1>1. Stands => ResultStep
  BY DEF ResultStep
<1>2. UNCHANGED fixtureVars => Stands
  BY DEF fixtureVars
<1>3. ASSUME NEW event, DeliverLock(event) PROVE ResultStep
  BY <1>1, <1>2, <1>3 DEF DeliverLock, F!PublishLock
<1>4. CASE LockStep \/ PredictionFails
  BY <1>1, <1>2, <1>3, <1>4 DEF LockStep, PublishPickLocked, PredictionFails,
     PickLockedConfirmLost, OnlyPrediction
<1>5. CASE \E a \in FixtureAdmins :
              \/ \E m \in Matches, score \in Scores : EnterResult(a, m, score)
              \/ SettleStep(a)
  BY <1>5 DEF SettleStep, F!SettleStep, ResultStep
<1>6. CASE ProjectionStep
  BY <1>6 DEF ProjectionStep, F!Ack, F!NoHandling, ResultStep
<1>7. CASE OutboxStep
  BY <1>1, <1>7 DEF OutboxStep, PublishMatchSettled, F!PublishNext, F!SelectPending,
     F!MarkPublished, F!consumer, ResultStep
<1>8. CASE FixtureFails
  BY <1>1, <1>8 DEF FixtureFails, F!PublishFails, F!ProjectionFails, F!AckLost, F!NoHandling,
     F!consumer, ResultStep
<1> HIDE DEF Stands
<1>9. CASE FixtureSync \/ PlayerStep \/ LockJob \/ (\E s \in B!Services : Declare(s))
  BY <1>1, <1>2, <1>9 DEF FixtureSync, PlayerStep, LockJob, Declare, OnlyPrediction, OnlyBroker
<1>10. CASE LedgerFails \/ \E c \in Consumers :
                ListenerStep(c) \/ \E e \in SettledEvents : Deliver(c, e)
  BY <1>1, <1>2, <1>10 DEF LedgerFails, ListenerStep, Deliver
<1>11. CASE UNCHANGED vars
  BY <1>1, <1>2, <1>11 DEF vars
<1> QED
  BY <1>4, <1>5, <1>6, <1>7, <1>8, <1>9, <1>10, <1>11 DEF Next, Failure

Entering(a) == resultRequest[a].step # "idle"

\* settle_match refuses a match that it reads as SETTLED.
ReadUnsettled ==
    \A a \in FixtureAdmins : Entering(a) => resultRequest[a].seen.status # "SETTLED"

LEMMA RequestFields ==
    ASSUME FP!TypeOK, NEW a \in FixtureAdmins, Entering(a)
    PROVE  resultRequest[a].match \in Matches
<1>1. resultRequest[a] \in FP!Request
  BY DEF FP!TypeOK
<1> QED
  BY <1>1 DEF FP!Request, FP!NoRequest, Entering

\* What the steps write into a match's status, given what they have read of it.
LEMMA StatusWritten ==
    ASSUME FP!TypeOK, ReadUnsettled, NEW m \in Matches
    PROVE  /\ F!CommitProjection =>
                 matches'[m].status =
                     IF handling.seen.status = "SCHEDULED" /\ handling.event.match = m
                     THEN "LOCKED" ELSE matches[m].status
           /\ \A a \in FixtureAdmins : F!CommitResult(a) =>
                 matches'[m].status =
                     IF resultRequest[a].match = m THEN "SETTLED" ELSE matches[m].status
<1>1. matches \in [Matches -> FP!MatchRow]
  BY DEF FP!TypeOK
<1>2. ASSUME F!CommitProjection
      PROVE  matches'[m].status =
                 IF handling.seen.status = "SCHEDULED" /\ handling.event.match = m
                 THEN "LOCKED" ELSE matches[m].status
  <2>1. handling \in FP!Handling /\ handling.step = "commit"
    BY <1>2 DEF FP!TypeOK, F!CommitProjection
  <2>2. /\ handling.event \in LockEvents /\ handling.seen \in FP!MatchRow
        /\ Contents[handling.event] = handling.event /\ handling.event.match \in Matches
    BY <2>1, LockEventPicks DEF FP!Handling, FP!NoHandling, Contents
  <2>3. CASE handling.seen.status = "SCHEDULED"
    <3>1. matches' = [matches EXCEPT ![handling.event.match] =
                         F!Flush(@, handling.seen, [handling.seen EXCEPT !.status = "LOCKED"])]
      BY <1>2, <2>2, <2>3 DEF F!CommitProjection
    <3>2. F!Flush(matches[handling.event.match], handling.seen,
                  [handling.seen EXCEPT !.status = "LOCKED"]).status = "LOCKED"
      BY <1>1, <2>2, <2>3 DEF F!Flush, FP!MatchRow
    <3> QED
      BY <1>1, <2>2, <2>3, <3>1, <3>2
  <2>4. CASE handling.seen.status # "SCHEDULED"
    BY <1>2, <2>4 DEF F!CommitProjection
  <2> QED
    BY <2>3, <2>4
<1>3. ASSUME NEW a \in FixtureAdmins, F!CommitResult(a)
      PROVE  matches'[m].status =
                 IF resultRequest[a].match = m THEN "SETTLED" ELSE matches[m].status
  <2> DEFINE r == resultRequest[a]
             new == [status |-> "SETTLED", home |-> r.result.home, away |-> r.result.away,
                     outcome |-> r.result.outcome]
  <2>1. Entering(a)
    BY <1>3 DEF F!CommitResult, Entering
  <2>2. r.match \in Matches /\ r.seen.status # "SETTLED"
    BY <2>1, RequestFields DEF ReadUnsettled
  <2>3. matches' = [matches EXCEPT ![r.match] = F!Flush(@, r.seen, new)]
    BY <1>3 DEF F!CommitResult
  <2>4. F!Flush(matches[r.match], r.seen, new).status = "SETTLED"
    BY <1>1, <2>2 DEF F!Flush, FP!MatchRow
  <2> QED
    BY <1>1, <2>2, <2>3, <2>4
<1> QED
  BY <1>2, <1>3

\* A status is changed by a projection or a result only, and never back to
\* SCHEDULED.
LEMMA StatusStays ==
    ASSUME FP!TypeOK, ReadUnsettled, ResultStep, NEW m \in Matches
    PROVE  /\ \/ matches' = matches \/ F!CommitProjection
              \/ \E a \in FixtureAdmins : F!CommitResult(a)
           /\ matches[m].status # "SCHEDULED" => matches'[m].status # "SCHEDULED"
<1>1. \/ matches' = matches \/ F!CommitProjection
      \/ \E a \in FixtureAdmins : F!CommitResult(a)
  BY DEF ResultStep, EnterResult, F!EnterResult, F!ReadPicks, F!RequestFails,
     F!HandlePickLocked, F!Restart
<1> QED
  BY <1>1, StatusWritten

\* A request goes on with what it has read when it began.
LEMMA RequestGoesOn ==
    ASSUME FP!TypeOK, ResultStep, NEW a \in FixtureAdmins, Entering(a)'
    PROVE  \/ \E m \in Matches, score \in Scores : EnterResult(a, m, score)
           \/ /\ Entering(a) /\ ~F!CommitResult(a)
              /\ resultRequest'[a].seen = resultRequest[a].seen
              /\ resultRequest'[a].match = resultRequest[a].match
<1>1. resultRequest \in [FixtureAdmins -> FP!Request]
  BY DEF FP!TypeOK
<1>2. ~F!CommitResult(a) /\ ~F!RequestFails(a) /\ ~F!Restart
  BY <1>1 DEF F!CommitResult, F!RequestFails, F!Restart, F!NoRequest, Entering
<1> DEFINE Same == /\ Entering(a) /\ resultRequest'[a].seen = resultRequest[a].seen
                   /\ resultRequest'[a].match = resultRequest[a].match
<1>3. ASSUME NEW b \in FixtureAdmins, b # a,
             \/ \E m \in Matches, score \in Scores : EnterResult(b, m, score)
             \/ F!ReadPicks(b) \/ F!CommitResult(b) \/ F!RequestFails(b)
      PROVE  Same
  BY <1>1, <1>3 DEF EnterResult, F!EnterResult, F!ReadPicks, F!CommitResult, F!RequestFails,
     Entering
<1>4. F!ReadPicks(a) => Same
  BY <1>1 DEF F!ReadPicks, Entering
<1>5. UNCHANGED resultRequest => Same
  BY DEF Entering
<1> HIDE DEF Same
<1>6. Same \/ \E m \in Matches, score \in Scores : EnterResult(a, m, score)
  BY <1>2, <1>3, <1>4, <1>5 DEF ResultStep, F!HandlePickLocked, F!CommitProjection
<1> QED
  BY <1>2, <1>6 DEF Same

LEMMA NextReadUnsettled ==
    ASSUME FP!TypeOK, ReadUnsettled, ResultStep
    PROVE  ReadUnsettled'
<1> SUFFICES ASSUME NEW a \in FixtureAdmins, Entering(a)'
             PROVE  resultRequest'[a].seen.status # "SETTLED"
  BY DEF ReadUnsettled
<1>1. ASSUME NEW m \in Matches, NEW score \in Scores, EnterResult(a, m, score)
      PROVE  resultRequest'[a].seen.status # "SETTLED"
  <2>1. resultRequest \in [FixtureAdmins -> FP!Request]
    BY DEF FP!TypeOK
  <2> QED
    BY <1>1, <2>1 DEF EnterResult, F!EnterResult
<1> QED
  BY <1>1, RequestGoesOn DEF ReadUnsettled

HasPicks(m) == \E row \in matchPicks : row.match = m

\* What the consumer is about to commit.
LEMMA HandlingFields ==
    ASSUME FP!TypeOK, handling.step = "commit"
    PROVE  /\ handling.event \in LockEvents /\ handling.event.match \in Matches
           /\ Contents[handling.event] = handling.event
<1>1. handling \in FP!Handling
  BY DEF FP!TypeOK
<1>2. handling.event \in LockEvents
  BY <1>1 DEF FP!Handling, FP!NoHandling
<1> QED
  BY <1>2, LockEventPicks DEF Contents

\* A match that has picks keeps some, and only a projection brings the first.
LEMMA PicksStay ==
    ASSUME FP!TypeOK, ResultStep, NEW m \in Matches
    PROVE  /\ HasPicks(m) => HasPicks(m)'
           /\ ~(F!CommitProjection /\ handling.event.match = m) /\ ~HasPicks(m)
              => ~HasPicks(m)'
<1>1. CASE F!CommitProjection
  <2> DEFINE l == handling.event
  <2>1. l \in LockEvents /\ Contents[l] = l
    BY <1>1, HandlingFields DEF F!CommitProjection
  <2>2. matchPicks' = {row \in matchPicks : \A pick \in l.picks : ~F!SameKey(row, l, pick)}
                      \cup {F!Upserted(l, pick) : pick \in l.picks}
    BY <1>1, <2>1 DEF F!CommitProjection
  <2>3. \A pick \in l.picks : F!Upserted(l, pick).match = l.match
    BY <2>1 DEF F!Upserted
  <2>4. ASSUME NEW row \in matchPicks, row.match = m PROVE HasPicks(m)'
    <3>1. CASE \A pick \in l.picks : ~F!SameKey(row, l, pick)
      BY <2>2, <2>4, <3>1 DEF HasPicks
    <3>2. ASSUME NEW pick \in l.picks, F!SameKey(row, l, pick) PROVE HasPicks(m)'
      <4>1. l.match = m
        BY <2>1, <2>4, <3>2 DEF F!SameKey
      <4> QED
        BY <2>2, <2>3, <4>1 DEF HasPicks
    <3> QED
      BY <3>1, <3>2
  <2>5. l.match # m /\ ~HasPicks(m) => ~HasPicks(m)'
    BY <2>2, <2>3 DEF HasPicks
  <2> QED
    BY <1>1, <2>4, <2>5 DEF HasPicks
<1>2. matchPicks' = matchPicks \/ F!CommitProjection
  BY DEF ResultStep, EnterResult, F!EnterResult, F!ReadPicks, F!CommitResult, F!RequestFails,
     F!HandlePickLocked, F!Restart
<1> QED
  BY <1>1, <1>2 DEF HasPicks

\* A match has no picks before its first projection, the only one that writes LOCKED.
FirstProjection ==
    /\ \A m \in Matches : matches[m].status = "SCHEDULED" => ~HasPicks(m)
    /\ handling.step = "commit" =>
          IF handling.seen.status = "SCHEDULED"
          THEN ~HasPicks(handling.event.match)
          ELSE matches[handling.event.match].status # "SCHEDULED"

LEMMA NextFirstProjection ==
    ASSUME FP!TypeOK, ReadUnsettled, FirstProjection, ResultStep
    PROVE  FirstProjection'
<1>1. ASSUME NEW m \in Matches, matches'[m].status = "SCHEDULED" PROVE ~HasPicks(m)'
  <2>1. matches[m].status = "SCHEDULED" /\ ~HasPicks(m)
    BY <1>1, StatusStays DEF FirstProjection
  <2>2. ~(F!CommitProjection /\ handling.event.match = m)
    BY <1>1, <2>1, StatusWritten DEF F!CommitProjection, FirstProjection
  <2> QED
    BY <2>1, <2>2, PicksStay
<1>2. ASSUME handling'.step = "commit"
      PROVE  IF handling'.seen.status = "SCHEDULED"
             THEN ~HasPicks(handling.event.match)'
             ELSE matches'[handling'.event.match].status # "SCHEDULED"
  <2>1. CASE \E l \in LockEvents : F!HandlePickLocked(l)
    <3>1. PICK l \in LockEvents : F!HandlePickLocked(l)
      BY <2>1
    <3>2. /\ l.match \in Matches /\ UNCHANGED <<matches, matchPicks>>
          /\ handling' = [step |-> "commit", event |-> l, seen |-> matches[l.match]]
      BY <3>1, LockEventPicks DEF F!HandlePickLocked, Contents
    <3> QED
      BY <3>2 DEF FirstProjection, HasPicks
  <2>2. ~F!CommitProjection /\ ~F!Restart
    BY <1>2 DEF F!Restart, F!NoHandling, F!CommitProjection, FP!TypeOK, FP!Handling,
       FP!NoHandling
  <2>3. CASE handling' = handling
    <3>1. handling.event.match \in Matches
      BY <1>2, <2>3, HandlingFields
    <3> QED
      BY <1>2, <2>2, <2>3, <3>1, PicksStay, StatusStays DEF FirstProjection
  <2> QED
    BY <1>2, <2>1, <2>2, <2>3 DEF ResultStep, EnterResult, F!EnterResult, F!ReadPicks,
       F!CommitResult, F!RequestFails, F!consumer
<1> QED
  BY <1>1, <1>2 DEF FirstProjection

HasLines(i) == outbox[i].settlements # {}

\* Of the events of a match only one has lines, and this one for good: its match
\* stays settled, since it has picks.  While a result is on its way no event of its
\* match has lines yet, and lines it has read are of picks that are there.
OneEventWithLines ==
    /\ \A i, j \in DOMAIN outbox :
          HasLines(i) /\ HasLines(j) /\ outbox[i].match = outbox[j].match => i = j
    /\ \A i \in DOMAIN outbox : HasLines(i) =>
          matches[outbox[i].match].status = "SETTLED" /\ HasPicks(outbox[i].match)
    /\ \A a \in FixtureAdmins : Entering(a) =>
          /\ \A i \in DOMAIN outbox : HasLines(i) => outbox[i].match # resultRequest[a].match
          /\ resultRequest[a].step = "commit" /\ resultRequest[a].settlements # {} =>
                HasPicks(resultRequest[a].match)

LEMMA RowMatches == ASSUME FP!TypeOK PROVE \A i \in DOMAIN outbox : outbox[i].match \in Matches
<1>1. \A i \in DOMAIN outbox : outbox[i] \in FP!OutboxRow
  BY DEF FP!TypeOK
<1> QED
  BY <1>1 DEF FP!OutboxRow

\* Recording a result, the administrator's only request.
LEMMA CommitOneEvent ==
    ASSUME \A a, b \in FixtureAdmins : a = b,
           FP!TypeOK, ReadUnsettled, OneEventWithLines, ResultStep,
           NEW a \in FixtureAdmins, F!CommitResult(a)
    PROVE  OneEventWithLines'
<1> DEFINE r == resultRequest[a]
           n == Len(outbox) + 1
<1>1. /\ outbox \in Seq(FP!OutboxRow) /\ resultRequest \in [FixtureAdmins -> FP!Request]
      /\ Entering(a) /\ r.match \in Matches
  BY RequestFields DEF FP!TypeOK, F!CommitResult, Entering
<1>2. /\ DOMAIN outbox' = DOMAIN outbox \cup {n} /\ n \notin DOMAIN outbox
      /\ outbox'[n].match = r.match /\ outbox'[n].settlements = r.settlements
      /\ \A i \in DOMAIN outbox : outbox'[i] = outbox[i]
  <2>1. PICK row : /\ outbox' = Append(outbox, row)
                   /\ row.match = r.match /\ row.settlements = r.settlements
    BY DEF F!CommitResult
  <2> QED
    BY <1>1, <2>1
<1>3. \A i \in DOMAIN outbox : /\ HasLines(i)' <=> HasLines(i)
                               /\ HasLines(i) => outbox[i].match # r.match
  BY <1>1, <1>2 DEF HasLines, OneEventWithLines
<1>4. \A i, j \in DOMAIN outbox' :
         HasLines(i)' /\ HasLines(j)' /\ outbox'[i].match = outbox'[j].match => i = j
  BY <1>2, <1>3 DEF OneEventWithLines
<1>5. /\ matchPicks' = matchPicks /\ matches'[r.match].status = "SETTLED"
      /\ \A m \in Matches : matches[m].status = "SETTLED" => matches'[m].status = "SETTLED"
  <2>1. matchPicks' = matchPicks
    BY DEF F!CommitResult
  <2> QED
    BY <1>1, <2>1, StatusWritten
<1>6. ASSUME NEW i \in DOMAIN outbox', HasLines(i)'
      PROVE  matches'[outbox'[i].match].status = "SETTLED" /\ HasPicks(outbox[i].match)'
  <2>1. CASE i = n
    <3>1. HasPicks(r.match)
      BY <1>1, <1>2, <1>6, <2>1 DEF HasLines, OneEventWithLines, F!CommitResult
    <3> QED
      BY <1>2, <1>5, <2>1, <3>1 DEF HasPicks
  <2>2. CASE i \in DOMAIN outbox
    BY <1>2, <1>3, <1>5, <1>6, <2>2, RowMatches DEF OneEventWithLines, HasPicks
  <2> QED
    BY <1>2, <2>1, <2>2
<1>7. \A b \in FixtureAdmins : ~Entering(b)'
  BY <1>1 DEF F!CommitResult, F!NoRequest, Entering
<1> QED
  BY <1>4, <1>6, <1>7 DEF OneEventWithLines

\* The other steps leave the rows as they are.
LEMMA NextOneEvent ==
    ASSUME \A a, b \in FixtureAdmins : a = b,
           FP!TypeOK, ReadUnsettled, FirstProjection, OneEventWithLines, RowsStay, ResultStep
    PROVE  OneEventWithLines'
<1>1. CASE \E a \in FixtureAdmins : F!CommitResult(a)
  BY <1>1, CommitOneEvent
<1>2. CASE ~\E a \in FixtureAdmins : F!CommitResult(a)
  <2>1. DOMAIN outbox' = DOMAIN outbox
    BY <1>2 DEF ResultStep, EnterResult, F!EnterResult, F!ReadPicks, F!RequestFails,
       F!HandlePickLocked, F!CommitProjection, F!Restart
  <2>2. \A i \in DOMAIN outbox : /\ outbox[i].match \in Matches
                                 /\ outbox'[i].match = outbox[i].match
                                 /\ HasLines(i)' <=> HasLines(i)
    BY RowMatches DEF RowsStay, HasLines
  <2>3. \A i, j \in DOMAIN outbox' :
           HasLines(i)' /\ HasLines(j)' /\ outbox'[i].match = outbox'[j].match => i = j
    BY <2>1, <2>2 DEF OneEventWithLines
  <2>4. ASSUME NEW i \in DOMAIN outbox', HasLines(i)'
        PROVE  matches'[outbox'[i].match].status = "SETTLED" /\ HasPicks(outbox[i].match)'
    <3>1. PICK m \in Matches : m = outbox[i].match /\ m = outbox'[i].match
      BY <2>1, <2>2
    <3>2. matches[m].status = "SETTLED" /\ HasPicks(m)
      BY <2>1, <2>2, <2>4, <3>1 DEF OneEventWithLines
    <3>3. matches'[m].status = "SETTLED"
      BY <1>2, <3>2, StatusStays, StatusWritten DEF FirstProjection, F!CommitProjection
    <3> QED
      BY <3>1, <3>2, <3>3, PicksStay
  <2>5. ASSUME NEW a \in FixtureAdmins, Entering(a)',
               NEW i \in DOMAIN outbox', HasLines(i)'
        PROVE  outbox'[i].match # resultRequest'[a].match
    <3>1. ASSUME NEW m \in Matches, NEW score \in Scores, EnterResult(a, m, score)
          PROVE  resultRequest'[a].match = m /\ matches[m].status # "SETTLED"
      BY <3>1 DEF EnterResult, F!EnterResult, FP!TypeOK
    <3> QED
      BY <2>1, <2>2, <2>5, <3>1, RequestGoesOn DEF OneEventWithLines
  <2>6. ASSUME NEW a \in FixtureAdmins,
               resultRequest'[a].step = "commit", resultRequest'[a].settlements # {}
        PROVE  HasPicks(resultRequest[a].match)'
    <3>1. resultRequest \in [FixtureAdmins -> FP!Request] /\ \A b \in FixtureAdmins : b = a
      BY DEF FP!TypeOK
    <3>2. CASE F!ReadPicks(a)
      BY <2>6, <3>1, <3>2 DEF F!ReadPicks, HasPicks
    <3>3. CASE UNCHANGED resultRequest
      <4>1. Entering(a) /\ HasPicks(resultRequest[a].match)
        BY <2>6, <3>3 DEF Entering, OneEventWithLines
      <4> QED
        BY <3>3, <4>1, RequestFields, PicksStay
    <3>4. ~F!Restart /\ ~F!RequestFails(a)
          /\ ~\E m \in Matches, score \in Scores : EnterResult(a, m, score)
      BY <2>6, <3>1 DEF F!Restart, F!RequestFails, EnterResult, F!EnterResult, F!NoRequest
    <3> QED
      BY <1>2, <3>1, <3>2, <3>3, <3>4 DEF ResultStep, F!HandlePickLocked, F!CommitProjection
  <2> QED
    BY <2>3, <2>4, <2>5, <2>6 DEF OneEventWithLines
<1> QED
  BY <1>1, <1>2

LEMMA ResultFacts == Spec => [](ReadUnsettled /\ FirstProjection)
<1>1. Init => ReadUnsettled /\ FirstProjection
  BY DEF Init, F!Init, F!NoRequest, F!NoHandling, ReadUnsettled, FirstProjection, HasPicks,
     Entering
<1>2. FP!TypeOK /\ ReadUnsettled /\ FirstProjection /\ [Next]_vars
      => ReadUnsettled' /\ FirstProjection'
  BY ResultSteps, NextReadUnsettled, NextFirstProjection
<1> QED
  BY <1>1, <1>2, FixtureFacts, PTL DEF Spec

\* When one administrator at a time enters results, no two entries of the journal
\* charge the same player for the same match, however many groups the player is in,
\* whatever fails or is delivered again, and even if a match is settled twice.
THEOREM OneStakeForAPlayer ==
    ASSUME \A a, b \in FixtureAdmins : a = b
    PROVE  Spec => []OneStakePerMatch
<1>1. Init => OneEventWithLines
  BY DEF Init, F!Init, F!NoRequest, OneEventWithLines, Entering
<1>2. /\ PredictionMessages /\ FP!TypeOK /\ ReadUnsettled /\ FirstProjection
      /\ OneEventWithLines /\ [Next]_vars
      => OneEventWithLines'
  BY FixtureSteps, NextRowsStay, ResultSteps, NextOneEvent
<1>3. Spec => []LP!KeysUnique
  BY LedgerBehaviour, LP!NoDoublePosting, LedgerConstants, PTL
<1>4. OneEventWithLines /\ LP!KeysUnique /\ ChargesHaveLines => OneStakePerMatch
  <2> SUFFICES ASSUME OneEventWithLines, LP!KeysUnique, ChargesHaveLines,
                      NEW x \in journal, NEW y \in journal, x.key[3] = y.key[3],
                      outbox[x.key[2].row].match = outbox[y.key[2].row].match
               PROVE  x.key = y.key
    BY DEF OneStakePerMatch, LP!KeysUnique
  <2>1. PICK i \in DOMAIN outbox :
           HasLines(i) /\ \E u : x.key = <<"settle", SettledMessage(i), u>>
    BY DEF ChargesHaveLines, HasLines
  <2>2. PICK j \in DOMAIN outbox :
           HasLines(j) /\ \E u : y.key = <<"settle", SettledMessage(j), u>>
    BY DEF ChargesHaveLines, HasLines
  <2>3. x.key[2].row = i /\ y.key[2].row = j
    BY <2>1, <2>2 DEF SettledMessage
  <2>4. i = j
    BY <2>1, <2>2, <2>3 DEF OneEventWithLines
  <2> QED
    BY <2>1, <2>2, <2>4
<1> QED
  BY <1>1, <1>2, <1>3, <1>4, ChargeFacts, ResultFacts, PredictionFacts, FixtureFacts,
     PTL DEF Spec

\* A result is on its way only for a match that was LOCKED when it was read.
LateResults ==
    \A a \in FixtureAdmins : Entering(a) =>
        /\ resultRequest[a].seen.status = "LOCKED"
        /\ matches[resultRequest[a].match].status # "SCHEDULED"

\* The consumer is the only one to move a match out of SCHEDULED, so that what it
\* has read as SCHEDULED is.
FreshRead ==
    handling.step = "commit" /\ handling.seen.status = "SCHEDULED" =>
        matches[handling.event.match].status = "SCHEDULED"

\* A match that is settled stays settled.
LEMMA SettledStays ==
    ASSUME FP!TypeOK, ReadUnsettled, FreshRead, ResultStep, NEW m \in Matches,
           matches[m].status = "SETTLED"
    PROVE  matches'[m].status = "SETTLED"
<1>1. CASE F!CommitProjection
  <2>1. handling.step = "commit"
    BY <1>1 DEF F!CommitProjection
  <2> QED
    BY <1>1, <2>1, StatusWritten DEF FreshRead
<1> QED
  BY <1>1, StatusStays, StatusWritten

LEMMA NextLateResults ==
    ASSUME ResultsAfterLock, FP!TypeOK, ReadUnsettled, LateResults, ResultStep
    PROVE  LateResults'
<1> SUFFICES ASSUME NEW a \in FixtureAdmins, Entering(a)'
             PROVE  /\ resultRequest'[a].seen.status = "LOCKED"
                    /\ matches'[resultRequest'[a].match].status # "SCHEDULED"
  BY DEF LateResults
<1>1. ASSUME NEW m \in Matches, NEW score \in Scores, EnterResult(a, m, score)
      PROVE  /\ resultRequest'[a].seen.status = "LOCKED"
             /\ matches'[resultRequest'[a].match].status # "SCHEDULED"
  <2>1. resultRequest \in [FixtureAdmins -> FP!Request]
    BY DEF FP!TypeOK
  <2> QED
    BY <1>1, <2>1 DEF EnterResult, F!EnterResult
<1> QED
  BY <1>1, RequestGoesOn, RequestFields, StatusStays DEF LateResults

LEMMA NextFreshRead ==
    ASSUME FP!TypeOK, ReadUnsettled, LateResults, FreshRead, ResultStep
    PROVE  FreshRead'
<1> SUFFICES ASSUME handling'.step = "commit", handling'.seen.status = "SCHEDULED"
             PROVE  matches'[handling'.event.match].status = "SCHEDULED"
  BY DEF FreshRead
<1>1. CASE \E l \in LockEvents : F!HandlePickLocked(l)
  BY <1>1 DEF F!HandlePickLocked, Contents
<1>2. ASSUME NEW a \in FixtureAdmins, F!CommitResult(a)
      PROVE  matches'[handling'.event.match].status = "SCHEDULED"
  <2>1. handling' = handling
    BY <1>2 DEF F!CommitResult, F!consumer
  <2>2. matches[handling.event.match].status = "SCHEDULED"
    BY <2>1 DEF FreshRead
  <2>3. handling.event.match \in Matches
    BY <2>1, HandlingFields
  <2>4. resultRequest[a].match # handling.event.match
    BY <1>2, <2>2 DEF F!CommitResult, LateResults, Entering
  <2> QED
    BY <1>2, <2>1, <2>2, <2>3, <2>4, StatusWritten
<1>3. ~F!CommitProjection /\ ~F!Restart
  <2>1. F!CommitProjection => handling'.step = "ack"
    BY DEF F!CommitProjection, FP!TypeOK, FP!Handling, FP!NoHandling
  <2> QED
    BY <2>1 DEF F!Restart, F!NoHandling
<1>4. CASE UNCHANGED <<matches, handling>>
  BY <1>4 DEF FreshRead
<1> QED
  BY <1>1, <1>2, <1>3, <1>4 DEF ResultStep, EnterResult, F!EnterResult, F!ReadPicks,
     F!RequestFails, F!consumer

LEMMA LateFacts == ASSUME ResultsAfterLock PROVE Spec => [](LateResults /\ FreshRead)
<1>1. Init => LateResults /\ FreshRead
  BY DEF Init, F!Init, F!NoRequest, F!NoHandling, LateResults, FreshRead, Entering
<1>2. FP!TypeOK /\ ReadUnsettled /\ LateResults /\ FreshRead /\ [Next]_vars
      => LateResults' /\ FreshRead'
  BY ResultSteps, NextLateResults, NextFreshRead
<1> QED
  BY <1>1, <1>2, ResultFacts, FixtureFacts, PTL DEF Spec

\* When administrators wait for the lock, a match that is settled stays settled:
\* the PickLocked consumer, which reads the status in one statement and writes it
\* in a later one, never takes a result back.
THEOREM SettledStaysSettled == ASSUME ResultsAfterLock PROVE Spec => F!SettledIsFinal
<1>1. FP!TypeOK /\ ReadUnsettled /\ FreshRead /\ [Next]_vars
      => [\A m \in Matches :
             matches[m].status = "SETTLED" => matches'[m].status = "SETTLED"]_F!vars
  BY ResultSteps, SettledStays
<1> QED
  BY <1>1, LateFacts, ResultFacts, FixtureFacts, PTL DEF Spec, F!SettledIsFinal

\* A match has an event only once it is settled, and then one; while a result is on
\* its way the match is not settled.
OneResultInv ==
    /\ F!OneEventPerMatch
    /\ \A i \in DOMAIN outbox : matches[outbox[i].match].status = "SETTLED"
    /\ \A a \in FixtureAdmins : Entering(a) => matches[resultRequest[a].match].status # "SETTLED"

LEMMA NextOneResult ==
    ASSUME \A a, b \in FixtureAdmins : a = b,
           FP!TypeOK, ReadUnsettled, FreshRead, OneResultInv, RowsStay, ResultStep
    PROVE  OneResultInv'
<1>1. /\ outbox \in Seq(FP!OutboxRow) /\ resultRequest \in [FixtureAdmins -> FP!Request]
      /\ \A i \in DOMAIN outbox : outbox[i].match \in Matches
  BY RowMatches DEF FP!TypeOK
<1> DEFINE OldRows == DOMAIN outbox' = DOMAIN outbox
           Settled(m) == matches[m].status = "SETTLED"
           Unsettled(a) == Entering(a) => ~Settled(resultRequest[a].match)
<1>2. OldRows => F!OneEventPerMatch' /\ \A i \in DOMAIN outbox' : Settled(outbox[i].match)'
  BY <1>1, SettledStays DEF RowsStay, OneResultInv, F!OneEventPerMatch
<1>3. ASSUME NEW a \in FixtureAdmins, F!CommitResult(a) PROVE OneResultInv'
  <2>1. Entering(a) /\ resultRequest[a].match \in Matches
    BY <1>3, RequestFields DEF F!CommitResult, Entering
  <2>2. PICK row : outbox' = Append(outbox, row) /\ row.match = resultRequest[a].match
    BY <1>3 DEF F!CommitResult
  <2>3. \A i \in DOMAIN outbox : outbox[i].match # row.match
    BY <2>1, <2>2 DEF OneResultInv
  <2>4. /\ DOMAIN outbox' = DOMAIN outbox \cup {Len(outbox) + 1}
        /\ outbox'[Len(outbox) + 1] = row
        /\ \A i \in DOMAIN outbox : outbox'[i] = outbox[i]
    BY <1>1, <2>2
  <2>5. F!OneEventPerMatch'
    BY <2>3, <2>4 DEF F!OneEventPerMatch, OneResultInv
  <2>6. \A i \in DOMAIN outbox' : Settled(outbox[i].match)'
    BY <1>1, <1>3, <2>1, <2>2, <2>4, StatusWritten DEF OneResultInv
  <2>7. \A b \in FixtureAdmins : Unsettled(b)'
    BY <1>1, <1>3 DEF F!CommitResult, F!NoRequest, Entering
  <2> QED
    BY <2>5, <2>6, <2>7 DEF OneResultInv
<1>4. ASSUME UNCHANGED matches, \A a \in FixtureAdmins : Unsettled(a)', OldRows
      PROVE  OneResultInv'
  BY <1>2, <1>4 DEF OneResultInv
<1>5. ASSUME NEW a \in FixtureAdmins,
             \/ \E m \in Matches, score \in Scores : EnterResult(a, m, score)
             \/ F!ReadPicks(a) \/ F!RequestFails(a)
      PROVE  OneResultInv'
  <2>1. \A b \in FixtureAdmins : b = a
    OBVIOUS
  <2>2. Unsettled(a)'
    <3>1. CASE \E m \in Matches, score \in Scores : EnterResult(a, m, score)
      BY <1>1, <3>1 DEF EnterResult, F!EnterResult, Entering
    <3>2. CASE F!ReadPicks(a)
      BY <1>1, <3>2 DEF F!ReadPicks, OneResultInv, Entering
    <3>3. CASE F!RequestFails(a)
      BY <1>1, <3>3 DEF F!RequestFails, F!NoRequest, Entering
    <3> QED
      BY <1>5, <3>1, <3>2, <3>3
  <2>3. UNCHANGED <<matches, outbox>>
    BY <1>5 DEF EnterResult, F!EnterResult, F!ReadPicks, F!RequestFails
  <2> QED
    BY <1>4, <2>1, <2>2, <2>3
<1>6. CASE F!CommitProjection
  <2>1. UNCHANGED <<resultRequest, outbox>>
    BY <1>6 DEF F!CommitProjection
  <2>2. \A a \in FixtureAdmins : Unsettled(a)'
    BY <1>6, <2>1, RequestFields, StatusWritten DEF OneResultInv, Entering
  <2> QED
    BY <1>2, <2>1, <2>2 DEF OneResultInv
<1>7. CASE F!Restart
  BY <1>4, <1>7 DEF F!Restart, F!NoRequest, Entering
<1>8. CASE UNCHANGED <<matches, resultRequest>> /\ OldRows
  BY <1>4, <1>8 DEF OneResultInv, Entering
<1> QED
  BY <1>3, <1>5, <1>6, <1>7, <1>8 DEF ResultStep, F!HandlePickLocked

\* When one administrator at a time enters results, and waits for the lock, a match
\* gets one result: there is one MatchSettled event of it.
THEOREM OneResultForAMatch ==
    ASSUME ResultsAfterLock, \A a, b \in FixtureAdmins : a = b
    PROVE  Spec => []F!OneEventPerMatch
<1>1. Init => OneResultInv
  BY DEF Init, F!Init, F!NoRequest, F!OneEventPerMatch, OneResultInv, Entering
<1>2. /\ PredictionMessages /\ FP!TypeOK /\ ReadUnsettled /\ FreshRead /\ OneResultInv
      /\ [Next]_vars
      => OneResultInv'
  BY FixtureSteps, NextRowsStay, ResultSteps, NextOneResult
<1>3. OneResultInv => F!OneEventPerMatch
  BY DEF OneResultInv
<1> QED
  BY <1>1, <1>2, <1>3, LateFacts, ResultFacts, PredictionFacts, FixtureFacts, PTL DEF Spec

-----------------------------------------------------------------------------
(***************************************************************************)
(* The common pool.  What a player owes for a match is a sum over the      *)
(* journal; it is one stake or nothing, since at most one entry charges    *)
(* the player for the match.                                               *)
(***************************************************************************)
LEMMA SameFinite == \A S : IsFiniteSet(S) <=> LP!IsFiniteSet(S)
  BY DEF IsFiniteSet, LP!IsFiniteSet

\* x charges player v one stake.
ChargesOne(x, v) ==
    L!LinesOf(x.lines) =
       << [owner |-> v, amount |-> Stake, direction |-> "DEBIT"],
          [owner |-> "POOL", amount |-> Stake, direction |-> "CREDIT"] >>

\* So it takes a stake from v, and nothing from anyone else.
LEMMA ChargeIsDebited ==
    ASSUME NEW x, NEW v \in Users, ChargesOne(x, v), NEW u \in Users
    PROVE  Debited(x, u) = IF u = v THEN Stake ELSE 0
<1> DEFINE S == {i \in DOMAIN x.lines : x.lines[i].account.owner = u}
           Taken == [i \in DOMAIN x.lines |-> -L!Signed(x.lines[i])]
           Eq(g) == g = [s \in SUBSET S |->
                            IF s = {} THEN 0
                            ELSE -L!Signed(x.lines[CHOOSE i \in s : TRUE])
                                   + g[s \ {CHOOSE i \in s : TRUE}]]
<1>1. /\ DOMAIN x.lines = 1..2
      /\ x.lines[1].account.owner = v /\ x.lines[1].amount = Stake
      /\ x.lines[1].direction = "DEBIT" /\ x.lines[2].account.owner = "POOL"
  <2>1. DOMAIN L!LinesOf(x.lines) = DOMAIN x.lines
    BY DEF L!LinesOf
  <2>2. DOMAIN L!LinesOf(x.lines) = 1..2
    BY DEF ChargesOne
  <2>3. /\ L!LinesOf(x.lines)[1] = L!LineOf(x.lines[1])
        /\ L!LinesOf(x.lines)[2] = L!LineOf(x.lines[2])
    BY <2>1, <2>2 DEF L!LinesOf
  <2>4. /\ L!LineOf(x.lines[1]) = [owner |-> v, amount |-> Stake, direction |-> "DEBIT"]
        /\ L!LineOf(x.lines[2]) = [owner |-> "POOL", amount |-> Stake, direction |-> "CREDIT"]
    BY <2>3 DEF ChargesOne
  <2> QED
    BY <2>1, <2>2, <2>4 DEF L!LineOf
<1>2. S = IF u = v THEN {1} ELSE {}
  <2>1. u # "POOL"
    BY SagaAssumption DEF L!SystemOwners
  <2> QED
    BY <1>1, <2>1
<1>3. Taken[1] = Stake /\ Stake \in Int
  BY <1>1, SagaAssumption DEF L!Signed
<1>4. ASSUME NEW g PROVE LP!IsSum(g, Taken, S) <=> Eq(g)
  <2>1. ASSUME NEW s \in SUBSET S, s # {}
        PROVE  Taken[LP!First(s)] + g[s \ {LP!First(s)}]
                 = -L!Signed(x.lines[CHOOSE i \in s : TRUE]) + g[s \ {CHOOSE i \in s : TRUE}]
    <3>1. LP!First(s) \in DOMAIN x.lines
      BY <2>1 DEF LP!First
    <3>2. Taken[LP!First(s)] = -L!Signed(x.lines[LP!First(s)])
      BY <3>1
    <3> QED
      BY <3>2 DEF LP!First
  <2>2. [s \in SUBSET S |-> IF s = {} THEN 0 ELSE Taken[LP!First(s)] + g[s \ {LP!First(s)}]]
          = [s \in SUBSET S |->
               IF s = {} THEN 0
               ELSE -L!Signed(x.lines[CHOOSE i \in s : TRUE]) + g[s \ {CHOOSE i \in s : TRUE}]]
    BY <2>1
  <2> QED
    BY <2>2 DEF LP!IsSum
<1>5. Debited(x, u) = (CHOOSE g : Eq(g))[S]
  BY DEF Debited, SetsExt!MapThenSumSet, SetsExt!MapThenFoldSet
<1>6. LP!IsFiniteSet(S)
  <2>1. IsFiniteSet({}) /\ IsFiniteSet({1})
    BY FS_EmptySet, FS_Singleton
  <2> HIDE DEF S
  <2> QED
    BY <1>2, <2>1, SameFinite
<1>7. LP!SumOver(Taken, S) = IF u = v THEN Stake ELSE 0
  <2> HIDE DEF Taken, S
  <2> QED
    BY <1>2, <1>3, LP!SumOfNone, LP!SumSingle, LedgerConstants
<1>8. LP!IsSum(CHOOSE g : Eq(g), Taken, S)
  <2> HIDE DEF Eq, Taken, S
  <2>1. \E g : Eq(g)
    BY <1>4, <1>6, LP!SumExists, LedgerConstants
  <2> QED
    BY <1>4, <2>1
<1> HIDE DEF Eq, Taken, S
<1>9. LP!SumOver(Taken, S) = (CHOOSE g : Eq(g))[S]
  BY <1>6, <1>8, LP!SumIs, LedgerConstants
<1> QED
  BY <1>5, <1>7, <1>9

MatchOf(x) == outbox[x.key[2].row].match

\* An entry for a match charges player u.
Paid(m, u) == \E x \in journal : MatchOf(x) = m /\ x.key[3] = u

\* What an entry of the journal charges, to whom and for what.
LEMMA ChargeFields ==
    ASSUME FP!TypeOK, ChargesAreAnnounced, ChargesHaveLines, NEW x \in journal
    PROVE  /\ x.key[2].row \in DOMAIN outbox /\ MatchOf(x) \in Matches
           /\ x.key[3] \in Users /\ ChargesOne(x, x.key[3])
           /\ \E event \in announced : \E pick \in event.picks :
                 /\ event.match = MatchOf(x) /\ pick.user = x.key[3]
                 /\ pick.predicted # outbox[x.key[2].row].result.outcome
<1>1. PICK i \in DOMAIN outbox : \E s \in outbox[i].settlements :
         x.key = <<"settle", SettledMessage(i), s.user>>
  BY DEF ChargesHaveLines
<1>2. PICK s \in outbox[i].settlements : x.key = <<"settle", SettledMessage(i), s.user>>
  BY <1>1
<1>3. s.user \in Users
  <2>1. outbox[i] \in FP!OutboxRow
    BY DEF FP!TypeOK
  <2> QED
    BY <2>1 DEF FP!OutboxRow, FP!Settlement
<1>4. PICK j \in DOMAIN outbox, event \in announced : \E pick \in event.picks :
         /\ x.key = <<"settle", SettledMessage(j), pick.user>>
         /\ event.match = outbox[j].match
         /\ pick.predicted # outbox[j].result.outcome
         /\ ChargesOne(x, pick.user)
  BY DEF ChargesAreAnnounced, ChargesOne
<1>5. x.key[2].row = i /\ x.key[2].row = j
  BY <1>2, <1>4 DEF SettledMessage
<1> QED
  BY <1>2, <1>3, <1>4, <1>5, RowMatches DEF MatchOf

\* Player u owes a stake for match m if an entry charges it, and else nothing.
OwedInv ==
    \A m \in Matches, u \in Users : Owed(m, u) = IF Paid(m, u) THEN Stake ELSE 0

\* The sum has at most one term that is not zero.
LEMMA OwedIsOneStake ==
    ASSUME FP!TypeOK, ChargesAreAnnounced, ChargesHaveLines, OneStakePerMatch,
           IsFiniteSet(journal)
    PROVE  OwedInv
<1> SUFFICES ASSUME NEW m \in Matches, NEW u \in Users
             PROVE  Owed(m, u) = IF Paid(m, u) THEN Stake ELSE 0
  BY DEF OwedInv
<1> DEFINE S == {x \in journal : outbox[x.key[2].row].match = m}
           Taken == [x \in journal |-> Debited(x, u)]
           Eq(g) == g = [s \in SUBSET S |->
                            IF s = {} THEN 0
                            ELSE Debited(CHOOSE x \in s : TRUE, u)
                                   + g[s \ {CHOOSE x \in s : TRUE}]]
<1>1. \A x \in S : Taken[x] = IF u = x.key[3] THEN Stake ELSE 0
  BY ChargeFields, ChargeIsDebited
<1>2. Stake \in Int /\ LP!IsFiniteSet(S)
  <2>1. S \in SUBSET journal
    OBVIOUS
  <2>2. IsFiniteSet(S)
    BY <2>1, FS_Subset
  <2> QED
    BY <2>2, SagaAssumption, SameFinite
<1>3. ASSUME NEW g PROVE LP!IsSum(g, Taken, S) <=> Eq(g)
  <2>1. ASSUME NEW s \in SUBSET S, s # {}
        PROVE  Taken[LP!First(s)] + g[s \ {LP!First(s)}]
                 = Debited(CHOOSE x \in s : TRUE, u) + g[s \ {CHOOSE x \in s : TRUE}]
    <3>1. LP!First(s) \in journal
      BY <2>1 DEF LP!First
    <3>2. Taken[LP!First(s)] = Debited(LP!First(s), u)
      BY <3>1
    <3> QED
      BY <3>2 DEF LP!First
  <2>2. [s \in SUBSET S |-> IF s = {} THEN 0 ELSE Taken[LP!First(s)] + g[s \ {LP!First(s)}]]
          = [s \in SUBSET S |->
               IF s = {} THEN 0
               ELSE Debited(CHOOSE x \in s : TRUE, u) + g[s \ {CHOOSE x \in s : TRUE}]]
    BY <2>1
  <2> QED
    BY <2>2 DEF LP!IsSum
<1>4. Owed(m, u) = (CHOOSE g : Eq(g))[S]
  BY DEF Owed, SetsExt!MapThenSumSet, SetsExt!MapThenFoldSet
<1>5. ASSUME Paid(m, u) PROVE LP!SumOver(Taken, S) = Stake
  <2>1. PICK x \in S : x.key[3] = u
    BY <1>5 DEF Paid, MatchOf
  <2>2. Taken[x] = Stake /\ \A y \in S \ {x} : Taken[y] = 0
    BY <1>1, <2>1 DEF OneStakePerMatch
  <2> HIDE DEF Taken, S
  <2> QED
    BY <1>2, <2>1, <2>2, LP!SumOne, LedgerConstants
<1>6. ASSUME ~Paid(m, u) PROVE LP!SumOver(Taken, S) = 0
  <2>1. \A x \in S : Taken[x] = 0
    BY <1>1, <1>6 DEF Paid, MatchOf
  <2> HIDE DEF Taken, S
  <2> QED
    BY <1>2, <2>1, LP!SumZero, LedgerConstants
<1>7. LP!IsSum(CHOOSE g : Eq(g), Taken, S)
  <2> HIDE DEF Eq, Taken, S
  <2>1. \E g : Eq(g)
    BY <1>2, <1>3, LP!SumExists, LedgerConstants
  <2> QED
    BY <1>3, <2>1
<1> HIDE DEF Eq, Taken, S
<1>8. LP!SumOver(Taken, S) = (CHOOSE g : Eq(g))[S]
  BY <1>2, <1>7, LP!SumIs, LedgerConstants
<1> QED
  BY <1>4, <1>5, <1>6, <1>8

-----------------------------------------------------------------------------
(***************************************************************************)
(* The outcome of a match.                                                 *)
(***************************************************************************)
\* A match that shows an outcome is settled, and it is the one of its event; a
\* result is entered for a match that showed none.
OutcomeInv ==
    /\ \A m \in Matches : matches[m].outcome # Null => matches[m].status = "SETTLED"
    /\ \A i \in DOMAIN outbox : matches[outbox[i].match].outcome = outbox[i].result.outcome
    /\ \A a \in FixtureAdmins : Entering(a) => resultRequest[a].seen.outcome = Null

\* What the steps write into the outcome of a match, given what they have read of it.
LEMMA OutcomeWritten ==
    ASSUME FP!TypeOK, OutcomeInv, NEW m \in Matches
    PROVE  /\ F!CommitProjection => matches'[m].outcome = matches[m].outcome
           /\ \A a \in FixtureAdmins : F!CommitResult(a) =>
                 /\ resultRequest[a].match \in Matches
                 /\ resultRequest[a].result.outcome \in F!Outcomes
                 /\ matches'[m].outcome =
                     IF resultRequest[a].match = m THEN resultRequest[a].result.outcome
                     ELSE matches[m].outcome
<1>1. matches \in [Matches -> FP!MatchRow]
  BY DEF FP!TypeOK
<1>2. ASSUME F!CommitProjection PROVE matches'[m].outcome = matches[m].outcome
  <2> DEFINE l == handling.event
             new == [handling.seen EXCEPT !.status = "LOCKED"]
  <2>1. handling \in FP!Handling /\ handling.step = "commit"
    BY <1>2 DEF FP!TypeOK, F!CommitProjection
  <2>2. handling.seen \in FP!MatchRow
    BY <2>1 DEF FP!Handling, FP!NoHandling
  <2>3. Contents[l].match \in Matches
    BY <2>1, HandlingFields
  <2>4. new.outcome = handling.seen.outcome
    BY <2>2 DEF FP!MatchRow
  <2>5. F!Flush(matches[Contents[l].match], handling.seen, new).outcome
           = matches[Contents[l].match].outcome
    BY <1>1, <2>3, <2>4 DEF F!Flush, FP!MatchRow
  <2>6. \/ matches' = matches
        \/ matches' = [matches EXCEPT ![Contents[l].match] = F!Flush(@, handling.seen, new)]
    BY <1>2 DEF F!CommitProjection
  <2> HIDE DEF new
  <2> QED
    BY <1>1, <2>3, <2>5, <2>6
<1>3. ASSUME NEW a \in FixtureAdmins, F!CommitResult(a)
      PROVE  /\ resultRequest[a].match \in Matches
             /\ resultRequest[a].result.outcome \in F!Outcomes
             /\ matches'[m].outcome =
                    IF resultRequest[a].match = m THEN resultRequest[a].result.outcome
                    ELSE matches[m].outcome
  <2> DEFINE r == resultRequest[a]
             new == [status |-> "SETTLED", home |-> r.result.home, away |-> r.result.away,
                     outcome |-> r.result.outcome]
  <2>1. r.step = "commit" /\ Entering(a)
    BY <1>3 DEF F!CommitResult, Entering
  <2>2. r.match \in Matches /\ r.seen.outcome = Null
    BY <2>1, RequestFields DEF OutcomeInv
  <2>3. r.result.outcome \in F!Outcomes
    <3>1. r \in FP!Request
      BY DEF FP!TypeOK
    <3> QED
      BY <2>1, <3>1 DEF FP!Request, FP!NoRequest, FP!Result, FP!Outcomes, F!Outcomes
  <2>4. matches' = [matches EXCEPT ![r.match] = F!Flush(@, r.seen, new)]
    BY <1>3 DEF F!CommitResult
  <2>5. F!Flush(matches[r.match], r.seen, new).outcome = r.result.outcome
    <3>1. r.result.outcome # Null
      BY <2>3, SagaAssumption
    <3> QED
      BY <1>1, <2>2, <3>1 DEF F!Flush, FP!MatchRow
  <2> HIDE DEF r, new
  <2> QED
    BY <1>1, <2>2, <2>3, <2>4, <2>5 DEF r
<1> QED
  BY <1>2, <1>3

\* A result is entered for a match without an event, and its event is its first.
LEMMA NextOutcome ==
    ASSUME FP!TypeOK, ReadUnsettled, FreshRead, OneResultInv, OutcomeInv, RowsStay, ResultStep
    PROVE  OutcomeInv'
<1>1. /\ outbox \in Seq(FP!OutboxRow) /\ resultRequest \in [FixtureAdmins -> FP!Request]
      /\ \A i \in DOMAIN outbox : outbox[i].match \in Matches
  BY RowMatches DEF FP!TypeOK
<1>2. ASSUME NEW m \in Matches, matches'[m].outcome # Null
      PROVE  matches'[m].status = "SETTLED"
  <2>1. CASE matches[m].outcome # Null
    BY <2>1, SettledStays DEF OutcomeInv
  <2>2. CASE matches[m].outcome = Null
    BY <1>2, <2>2, StatusStays, StatusWritten, OutcomeWritten
  <2> QED
    BY <2>1, <2>2
<1>3. ASSUME NEW i \in DOMAIN outbox'
      PROVE  matches'[outbox'[i].match].outcome = outbox'[i].result.outcome
  <2>1. ASSUME NEW a \in FixtureAdmins, F!CommitResult(a)
        PROVE  matches'[outbox'[i].match].outcome = outbox'[i].result.outcome
    <3>1. Entering(a) /\ resultRequest[a].match \in Matches
      BY <2>1, RequestFields DEF F!CommitResult, Entering
    <3>2. PICK row : /\ outbox' = Append(outbox, row)
                     /\ row.match = resultRequest[a].match /\ row.result = resultRequest[a].result
      BY <2>1 DEF F!CommitResult
    <3>3. CASE i \in DOMAIN outbox
      <4>1. outbox[i].match # resultRequest[a].match
        BY <3>1, <3>3 DEF OneResultInv
      <4> QED
        BY <1>1, <2>1, <3>2, <3>3, <4>1, OutcomeWritten DEF OutcomeInv
    <3>4. CASE i \notin DOMAIN outbox
      <4>1. outbox'[i] = row
        BY <1>1, <3>2, <3>4
      <4> QED
        BY <2>1, <3>1, <3>2, <4>1, OutcomeWritten
    <3> QED
      BY <3>3, <3>4
  <2>2. ASSUME ~\E a \in FixtureAdmins : F!CommitResult(a)
        PROVE  matches'[outbox'[i].match].outcome = outbox'[i].result.outcome
    <3>1. DOMAIN outbox' = DOMAIN outbox
      BY <2>2 DEF ResultStep, EnterResult, F!EnterResult, F!ReadPicks, F!RequestFails,
         F!HandlePickLocked, F!CommitProjection, F!Restart
    <3>2. PICK m \in Matches : m = outbox[i].match /\ m = outbox'[i].match
      BY <1>1, <3>1 DEF RowsStay
    <3>3. matches'[m].outcome = matches[m].outcome
      BY <2>2, StatusStays, OutcomeWritten
    <3> QED
      BY <3>1, <3>2, <3>3 DEF RowsStay, OutcomeInv
  <2> QED
    BY <2>1, <2>2
<1>4. ASSUME NEW a \in FixtureAdmins, Entering(a)'
      PROVE  resultRequest'[a].seen.outcome = Null
  <2>1. ASSUME NEW m \in Matches, NEW score \in Scores, EnterResult(a, m, score)
        PROVE  resultRequest'[a].seen.outcome = Null
    BY <1>1, <2>1 DEF EnterResult, F!EnterResult, OutcomeInv
  <2> QED
    BY <1>4, <2>1, RequestGoesOn DEF OutcomeInv
<1> QED
  BY <1>2, <1>3, <1>4 DEF OutcomeInv

LEMMA OutcomeFacts ==
    ASSUME ResultsAfterLock, \A a, b \in FixtureAdmins : a = b
    PROVE  Spec => [](OneResultInv /\ OutcomeInv)
<1>1. Init => OneResultInv /\ OutcomeInv
  BY DEF Init, F!Init, F!NoRequest, F!OneEventPerMatch, OneResultInv, OutcomeInv, Entering
<1>2. /\ PredictionMessages /\ FP!TypeOK /\ ReadUnsettled /\ FreshRead /\ OneResultInv
      /\ OutcomeInv /\ [Next]_vars
      => OneResultInv' /\ OutcomeInv'
  BY FixtureSteps, NextRowsStay, ResultSteps, NextOneResult, NextOutcome
<1> QED
  BY <1>1, <1>2, LateFacts, ResultFacts, PredictionFacts, FixtureFacts, PTL DEF Spec

-----------------------------------------------------------------------------
(***************************************************************************)
(* The steps of the whole, as the pool sees them.                          *)
(***************************************************************************)
\* Prediction announces more.
Announces ==
    /\ announced \subseteq announced'
    /\ UNCHANGED <<matches, outbox, journal>>

\* Whatever else happens, to Fixture's tables too.
Records == UNCHANGED <<announced, journal>>

\* The ledger commits an entry.
Charges ==
    /\ \E x : x \notin journal /\ journal' = journal \cup {x}
    /\ UNCHANGED <<announced, matches, outbox>>

\* A step of the ledger leaves the journal alone or commits one entry.
LEMMA JournalGrows ==
    [L!Next]_L!vars => journal' = journal \/ \E x : x \notin journal /\ journal' = journal \cup {x}
<1> SUFFICES ASSUME [L!Next]_L!vars, journal' # journal
             PROVE  \E x : x \notin journal /\ journal' = journal \cup {x}
  OBVIOUS
<1>1. ASSUME NEW w, L!Persist(w)
      PROVE  \E x : x \notin journal /\ journal' = journal \cup {x}
  <2>1. PICK x : journal' = journal \cup {x}
    BY <1>1 DEF L!Persist
  <2>2. x \notin journal
    BY <2>1
  <2> QED
    BY <2>1, <2>2
<1>2. ASSUME NEW w, L!Commit(w) \/ L!CommitAnswerLost(w)
      PROVE  L!Persist(w)
  BY <1>2 DEF L!Commit, L!CommitAnswerLost
<1>3. ASSUME NEW w, L!WorkerStep(w), ~L!Commit(w) PROVE FALSE
  BY <1>3 DEF L!WorkerStep, L!InsertEntry, L!PostLine, L!OpenAccount, L!DeadlockVictim, L!db
<1>4. ASSUME NEW c \in Consumers, L!ListenerStep(c) PROVE L!Commit(c)
  BY <1>3, <1>4 DEF L!ListenerStep, L!SettleLosingPick, L!Ack, L!db
<1>5. ~(\E e \in SettledEvents : L!Publish(e)) /\ ~L!Restart /\ ~UNCHANGED L!vars
  BY DEF L!Publish, L!Restart, L!vars, L!db
<1>6. ASSUME NEW c \in Consumers, \E e \in SettledEvents : L!Deliver(c, e) PROVE FALSE
  BY <1>6 DEF L!Deliver, L!db
<1>7. ASSUME NEW c \in Consumers, L!ConnectionLost(c) PROVE FALSE
  BY <1>7 DEF L!ConnectionLost, L!db
<1>8. ASSUME NEW w, L!StatementFails(w) PROVE FALSE
  BY <1>8 DEF L!StatementFails, L!db
<1> QED
  BY <1>1, <1>2, <1>3, <1>4, <1>5, <1>6, <1>7, <1>8 DEF L!Next

\* Each step of the whole is of one of the three kinds.
LEMMA WholeSteps ==
    ASSUME [Next]_vars, FixtureMessages
    PROVE  Announces \/ Records \/ Charges
<1>1. UNCHANGED fixtureVars => UNCHANGED <<matches, outbox>>
  BY DEF fixtureVars
<1>2. UNCHANGED predictionVars => announced' = announced
  BY DEF predictionVars
<1>3. UNCHANGED ledgerVars => journal' = journal
  BY DEF ledgerVars
<1>4. ASSUME NEW event, announced' = announced \cup {event}, DeliverLock(event)
      PROVE  Announces
  BY <1>1, <1>3, <1>4 DEF DeliverLock, F!PublishLock, Announces
<1>5. CASE LockStep
  <2>1. ASSUME NEW event \in P!Unpublished(Job), PublishPickLocked(event)
        PROVE  Announces
    BY <1>4, <2>1 DEF PublishPickLocked, P!PublishNext
  <2>2. CASE /\ OnlyPrediction
             /\ \/ P!ReadGroups(Job)
                \/ \E g \in Groups : P!ReadMembers(Job, g)
                \/ \E g \in Groups, u \in Users : P!ReadMemberPick(Job, g, u)
                \/ P!CommitLocks(Job)
                \/ P!LockConflicts(Job)
                \/ P!MarkLocked(Job)
    BY <1>1, <1>3, <2>2 DEF OnlyPrediction, P!ReadGroups, P!ReadMembers, P!ReadMemberPick,
       P!CommitLocks, P!LockConflicts, P!MarkLocked, Announces
  <2> QED
    BY <1>5, <2>1, <2>2 DEF LockStep
<1>6. CASE PredictionFails
  <2>1. ASSUME NEW event \in P!Unpublished(Job), PickLockedConfirmLost(event)
        PROVE  Announces
    BY <1>4, <2>1 DEF PickLockedConfirmLost, P!ConfirmLost
  <2>2. CASE OnlyPrediction /\ (P!LockFails(Job) \/ P!CommitAnswerLost(Job) \/ P!Restart)
    BY <1>1, <1>3, <2>2 DEF OnlyPrediction, P!LockFails, P!CommitAnswerLost, P!Restart,
       Announces
  <2> QED
    BY <1>6, <2>1, <2>2 DEF PredictionFails
<1>7. CASE FixtureSync \/ PlayerStep \/ LockJob
  BY <1>1, <1>3, <1>7 DEF FixtureSync, PlayerStep, LockJob, OnlyPrediction, P!SyncMatchRef,
     P!CreateGroup, P!JoinGroup, P!Tick, P!SubmitPick, P!RequestStep, P!CheckWindow,
     P!ReadPick, P!CommitPick, P!JobStep, P!QueryDue, P!LockMatch, Announces
<1>8. CASE OutboxStep
  BY <1>2, <1>3, <1>8 DEF OutboxStep, OnlyFixture, PublishMatchSettled, L!Publish, L!db, Records
<1>9. CASE ProjectionStep \/ FixtureFails
  BY <1>2, <1>3, <1>9 DEF ProjectionStep, FixtureFails, OnlyFixture, Records
<1>10. CASE \E a \in FixtureAdmins :
               \/ \E m \in Matches, score \in Scores : EnterResult(a, m, score)
               \/ SettleStep(a)
  BY <1>2, <1>3, <1>10 DEF EnterResult, SettleStep, OnlyFixture, Records
<1>11. CASE LedgerFails \/ \E c \in Consumers :
                ListenerStep(c) \/ \E e \in SettledEvents : Deliver(c, e)
  <2>1. UNCHANGED <<announced, matches, outbox>>
    BY <1>1, <1>2, <1>11 DEF LedgerFails, ListenerStep, Deliver
  <2>2. journal' = journal \/ \E x : x \notin journal /\ journal' = journal \cup {x}
    BY LedgerSteps, JournalGrows
  <2> QED
    BY <2>1, <2>2 DEF Records, Charges
<1>12. CASE \E s \in B!Services : Declare(s)
  BY <1>2, <1>3, <1>12 DEF Declare, OnlyBroker, Records
<1>13. CASE UNCHANGED vars
  BY <1>2, <1>3, <1>13 DEF vars, Records
<1> QED
  BY <1>5, <1>6, <1>7, <1>8, <1>9, <1>10, <1>11, <1>12, <1>13 DEF Next, Failure

Results == [m \in Matches |-> matches[m].outcome]
Debts == [m \in Matches |-> [u \in Users |-> Owed(m, u)]]

\* The debts in terms of the entries that charge them.
PaidDebts == [m \in Matches |-> [u \in Users |-> IF Paid(m, u) THEN Stake ELSE 0]]

LEMMA DebtsArePaid == OwedInv => Debts = PaidDebts
  BY DEF OwedInv, Debts, PaidDebts

\* Announced picks are locked picks, and stay announced.
LEMMA PoolAnnounces ==
    ASSUME Debts = PaidDebts, Debts' = PaidDebts', PP!TypeOK', Announces
    PROVE  Pool!Announce
<1>1. AnnouncedPicks \subseteq AnnouncedPicks'
  BY DEF Announces, AnnouncedPicks
<1>2. AnnouncedPicks' \subseteq Pool!LockedPick
  <2>1. ASSUME NEW event \in announced', NEW p \in event.picks
        PROVE  [match |-> event.match, user |-> p.user, predicted |-> p.predicted]
                  \in Pool!LockedPick
    <3>1. event \in PP!PickLocked
      BY DEF PP!TypeOK
    <3>2. /\ event.match \in Matches
          /\ p \in [user : Users, predicted : Predictable \cup {Null}]
      BY <3>1 DEF PP!PickLocked, PP!PayloadLine
    <3> QED
      BY <3>2, SagaAssumption DEF Pool!LockedPick
  <2> QED
    BY <2>1 DEF AnnouncedPicks
<1>3. Results' = Results
  BY DEF Announces, Results
<1>4. PaidDebts' = PaidDebts
  BY DEF Announces, PaidDebts, Paid, MatchOf
<1> QED
  BY <1>1, <1>2, <1>3, <1>4 DEF Pool!Announce, Results, Debts

\* A result that is recorded is the first one of its match; no other step changes an
\* outcome, and no charge is moved to another match.
LEMMA PoolRecords ==
    ASSUME FP!TypeOK, ReadUnsettled, OneResultInv, OutcomeInv, ChargesAreAnnounced,
           ChargesHaveLines, RowsStay, ResultStep, Debts = PaidDebts, Debts' = PaidDebts',
           Records
    PROVE  \/ UNCHANGED <<AnnouncedPicks, Results, Debts>>
           \/ \E m \in Matches, outcome \in F!Outcomes : Pool!Settle(m, outcome)
<1>1. AnnouncedPicks' = AnnouncedPicks
  BY DEF Records, AnnouncedPicks
<1>2. Debts' = Debts
  <2>1. \A x \in journal : MatchOf(x)' = MatchOf(x)
    BY ChargeFields DEF RowsStay, MatchOf
  <2>2. \A m, u : Paid(m, u)' <=> Paid(m, u)
    BY <2>1 DEF Records, Paid
  <2> QED
    BY <2>2 DEF PaidDebts
<1>3. ASSUME NEW a \in FixtureAdmins, F!CommitResult(a)
      PROVE  \E m \in Matches, outcome \in F!Outcomes : Pool!Settle(m, outcome)
  <2>1. Entering(a) /\ resultRequest[a].match \in Matches
    BY <1>3, RequestFields DEF F!CommitResult, Entering
  <2>2. PICK n \in Matches, outcome \in F!Outcomes :
           n = resultRequest[a].match /\ outcome = resultRequest[a].result.outcome
    BY <1>3, <2>1, OutcomeWritten
  <2>3. matches[n].outcome = Null
    BY <2>1, <2>2 DEF OneResultInv, OutcomeInv
  <2>4. \A m \in Matches : matches'[m].outcome = IF m = n THEN outcome ELSE matches[m].outcome
    BY <1>3, <2>2, OutcomeWritten
  <2>5. Results[n] = Null /\ Results' = [Results EXCEPT ![n] = outcome]
    BY <2>3, <2>4 DEF Results
  <2>6. Pool!Settle(n, outcome)
    BY <1>1, <1>2, <2>5 DEF Pool!Settle, Results, Debts
  <2> QED
    BY <2>6
<1>4. ASSUME ~\E a \in FixtureAdmins : F!CommitResult(a) PROVE Results' = Results
  <2>1. \A m \in Matches : matches'[m].outcome = matches[m].outcome
    BY <1>4, StatusStays, OutcomeWritten
  <2> QED
    BY <2>1 DEF Results
<1> QED
  BY <1>1, <1>2, <1>3, <1>4

\* An entry that is committed charges a loser who has not been charged for the match.
LEMMA PoolCharges ==
    ASSUME FP!TypeOK, OutcomeInv, ChargesAreAnnounced, ChargesHaveLines, OneStakePerMatch,
           FP!TypeOK', OutcomeInv', ChargesAreAnnounced', ChargesHaveLines', OneStakePerMatch',
           Debts = PaidDebts, Debts' = PaidDebts', Charges
    PROVE  \E m \in Matches, u \in Users : Pool!Charge(m, u)
<1>1. PICK x : x \notin journal /\ journal' = journal \cup {x}
  BY DEF Charges
<1>2. UNCHANGED <<announced, matches, outbox>>
  BY DEF Charges
<1>0. x \in journal' /\ \A k : SettledMessage(k)' = SettledMessage(k)
  BY <1>1, <1>2 DEF SettledMessage
<1> DEFINE i == x.key[2].row
           m == outbox[i].match
           u == x.key[3]
<1>3. PICK j \in DOMAIN outbox : \E s \in outbox[j].settlements :
         x.key = <<"settle", SettledMessage(j), s.user>>
  BY <1>0, <1>2 DEF ChargesHaveLines
<1>4. PICK s \in outbox[j].settlements : x.key = <<"settle", SettledMessage(j), s.user>>
  BY <1>3
<1>5. i = j /\ i \in DOMAIN outbox
  BY <1>4 DEF SettledMessage
<1>6. m \in Matches /\ u \in Users /\ outbox[i].result.outcome \in F!Outcomes
  <2>1. outbox[i] \in FP!OutboxRow
    BY <1>5 DEF FP!TypeOK
  <2> QED
    BY <1>4, <1>5, <2>1 DEF FP!OutboxRow, FP!Settlement, FP!Result, FP!Outcomes, F!Outcomes
<1>7. matches[m].outcome = outbox[i].result.outcome /\ matches[m].outcome # Null
  BY <1>5, <1>6, SagaAssumption DEF OutcomeInv
<1>8. PICK k \in DOMAIN outbox, event \in announced : \E pick \in event.picks :
         /\ x.key = <<"settle", SettledMessage(k), pick.user>>
         /\ event.match = outbox[k].match
         /\ pick.predicted # outbox[k].result.outcome
  BY <1>0, <1>2 DEF ChargesAreAnnounced
<1>9. PICK pick \in event.picks :
         /\ x.key = <<"settle", SettledMessage(k), pick.user>>
         /\ event.match = outbox[k].match
         /\ pick.predicted # outbox[k].result.outcome
  BY <1>8
<1>10. k = i
  BY <1>9 DEF SettledMessage
<1>11. Pool!Lost(m, u)
  <2> DEFINE locked == [match |-> event.match, user |-> pick.user, predicted |-> pick.predicted]
  <2>1. locked \in AnnouncedPicks
    BY DEF AnnouncedPicks
  <2>2. locked.match = m /\ locked.user = u /\ locked.predicted # matches[m].outcome
    BY <1>7, <1>9, <1>10
  <2> QED
    BY <1>6, <2>1, <2>2 DEF Pool!Lost
<1>13. ~Paid(m, u)
  BY <1>1, <1>2 DEF OneStakePerMatch, Paid, MatchOf
<1>14. \A n, v : Paid(n, v)' <=> Paid(n, v) \/ (n = m /\ v = u)
  BY <1>1, <1>2 DEF Paid, MatchOf
<1> HIDE DEF m, u, i
<1>15. PaidDebts' = [PaidDebts EXCEPT ![m][u] = Stake] /\ PaidDebts[m][u] = 0
  BY <1>6, <1>13, <1>14 DEF PaidDebts
<1>16. Results' = Results /\ Results[m] # Null
  BY <1>2, <1>6, <1>7 DEF Results
<1>17. AnnouncedPicks' = AnnouncedPicks
  BY <1>2 DEF AnnouncedPicks
<1>18. Pool!Charge(m, u)
  BY <1>11, <1>15, <1>16, <1>17 DEF Pool!Charge, Results, Debts
<1> QED
  BY <1>6, <1>18

\* When one administrator at a time enters results, and waits for the lock, the
\* three services implement the common pool: a step of the whole is, in terms of
\* announced picks, results and debts, an announcement, a first result, a stake for
\* a lost pick that was not charged yet, or nothing.
THEOREM CommonPoolImplemented ==
    ASSUME ResultsAfterLock, \A a, b \in FixtureAdmins : a = b
    PROVE  Spec => ImplementsCommonPool
<1> DEFINE Types == PP!TypeOK /\ PredictionMessages /\ FP!TypeOK /\ FixtureMessages
           Charged == ChargesAreAnnounced /\ ChargesHaveLines /\ OneStakePerMatch
           Fixed == ReadUnsettled /\ OneResultInv /\ OutcomeInv
           Inv == Types /\ Charged /\ Fixed /\ OwedInv
           PoolStep == [Pool!Next]_<<AnnouncedPicks, Results, Debts>>
<1>1. Spec => [](Types /\ Charged /\ Fixed)
  BY PredictionFacts, FixtureFacts, ChargeFacts, OneStakeForAPlayer, ResultFacts,
     OutcomeFacts, PTL
<1>2. Spec => []IsFiniteSet(journal)
  <2>1. Spec => [](LP!TypeOK /\ LP!EntryIds)
    BY LedgerFacts, LedgerBehaviour, LP!EntriesAsAsked, LedgerConstants, PTL
  <2>2. LP!TypeOK /\ LP!EntryIds => IsFiniteSet(journal)
    <3> SUFFICES ASSUME LP!TypeOK, LP!EntryIds PROVE IsFiniteSet(journal)
      OBVIOUS
    <3> DEFINE f == [x \in journal |-> x.id]
    <3>1. nextEntry \in Nat /\ \A x \in journal : x.id \in Nat
      BY DEF LP!TypeOK, LP!EntryRow
    <3>2. \A x \in journal : x.id \in 0..nextEntry
      BY <3>1 DEF LP!EntryIds
    <3>3. f \in Injection(journal, 0..nextEntry)
      BY <3>2 DEF LP!EntryIds, Injection, IsInjective
    <3>4. IsFiniteSet(0..nextEntry)
      BY <3>1, FS_Interval
    <3> QED
      BY <3>3, <3>4, FS_Injection
  <2> QED
    BY <2>1, <2>2, PTL
<1>3. Types /\ Charged /\ Fixed /\ IsFiniteSet(journal) => OwedInv
  BY OwedIsOneStake
<1>4. Spec => []Inv
  BY <1>1, <1>2, <1>3, PTL
<1>5. Init /\ Inv => Pool!Init
  <2> SUFFICES ASSUME Init, Inv PROVE Pool!Init
    OBVIOUS
  <2>1. Debts = [m \in Matches |-> [u \in Users |-> 0]]
    <3>1. journal = {}
      BY DEF Init, L!Init
    <3> QED
      BY <3>1, DebtsArePaid DEF PaidDebts, Paid
  <2>2. AnnouncedPicks = {}
    BY DEF Init, P!Init, AnnouncedPicks
  <2>3. Results = [m \in Matches |-> Null]
    BY DEF Init, F!Init, Results
  <2> QED
    BY <2>1, <2>2, <2>3 DEF Pool!Init, Results, Debts
<1>6. OwedInv /\ OwedInv' => Debts = PaidDebts /\ Debts' = PaidDebts'
  BY DEF OwedInv, Debts, PaidDebts
<1>7. Inv /\ Inv' /\ [Next]_vars => PoolStep
  <2> SUFFICES ASSUME Inv, Inv', [Next]_vars PROVE PoolStep
    OBVIOUS
  <2>1. Debts = PaidDebts /\ Debts' = PaidDebts'
    BY <1>6
  <2>2. RowsStay /\ ResultStep
    BY FixtureSteps, NextRowsStay, ResultSteps
  <2>3. CASE Announces
    BY <2>1, <2>3, PoolAnnounces DEF Pool!Next
  <2>4. CASE Records
    BY <2>1, <2>2, <2>4, PoolRecords DEF Pool!Next
  <2>5. CASE Charges
    BY <2>1, <2>5, PoolCharges DEF Pool!Next
  <2> QED
    BY <2>3, <2>4, <2>5, WholeSteps
<1>8. ImplementsCommonPool <=> Pool!Init /\ [][PoolStep]_<<AnnouncedPicks, Results, Debts>>
  BY PTL DEF ImplementsCommonPool, Pool!Spec, Results, Debts
<1> HIDE DEF Inv, PoolStep
<1> QED
  BY <1>4, <1>5, <1>7, <1>8, PTL DEF Spec

=============================================================================
