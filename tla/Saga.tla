-------------------------------- MODULE Saga --------------------------------
(***************************************************************************)
(* The whole system: the three services as their own modules specify them, *)
(* joined by the broker.                                                   *)
(*                                                                         *)
(* Prediction publishes PickLocked events, which Fixture consumes; Fixture *)
(* publishes MatchSettled events, which the ledger consumes.  Publishing   *)
(* is one step of the sender and of the queue it reaches; everything else  *)
(* is one service's step, the others standing still.  The kickoffs that    *)
(* Prediction fetches from Fixture over REST may be any: an administrator  *)
(* of Fixture may have moved them, and the answer may be old.              *)
(***************************************************************************)
EXTENDS Integers, Sequences, FiniteSets

SeqsExt == INSTANCE SequencesExt
SetsExt == INSTANCE FiniteSetsExt

CONSTANTS
    Users, Groups, Matches,
    Predictable,       \* outcomes a player may predict
    Scores,            \* results an administrator may enter
    Stake,             \* the stake of every match
    Null,
    Requests,          \* Prediction's request threads of players
    Job,               \* Prediction's lock job
    FixtureAdmins,     \* Fixture's request threads of administrators
    Consumers,         \* the ledger's listener threads
    NoEvent,
    LockTimes,         \* kickoff times, less the lock offset
    ResultsAfterLock,  \* do administrators wait until Fixture shows a match as LOCKED?
    MaxLong, MaxAttempts,
    MaxClock, MaxCopies, MaxEvents,
    MaxFaults          \* bound: injected failures in one behaviour, of all services

VARIABLES
    \* Prediction
    clock, members, refs, predictions, submission, due, run, announced, predictionFaults,
    \* Fixture
    matches, matchPicks, outbox, resultRequest, lockQueue, lockSent, handling, projected,
    lockDead, outboxJob, confirmed, fixtureFaults,
    \* Ledger
    accounts, journal, nextAccount, nextEntry, tx, job, settledSent, settledQueue, acked,
    settledDead, ledgerFaults,
    \* Broker
    bound, declared, unrouted, deadLetters

predictionVars == <<clock, members, refs, predictions, submission, due, run, announced,
                    predictionFaults>>
fixtureVars == <<matches, matchPicks, outbox, resultRequest, lockQueue, lockSent, handling,
                 projected, lockDead, outboxJob, confirmed, fixtureFaults>>
ledgerVars == <<accounts, journal, nextAccount, nextEntry, tx, job, settledSent,
                settledQueue, acked, settledDead, ledgerFaults>>
brokerVars == <<bound, declared, unrouted, deadLetters>>
vars == <<predictionVars, fixtureVars, ledgerVars, brokerVars>>

-----------------------------------------------------------------------------
(***************************************************************************)
(* The services.                                                           *)
(***************************************************************************)
P == INSTANCE Prediction WITH
        Outcomes <- Predictable, Admins <- {},
        picks <- predictions, request <- submission, faults <- predictionFaults

OneForEachUser(lines) == \A p, q \in lines : p.user = q.user => p = q

\* The picks of a PickLocked event.
PickSets ==
    {ps \in SUBSET [user : Users, predicted : Predictable \cup {Null}, stake : {Stake}] :
        ps # {} /\ OneForEachUser(ps)}

\* PickLocked events as Fixture sees them, known by their contents.
LockEvents == [match : Matches, group : Groups, picks : PickSets]

\* What lock_match puts into the event.
LockMessage(event) ==
    [match |-> event.match, group |-> event.group,
     picks |-> {[user |-> p.user, predicted |-> p.predicted, stake |-> Stake] : p \in event.picks}]

Contents == [l \in LockEvents |-> l]

F == INSTANCE Fixture WITH
        Locks <- LockEvents, Locked <- Contents, Admins <- FixtureAdmins,
        picks <- matchPicks, request <- resultRequest, waiting <- lockQueue,
        sent <- lockSent, dead <- lockDead, worker <- outboxJob, faults <- fixtureFaults

\* The settlement lines of a MatchSettled event.
LineSets ==
    {lines \in SUBSET [user : Users, result : {"WON", "LOST"}, stake : {Stake}] :
        OneForEachUser(lines)}

\* MatchSettled events as the ledger sees them; the outbox row is their event_id.
SettledEvents == [row : 1..MaxEvents, lines : LineSets]

SettledMessage(i) ==
    [row |-> i, lines |-> {[user |-> s.user, result |-> s.result, stake |-> s.stake] :
                              s \in outbox[i].settlements}]

LineSequences == [e \in SettledEvents |-> SeqsExt!SetToSeq(e.lines)]

L == INSTANCE Ledger WITH
        Events <- SettledEvents, Settlements <- LineSequences,
        ManualCommands <- {}, Admins <- {}, MaxEntries <- 0,
        sent <- settledSent, ready <- settledQueue, dead <- settledDead, faults <- ledgerFaults

B == INSTANCE Broker WITH Messages <- LockEvents \cup SettledEvents

ASSUME SagaAssumption ==
    /\ IsFiniteSet(Users) /\ Users \cap L!SystemOwners = {}
    /\ IsFiniteSet(Consumers)
    /\ Predictable \subseteq F!Outcomes
    /\ Null \notin F!Outcomes /\ Null \notin Nat
    /\ Scores \subseteq [home : Nat, away : Nat]
    /\ Stake \in Nat
    /\ NoEvent \notin SettledEvents
    /\ LockTimes \subseteq Nat
    /\ MaxLong \in Nat \ {0} /\ MaxAttempts \in Nat \ {0}
    /\ MaxClock \in Nat /\ MaxCopies \in Nat /\ MaxEvents \in Nat /\ MaxFaults \in Nat

Init ==
    /\ P!Init /\ F!Init /\ L!Init /\ B!Init

-----------------------------------------------------------------------------
\* A step of one part leaves the others alone.
OnlyPrediction == UNCHANGED <<fixtureVars, ledgerVars, brokerVars>>
OnlyFixture == UNCHANGED <<predictionVars, ledgerVars, brokerVars>>
OnlyBroker == UNCHANGED <<predictionVars, fixtureVars, ledgerVars>>

(***************************************************************************)
(* Prediction.                                                             *)
(***************************************************************************)
\* publish_pick_locked: Fixture's queue gets the event if it is bound.
DeliverLock(event) ==
    /\ UNCHANGED <<ledgerVars>>
    /\ B!PublishPickLocked(LockMessage(event))
    /\ IF B!PickLockedQueue \in bound
       THEN F!PublishLock(LockMessage(event))
       ELSE UNCHANGED fixtureVars

PublishPickLocked(event) == P!PublishNext(Job, event) /\ DeliverLock(event)

PickLockedConfirmLost(event) == P!ConfirmLost(Job, event) /\ DeliverLock(event)

LockStep ==
    \/ \E event \in P!Unpublished(Job) : PublishPickLocked(event)
    \/ /\ OnlyPrediction
       /\ \/ P!ReadGroups(Job)
          \/ \E g \in Groups : P!ReadMembers(Job, g)
          \/ \E g \in Groups, u \in Users : P!ReadMemberPick(Job, g, u)
          \/ P!CommitLocks(Job)
          \/ P!LockConflicts(Job)
          \/ P!MarkLocked(Job)

LockJob == OnlyPrediction /\ P!JobStep

\* _fixture_sync_job.
FixtureSync == OnlyPrediction /\ \E lockAt \in [Matches -> LockTimes] : P!SyncMatchRef(lockAt)

\* Players, and the clock.
PlayerStep ==
    /\ OnlyPrediction
    /\ \/ \E g \in Groups, u \in Users : P!CreateGroup(g, u) \/ P!JoinGroup(g, u)
       \/ P!Tick
       \/ \E r \in Requests, u \in Users, g \in Groups, m \in Matches, p \in Predictable :
             P!SubmitPick(r, u, g, m, p)
       \/ \E r \in Requests : P!RequestStep(r)

PredictionFails ==
    \/ \E event \in P!Unpublished(Job) : PickLockedConfirmLost(event)
    \/ OnlyPrediction /\ (P!LockFails(Job) \/ P!CommitAnswerLost(Job) \/ P!Restart)

-----------------------------------------------------------------------------
(***************************************************************************)
(* Fixture.                                                                *)
(***************************************************************************)
EnterResult(a, m, score) ==
    /\ OnlyFixture
    /\ ResultsAfterLock => matches[m].status = "LOCKED"
    /\ F!EnterResult(a, m, score)

SettleStep(a) == OnlyFixture /\ F!SettleStep(a)

\* run_consumer consumes once it has declared the topology.
ProjectionStep ==
    /\ OnlyFixture
    /\ \/ B!Connected("fixture") /\ \E l \in LockEvents : F!HandlePickLocked(l)
       \/ F!CommitProjection
       \/ F!Ack

\* The ledger's queue gets the event if it is bound.
PublishMatchSettled(i) ==
    /\ UNCHANGED predictionVars
    /\ F!PublishNext(i)
    /\ LET message == SettledMessage(i) IN
       /\ B!PublishMatchSettled(message)
       /\ IF B!MatchSettledQueue \in bound THEN L!Publish(message) ELSE UNCHANGED ledgerVars

OutboxStep ==
    \/ \E i \in outboxJob.left : PublishMatchSettled(i)
    \/ OnlyFixture /\ (F!SelectPending \/ F!MarkPublished)

FixtureFails ==
    /\ UNCHANGED <<predictionVars, ledgerVars>>
    /\ \/ (F!PublishFails \/ \E a \in FixtureAdmins : F!RequestFails(a)) /\ UNCHANGED brokerVars
       \/ F!ProjectionFails /\ B!Reject(handling.event)
       \/ (F!AckLost \/ F!Restart) /\ B!Disconnect("fixture")

-----------------------------------------------------------------------------
(***************************************************************************)
(* The ledger.                                                             *)
(***************************************************************************)
\* The container consumes once RabbitAdmin has declared the topology.
Deliver(c, e) ==
    /\ UNCHANGED <<predictionVars, fixtureVars, brokerVars>>
    /\ B!Connected("ledger")
    /\ L!Deliver(c, e)

\* A step that ends a live delivery, acknowledgements and restarts aside, has
\* rejected it.
RejectIfGivenUp(c) ==
    IF job[c].live /\ job'[c] = L!NoJob THEN B!Reject(job[c].event) ELSE UNCHANGED brokerVars

ListenerStep(c) ==
    /\ UNCHANGED <<predictionVars, fixtureVars>>
    /\ \/ L!Ack(c) /\ UNCHANGED brokerVars
       \/ (L!SettleLosingPick(c) \/ L!WorkerStep(c)) /\ RejectIfGivenUp(c)

LedgerFails ==
    /\ UNCHANGED <<predictionVars, fixtureVars>>
    /\ \/ \E c \in Consumers :
             \/ (L!StatementFails(c) \/ L!CommitAnswerLost(c)) /\ RejectIfGivenUp(c)
             \/ L!ConnectionLost(c) /\ B!Disconnect("ledger")
       \/ L!Restart /\ B!Disconnect("ledger")

-----------------------------------------------------------------------------
Declare(s) == OnlyBroker /\ B!Declare(s)

Faults == predictionFaults + fixtureFaults + ledgerFaults

Failure ==
    /\ Faults < MaxFaults
    /\ PredictionFails \/ FixtureFails \/ LedgerFails

Next ==
    \/ FixtureSync
    \/ PlayerStep
    \/ LockJob
    \/ LockStep
    \/ \E a \in FixtureAdmins :
          \/ \E m \in Matches, score \in Scores : EnterResult(a, m, score)
          \/ SettleStep(a)
    \/ ProjectionStep
    \/ OutboxStep
    \/ \E c \in Consumers : ListenerStep(c) \/ \E e \in SettledEvents : Deliver(c, e)
    \/ \E s \in B!Services : Declare(s)
    \/ Failure

Spec == Init /\ [][Next]_vars

(***************************************************************************)
(* The jobs run again every few seconds or minutes, the consumers          *)
(* reconnect and go on, a result that was received is recorded.  Players   *)
(* and administrators are not obliged to anything.                         *)
(***************************************************************************)
Fairness ==
    /\ WF_vars(LockJob \/ LockStep)
    /\ \A a \in FixtureAdmins : WF_vars(SettleStep(a))
    /\ WF_vars(ProjectionStep \/ Declare("fixture"))
    /\ WF_vars(OutboxStep)
    /\ \A c \in Consumers : WF_vars(ListenerStep(c) \/ \E e \in SettledEvents : Deliver(c, e))
    /\ WF_vars(Declare("ledger"))

FairSpec == Spec /\ Fairness

-----------------------------------------------------------------------------
(***************************************************************************)
(* Properties.                                                             *)
(***************************************************************************)
\* Each part stays well-typed in the company of the others: what one service
\* sends is an event as the other one reads it.
TypeOK == P!TypeOK /\ F!TypeOK /\ L!TypeOK /\ B!TypeOK

\* A rejected message is kept for inspection in the dead-letter queue of the
\* service that rejected it, even when the other service, or nobody, has set up
\* its own yet (docs/event-contracts.md: "routed to its DLQ rather than being
\* lost"): consuming starts after the last declaration.
DeadLettersKept ==
    /\ lockDead \subseteq deadLetters["fixture"]
    /\ settledDead \subseteq deadLetters["ledger"]

\* Nobody is charged but for a pick of theirs that Prediction announced and that
\* the published result shows to be lost, and then one stake, paid to the pool:
\* through both queues, the read-model, the outbox, and whatever is delivered
\* twice, replayed or raced on the way (docs/adr/0009: "each losing member is
\* debited their stake").
ChargesAreAnnounced ==
    \A x \in journal :
        \E i \in DOMAIN outbox : \E event \in announced : \E pick \in event.picks :
            /\ x.key = <<"settle", SettledMessage(i), pick.user>>
            /\ event.match = outbox[i].match
            /\ pick.predicted # outbox[i].result.outcome
            /\ L!LinesOf(x.lines) =
                  << [owner |-> pick.user, amount |-> Stake, direction |-> "DEBIT"],
                     [owner |-> "POOL", amount |-> Stake, direction |-> "CREDIT"] >>

\* A player pays at most one stake for a match, in however many groups and however
\* often anything is delivered, as long as one administrator at a time enters
\* results: the ledger knows events, not matches, so that this rests on settle_match
\* and handle_pick_locked checking the status, each against what the other writes.
\* It holds even when the administrator does not wait for the lock and a match is
\* settled twice, since then the first event has no lines.
OneStakePerMatch ==
    \A x, y \in journal :
        /\ x.key[3] = y.key[3]
        /\ outbox[x.key[2].row].match = outbox[y.key[2].row].match
        => x = y

\* Once Prediction has announced a group's picks, Fixture projects them in the
\* end, through failures of either service, unless the message was published
\* before Fixture's queue was bound or was rejected.
PicksGetProjected ==
    []<>(\A event \in announced :
            LockMessage(event) \in projected \cup lockDead \cup unrouted)

EntriesFor(e, u) == {x \in journal : x.key = <<"settle", e, u>>}

\* Once a result is committed, every losing line of it is charged in the end
\* (docs/diagrams/settlement-saga.md: "settlement must eventually succeed"),
\* unless the message was published before the ledger's queue was bound or its
\* attempts were used up.
LosersGetCharged ==
    []<>(\A i \in DOMAIN outbox : \A s \in outbox[i].settlements :
            s.result = "LOST" =>
                \/ EntriesFor(SettledMessage(i), s.user) # {}
                \/ SettledMessage(i) \in unrouted \cup settledDead)

\* docs/adr/0009: "When a match settles, each losing member is debited their
\* stake", even when administrators wait for the lock: each projected pick of a
\* settled match is in an event of the match.
ProjectedPicksAreSettled == F!ProjectedPicksAreSettled

(***************************************************************************)
(* The abstract system.                                                    *)
(***************************************************************************)
AnnouncedPicks ==
    UNION {{[match |-> event.match, user |-> p.user, predicted |-> p.predicted] :
               p \in event.picks} : event \in announced}

Debited(x, u) ==
    SetsExt!MapThenSumSet(LAMBDA i : -L!Signed(x.lines[i]),
        {i \in DOMAIN x.lines : x.lines[i].account.owner = u})

\* Everything the ledger has taken from player u for match m.
Owed(m, u) ==
    SetsExt!MapThenSumSet(LAMBDA x : Debited(x, u),
        {x \in journal : outbox[x.key[2].row].match = m})

Pool == INSTANCE CommonPool WITH
            Outcomes <- F!Outcomes,
            locked <- AnnouncedPicks,
            result <- [m \in Matches |-> matches[m].outcome],
            owed <- [m \in Matches |-> [u \in Users |-> Owed(m, u)]]

\* As long as one administrator at a time enters results, and only for locked
\* matches, the three services with all their threads, redeliveries and failures
\* look like one common pool: one result for a match, one stake for a loser, no
\* charge without a losing pick that was announced.
ImplementsCommonPool == Pool!Spec

=============================================================================
