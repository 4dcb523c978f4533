------------------------------- MODULE Fixture -------------------------------
(***************************************************************************)
(* The fixture service: matches and their results, the match_picks         *)
(* read-model fed by PickLocked events, and the transactional outbox that  *)
(* publishes one MatchSettled event per recorded result.                   *)
(*                                                                         *)
(* Three kinds of threads share the database: administrators entering      *)
(* results, the PickLocked consumer and the outbox job.  A transaction     *)
(* reads before it writes, takes no lock on what it read (the outbox rows  *)
(* excepted), and SQLAlchemy's unit of work writes, when it commits, only  *)
(* the columns whose value differs from the value read.                    *)
(***************************************************************************)
EXTENDS Integers, Sequences, FiniteSets

CONSTANTS
    Matches,
    Users,
    Locks,          \* PickLocked events: event_ids
    Locked,         \* Locked[l]: [match, group, picks], picks a set of
                    \* [user, predicted, stake]
    Scores,         \* results an administrator may enter: [home, away]
    Null,           \* SQL NULL: no prediction, no score yet
    Admins,         \* request threads of administrators
    MaxCopies,      \* bound: publications of one PickLocked event
    MaxFaults,      \* bound: injected failures in one behaviour
    MaxEvents       \* bound: outbox rows

Outcomes == {"HOME", "DRAW", "AWAY"}
Statuses == {"SCHEDULED", "LOCKED", "SETTLED"}

ASSUME FixtureAssumption ==
    /\ Null \notin Outcomes /\ Null \notin Nat
    /\ Scores \subseteq [home : Nat, away : Nat]
    /\ \A l \in Locks :
          /\ Locked[l].match \in Matches
          /\ Locked[l].picks \subseteq
                [user : Users, predicted : Outcomes \cup {Null}, stake : Nat]
          /\ \A p, q \in Locked[l].picks : p.user = q.user => p = q
    /\ MaxCopies \in Nat /\ MaxFaults \in Nat /\ MaxEvents \in Nat

\* app/domain/evaluation.py
OutcomeFromScores(home, away) ==
    IF home > away THEN "HOME" ELSE IF home < away THEN "AWAY" ELSE "DRAW"

\* Defects: an automatic loss is voided; no prediction counts as a draw.
SettlePickVoidingAutoLoss(predicted, outcome) ==
    IF predicted = Null THEN "VOID" ELSE IF predicted = outcome THEN "WON" ELSE "LOST"

SettlePickDefaultDraw(predicted, outcome) ==
    IF predicted = outcome \/ (predicted = Null /\ outcome = "DRAW") THEN "WON" ELSE "LOST"

SettlePick(predicted, outcome) == IF predicted = outcome THEN "WON" ELSE "LOST"

-----------------------------------------------------------------------------
VARIABLES
    matches,     \* table matches: [status, home, away, outcome] of each match
    picks,       \* table match_picks: [match, user, group, predicted, stake, source]
    outbox,      \* table outbox in id order: [match, result, settlements, published]
    request,     \* the settle_match call of each administrator
    waiting,     \* copies of each PickLocked event in fixture.pick-locked
    sent,        \* publications of each PickLocked event
    handling,    \* the PickLocked event the consumer thread works on
    projected,   \* PickLocked events committed at least once
    dead,        \* PickLocked events rejected to the dead-letter exchange
    worker,      \* the outbox job: the rows it has locked, those not yet sent
    confirmed,   \* publications of each outbox row's event the exchange confirmed
    faults

vars == <<matches, picks, outbox, request, waiting, sent, handling, projected, dead,
          worker, confirmed, faults>>

consumer == <<waiting, sent, handling, projected, dead>>
publisher == <<worker, confirmed>>

MatchRow == [status : Statuses, home : Nat \cup {Null}, away : Nat \cup {Null},
             outcome : Outcomes \cup {Null}]
PickRow == [match : Matches, user : Users, group : {Locked[l].group : l \in Locks},
            predicted : Outcomes \cup {Null}, stake : Nat, source : Locks]
Settlement == [user : Users, predicted : Outcomes \cup {Null}, result : {"WON", "LOST"},
               stake : Nat]
Result == [home : Nat, away : Nat, outcome : Outcomes]
OutboxRow == [match : Matches, result : Result, settlements : SUBSET Settlement,
              published : BOOLEAN]

NoRequest == [step |-> "idle"]
NoHandling == [step |-> "idle"]
NoWork == [batch |-> {}, left |-> {}]

\* A request that has read its match, one that has also read the picks.
Request ==
    {NoRequest}
    \cup [step : {"picks"}, match : Matches, seen : MatchRow, result : Result]
    \cup [step : {"commit"}, match : Matches, seen : MatchRow, result : Result,
          settlements : SUBSET Settlement]

Handling == {NoHandling} \cup [step : {"commit", "ack"}, event : Locks, seen : MatchRow]

TypeOK ==
    /\ matches \in [Matches -> MatchRow]
    /\ picks \subseteq PickRow
    /\ outbox \in Seq(OutboxRow)
    /\ request \in [Admins -> Request]
    /\ waiting \in [Locks -> Nat] /\ sent \in [Locks -> Nat]
    /\ handling \in Handling
    /\ projected \subseteq Locks /\ dead \subseteq Locks
    /\ worker \in [batch : SUBSET DOMAIN outbox, left : SUBSET DOMAIN outbox]
    /\ confirmed \in [DOMAIN outbox -> Nat]
    /\ faults \in Nat

\* sync_fixtures has seeded the matches before the consumer and the jobs start.
Init ==
    /\ matches = [m \in Matches |-> [status |-> "SCHEDULED", home |-> Null, away |-> Null,
                                     outcome |-> Null]]
    /\ picks = {}
    /\ outbox = <<>>
    /\ request = [a \in Admins |-> NoRequest]
    /\ waiting = [l \in Locks |-> 0] /\ sent = [l \in Locks |-> 0]
    /\ handling = NoHandling
    /\ projected = {} /\ dead = {}
    /\ worker = NoWork
    /\ confirmed = <<>>
    /\ faults = 0

\* The unit of work: columns assigned a value other than the one read.
Flush(row, seen, new) ==
    [column \in DOMAIN row |-> IF new[column] # seen[column] THEN new[column] ELSE row[column]]

-----------------------------------------------------------------------------
(***************************************************************************)
(* settle_match, one thread per request.  A result for a match that is     *)
(* read as SETTLED is refused with 409 and changes nothing.                *)
(***************************************************************************)
EnterResult(a, m, score) ==
    /\ request[a] = NoRequest
    /\ matches[m].status # "SETTLED"
    /\ request' = [request EXCEPT ![a] =
          [step |-> "picks", match |-> m, seen |-> matches[m],
           result |-> [home |-> score.home, away |-> score.away,
                       outcome |-> OutcomeFromScores(score.home, score.away)]]]
    /\ UNCHANGED <<matches, picks, outbox, consumer, publisher, faults>>

Evaluate(row, outcome) ==
    [user |-> row.user, predicted |-> row.predicted, stake |-> row.stake,
     result |-> SettlePick(row.predicted, outcome)]

ReadPicks(a) ==
    LET r == request[a] IN
    /\ r.step = "picks"
    /\ request' = [request EXCEPT ![a] =
          [step |-> "commit", match |-> r.match, seen |-> r.seen, result |-> r.result,
           settlements |-> {Evaluate(row, r.result.outcome) :
                               row \in {p \in picks : p.match = r.match}}]]
    /\ UNCHANGED <<matches, picks, outbox, consumer, publisher, faults>>

\* Defect: the event is not part of the transaction.
CommitResultWithoutEvent(a) ==
    LET r == request[a] IN
    /\ r.step = "commit"
    /\ matches' = [matches EXCEPT ![r.match] =
                     [status |-> "SETTLED", home |-> r.result.home, away |-> r.result.away,
                      outcome |-> r.result.outcome]]
    /\ request' = [request EXCEPT ![a] = NoRequest]
    /\ UNCHANGED <<picks, outbox, consumer, publisher, faults>>

\* The result and the outbox row, in one transaction.
CommitResult(a) ==
    LET r == request[a]
        new == [status |-> "SETTLED", home |-> r.result.home, away |-> r.result.away,
                outcome |-> r.result.outcome] IN
    /\ r.step = "commit"
    /\ Len(outbox) < MaxEvents
    /\ matches' = [matches EXCEPT ![r.match] = Flush(@, r.seen, new)]
    /\ outbox' = Append(outbox, [match |-> r.match, result |-> r.result,
                                 settlements |-> r.settlements, published |-> FALSE])
    /\ confirmed' = Append(confirmed, 0)
    /\ request' = [request EXCEPT ![a] = NoRequest]
    /\ UNCHANGED <<picks, consumer, worker, faults>>

-----------------------------------------------------------------------------
(***************************************************************************)
(* The PickLocked consumer: one thread, one message at a time.             *)
(***************************************************************************)
PublishLock(l) ==
    /\ sent[l] < MaxCopies
    /\ sent' = [sent EXCEPT ![l] = @ + 1]
    /\ waiting' = [waiting EXCEPT ![l] = @ + 1]
    /\ UNCHANGED <<matches, picks, outbox, request, handling, projected, dead, publisher, faults>>

\* The upserts of the open transaction are invisible; the match row is read.
HandlePickLocked(l) ==
    /\ handling = NoHandling
    /\ waiting[l] > 0
    /\ waiting' = [waiting EXCEPT ![l] = @ - 1]
    /\ handling' = [step |-> "commit", event |-> l, seen |-> matches[Locked[l].match]]
    /\ UNCHANGED <<matches, picks, outbox, request, sent, projected, dead, publisher, faults>>

\* Defect: picks are unique per group.
SameKeyInGroup(row, l, pick) ==
    row.match = Locked[l].match /\ row.user = pick.user /\ row.group = Locked[l].group

SameKey(row, l, pick) == row.match = Locked[l].match /\ row.user = pick.user

\* INSERT ... ON CONFLICT (match_id, user_id) DO UPDATE: the row of an earlier
\* event keeps its group_id.
Upserted(l, pick) ==
    LET old == {row \in picks : SameKey(row, l, pick)} IN
    [match |-> Locked[l].match, user |-> pick.user,
     group |-> IF old = {} THEN Locked[l].group ELSE (CHOOSE row \in old : TRUE).group,
     predicted |-> pick.predicted, stake |-> pick.stake, source |-> l]

\* Defect: the match is marked whatever its status is.
CommitProjectionAnyStatus ==
    LET l == handling.event
        m == Locked[l].match
        seen == handling.seen IN
    /\ handling.step = "commit"
    /\ picks' = {row \in picks : \A pick \in Locked[l].picks : ~SameKey(row, l, pick)}
                \cup {Upserted(l, pick) : pick \in Locked[l].picks}
    /\ matches' = [matches EXCEPT ![m] = Flush(@, seen, [seen EXCEPT !.status = "LOCKED"])]
    /\ projected' = projected \cup {l}
    /\ handling' = [handling EXCEPT !.step = "ack"]
    /\ UNCHANGED <<outbox, request, waiting, sent, dead, publisher, faults>>

CommitProjection ==
    LET l == handling.event
        m == Locked[l].match
        seen == handling.seen IN
    /\ handling.step = "commit"
    /\ picks' = {row \in picks : \A pick \in Locked[l].picks : ~SameKey(row, l, pick)}
                \cup {Upserted(l, pick) : pick \in Locked[l].picks}
    /\ matches' = IF seen.status = "SCHEDULED"
                  THEN [matches EXCEPT ![m] = Flush(@, seen, [seen EXCEPT !.status = "LOCKED"])]
                  ELSE matches
    /\ projected' = projected \cup {l}
    /\ handling' = [handling EXCEPT !.step = "ack"]
    /\ UNCHANGED <<outbox, request, waiting, sent, dead, publisher, faults>>

Ack ==
    /\ handling.step = "ack"
    /\ handling' = NoHandling
    /\ UNCHANGED <<matches, picks, outbox, request, waiting, sent, projected, dead, publisher, faults>>

-----------------------------------------------------------------------------
(***************************************************************************)
(* publish_pending_outbox, run by one job (max_instances=1) that holds the *)
(* row locks of its batch.                                                 *)
(***************************************************************************)
Unpublished == {i \in DOMAIN outbox : ~outbox[i].published}

SelectPending ==
    /\ worker = NoWork
    /\ Unpublished # {}
    /\ worker' = [batch |-> Unpublished, left |-> Unpublished]
    /\ UNCHANGED <<matches, picks, outbox, request, consumer, confirmed, faults>>

\* In id order; basic_publish returns once the exchange has confirmed the message.
PublishNext(i) ==
    /\ i \in worker.left
    /\ \A k \in worker.left : i <= k
    /\ confirmed' = [confirmed EXCEPT ![i] = @ + 1]
    /\ worker' = [worker EXCEPT !.left = @ \ {i}]
    /\ UNCHANGED <<matches, picks, outbox, request, consumer, faults>>

\* Defect: the batch is marked before it is out.
MarkPublishedEarly ==
    /\ worker # NoWork
    /\ outbox' = [i \in DOMAIN outbox |->
                    IF i \in worker.batch
                    THEN [outbox[i] EXCEPT !.published = TRUE]
                    ELSE outbox[i]]
    /\ worker' = NoWork
    /\ UNCHANGED <<matches, picks, request, consumer, confirmed, faults>>

MarkPublished ==
    /\ worker # NoWork
    /\ worker.left = {}
    /\ outbox' = [i \in DOMAIN outbox |->
                    IF i \in worker.batch
                    THEN [outbox[i] EXCEPT !.published = TRUE]
                    ELSE outbox[i]]
    /\ worker' = NoWork
    /\ UNCHANGED <<matches, picks, request, consumer, confirmed, faults>>

-----------------------------------------------------------------------------
(***************************************************************************)
(* Failures.                                                               *)
(***************************************************************************)
Fault ==
    /\ faults < MaxFaults
    /\ faults' = faults + 1

RequestFails(a) ==
    /\ Fault
    /\ request[a] # NoRequest
    /\ request' = [request EXCEPT ![a] = NoRequest]
    /\ UNCHANGED <<matches, picks, outbox, consumer, publisher>>

\* Any exception in the handler, one after the commit included: nack without
\* requeue, no retry.
ProjectionFails ==
    /\ Fault
    /\ handling.step \in {"commit", "ack"}
    /\ dead' = dead \cup {handling.event}
    /\ handling' = NoHandling
    /\ UNCHANGED <<matches, picks, outbox, request, waiting, sent, projected, publisher>>

\* The connection is gone when the message is acknowledged: it is requeued.
AckLost ==
    /\ Fault
    /\ handling.step = "ack"
    /\ waiting' = [waiting EXCEPT ![handling.event] = @ + 1]
    /\ handling' = NoHandling
    /\ UNCHANGED <<matches, picks, outbox, request, sent, projected, dead, publisher>>

\* The broker or the database is lost: the job's transaction rolls back, the
\* messages that went out stay out.
PublishFails ==
    /\ Fault
    /\ worker # NoWork
    /\ worker' = NoWork
    /\ UNCHANGED <<matches, picks, outbox, request, consumer, confirmed>>

\* Defect: messages are acknowledged when they are delivered.
RestartLosingDelivery ==
    /\ Fault
    /\ request' = [a \in Admins |-> NoRequest]
    /\ handling' = NoHandling
    /\ worker' = NoWork
    /\ UNCHANGED <<matches, picks, outbox, waiting, sent, projected, dead, confirmed>>

Restart ==
    /\ Fault
    /\ request' = [a \in Admins |-> NoRequest]
    /\ handling' = NoHandling
    /\ waiting' = IF handling = NoHandling THEN waiting
                  ELSE [waiting EXCEPT ![handling.event] = @ + 1]
    /\ worker' = NoWork
    /\ UNCHANGED <<matches, picks, outbox, sent, projected, dead, confirmed>>

-----------------------------------------------------------------------------
SettleStep(a) == ReadPicks(a) \/ CommitResult(a)

ConsumerStep == (\E l \in Locks : HandlePickLocked(l)) \/ CommitProjection \/ Ack

OutboxStep == SelectPending \/ (\E i \in worker.left : PublishNext(i)) \/ MarkPublished

Next ==
    \/ \E a \in Admins :
          \/ \E m \in Matches, score \in Scores : EnterResult(a, m, score)
          \/ SettleStep(a)
          \/ RequestFails(a)
    \/ \E l \in Locks : PublishLock(l)
    \/ ConsumerStep
    \/ OutboxStep
    \/ ProjectionFails \/ AckLost \/ PublishFails \/ Restart

Spec == Init /\ [][Next]_vars

-----------------------------------------------------------------------------
(***************************************************************************)
(* Properties.                                                             *)
(***************************************************************************)
\* A MatchSettled event carries one line per user, however often picks were
\* projected and whichever threads raced: the ledger keys its postings by event
\* and user and would drop a second line (uq_match_picks_match_user).
OneLinePerUser ==
    \A i \in DOMAIN outbox : \A s, t \in outbox[i].settlements : s.user = t.user => s = t

\* A result and its event are staged together or not at all: the outcome a match
\* shows was announced by an event staged for the match, and a match without an
\* event shows none (settle_match: "all in one transaction").
ResultWasAnnounced ==
    \A m \in Matches :
        LET staged == {i \in DOMAIN outbox : outbox[i].match = m} IN
        IF staged = {}
        THEN matches[m].outcome = Null /\ matches[m].status # "SETTLED"
        ELSE \E i \in staged : matches[m].outcome = outbox[i].result.outcome

\* Whatever a settlement line charges was handed over by Prediction: the user,
\* the prediction and the stake are those of one PickLocked event of the match.
LinesComeFromLocks ==
    \A i \in DOMAIN outbox : \A s \in outbox[i].settlements :
        \E l \in projected :
            /\ Locked[l].match = outbox[i].match
            /\ [user |-> s.user, predicted |-> s.predicted, stake |-> s.stake] \in Locked[l].picks
            /\ s.result = "WON" <=> s.predicted = outbox[i].result.outcome

\* An outbox row marked as published was confirmed by the exchange, whatever
\* failed between the publication and the commit of the mark
\* (docs/adr/0005: "I never lose an event").
PublishedIsConfirmed ==
    \A i \in DOMAIN outbox : outbox[i].published => confirmed[i] > 0

\* docs/event-contracts.md on MatchSettled: published "once per match, when an
\* admin enters the result".
OneEventPerMatch ==
    \A i, j \in DOMAIN outbox : outbox[i].match = outbox[j].match => i = j

\* app/errors.py, MatchAlreadySettled: a settled match takes no other result, so
\* it stays settled.
SettledIsFinal ==
    [][\A m \in Matches : matches[m].status = "SETTLED" => matches'[m].status = "SETTLED"]_vars

\* docs/adr/0009: "When a match settles, each losing member is debited their
\* stake": each projected pick of a settled match is in an event of the match.
ProjectedPicksAreSettled ==
    \A row \in picks : matches[row.match].status = "SETTLED" =>
        \E i \in DOMAIN outbox :
            outbox[i].match = row.match /\ \E s \in outbox[i].settlements : s.user = row.user

=============================================================================
