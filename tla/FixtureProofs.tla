---------------------------- MODULE FixtureProofs ----------------------------
(***************************************************************************)
(* Theorems about the fixture service, for all matches, users, PickLocked  *)
(* events, results, request threads and bounds: types, what a settlement   *)
(* event may contain, and what the outbox guarantees.  Each safety         *)
(* property follows from an invariant about what the threads hold between  *)
(* their reads and their commits.                                          *)
(***************************************************************************)
EXTENDS Fixture, TLAPS

-----------------------------------------------------------------------------
(***************************************************************************)
(* The inductive invariants.                                               *)
(***************************************************************************)
\* uq_match_picks_match_user.
OneRowPerUser ==
    \A p, q \in picks : p.match = q.match /\ p.user = q.user => p = q

\* What a request has read from match_picks has one line for each user.
ReadsOneLinePerUser ==
    \A a \in Admins : request[a].step = "commit" =>
        \A s, t \in request[a].settlements : s.user = t.user => s = t

SettlementInv == OneRowPerUser /\ ReadsOneLinePerUser /\ OneLinePerUser

\* A row of match_picks is a pick of the event that wrote it last.
RowsComeFromLocks ==
    \A row \in picks :
        /\ row.source \in projected
        /\ Locked[row.source].match = row.match
        /\ [user |-> row.user, predicted |-> row.predicted, stake |-> row.stake]
              \in Locked[row.source].picks

\* A settlement line evaluates a pick that was handed over for the match.
FromLock(s, match, outcome) ==
    \E l \in projected :
        /\ Locked[l].match = match
        /\ [user |-> s.user, predicted |-> s.predicted, stake |-> s.stake] \in Locked[l].picks
        /\ s.result = "WON" <=> s.predicted = outcome

ReadsComeFromLocks ==
    \A a \in Admins : request[a].step = "commit" =>
        \A s \in request[a].settlements :
            FromLock(s, request[a].match, request[a].result.outcome)

OriginInv == RowsComeFromLocks /\ ReadsComeFromLocks /\ LinesComeFromLocks

\* What the job has sent of its batch is confirmed, though not yet marked.
SentIsConfirmed == \A i \in worker.batch \ worker.left : confirmed[i] > 0

OutboxInv == SentIsConfirmed /\ PublishedIsConfirmed

Staged(m) == {i \in DOMAIN outbox : outbox[i].match = m}

\* An outcome that a request has read was announced when it read it: the unit of
\* work leaves the column alone when the result has the same outcome.
ReadOutcomeWasAnnounced ==
    \A a \in Admins :
        request[a].step # "idle" /\ request[a].seen.outcome # Null
            => Staged(request[a].match) # {}

ResultInv == ReadOutcomeWasAnnounced /\ ResultWasAnnounced

-----------------------------------------------------------------------------
(***************************************************************************)
(* Types.                                                                  *)
(***************************************************************************)
\* The unit of work makes a match row of match rows; a column takes the new
\* value if it differs from the one read, and keeps its own otherwise.
LEMMA FlushedRow ==
    ASSUME NEW row \in MatchRow, NEW seen \in MatchRow, NEW new \in MatchRow
    PROVE  /\ Flush(row, seen, new) \in MatchRow
           /\ Flush(row, seen, new).status =
                 IF new.status # seen.status THEN new.status ELSE row.status
           /\ Flush(row, seen, new).outcome =
                 IF new.outcome # seen.outcome THEN new.outcome ELSE row.outcome
<1> DEFINE col(c) == IF new[c] # seen[c] THEN new[c] ELSE row[c]
<1>1. DOMAIN row = {"status", "home", "away", "outcome"}
  BY DEF MatchRow
<1>2. Flush(row, seen, new) = [status |-> col("status"), home |-> col("home"),
                               away |-> col("away"), outcome |-> col("outcome")]
  BY <1>1 DEF Flush
<1>3. /\ col("status") \in Statuses /\ col("outcome") \in Outcomes \cup {Null}
      /\ col("home") \in Nat \cup {Null} /\ col("away") \in Nat \cup {Null}
  BY DEF MatchRow
<1> QED
  BY <1>2, <1>3 DEF MatchRow

\* What a request holds at each of its steps.
LEMMA RequestSteps ==
    ASSUME NEW r \in Request
    PROVE  /\ r.step \in {"idle", "picks", "commit"}
           /\ r = NoRequest <=> r.step = "idle"
           /\ r.step # "idle" =>
                 r.match \in Matches /\ r.seen \in MatchRow /\ r.result \in Result
           /\ r.step = "commit" => r.settlements \subseteq Settlement
  BY DEF Request, NoRequest

\* What the consumer holds at each of its steps.
LEMMA HandlingSteps ==
    /\ NoHandling.step = "idle"
    /\ handling \in Handling /\ handling # NoHandling
          => handling.event \in Locks /\ handling.seen \in MatchRow
    /\ handling \in Handling /\ handling.step # "idle"
          => handling.event \in Locks /\ handling.seen \in MatchRow
  BY DEF Handling, NoHandling

\* The result of an outcome is won or lost.
LEMMA EvaluatedType ==
    ASSUME NEW row \in PickRow, NEW outcome \in Outcomes
    PROVE  Evaluate(row, outcome) \in Settlement
  BY DEF PickRow, Settlement, Evaluate, SettlePick

\* A pick of an event makes a typed row, whatever group an older row names.
LEMMA UpsertedType ==
    ASSUME picks \subseteq PickRow, NEW l \in Locks, NEW pick \in Locked[l].picks
    PROVE  Upserted(l, pick) \in PickRow
<1> DEFINE old == {row \in picks : SameKey(row, l, pick)}
           group == IF old = {} THEN Locked[l].group ELSE (CHOOSE row \in old : TRUE).group
<1>1. group \in {Locked[k].group : k \in Locks}
  <2>1. CASE old = {}
    BY <2>1
  <2>2. CASE old # {}
    <3>1. (CHOOSE row \in old : TRUE) \in PickRow
      BY <2>2
    <3> QED
      BY <2>2, <3>1 DEF PickRow
  <2> QED
    BY <2>1, <2>2
<1>2. /\ Locked[l].match \in Matches /\ pick.user \in Users
      /\ pick.predicted \in Outcomes \cup {Null} /\ pick.stake \in Nat
  BY FixtureAssumption
<1>3. Upserted(l, pick) = [match |-> Locked[l].match, user |-> pick.user, group |-> group,
                           predicted |-> pick.predicted, stake |-> pick.stake, source |-> l]
  BY DEF Upserted
<1> HIDE DEF group
<1> QED
  BY <1>1, <1>2, <1>3 DEF PickRow

\* The tables are empty but for the matches, and nobody is at work.
LEMMA InitTypeOK == Init => TypeOK
  BY DEF Init, TypeOK, MatchRow, Statuses, Request, Handling, NoWork, OutboxRow

\* Marking changes no other column of the outbox, and no other row.
LEMMA MarkedRows ==
    ASSUME TypeOK, MarkPublished
    PROVE  /\ outbox' \in Seq(OutboxRow) /\ DOMAIN outbox' = DOMAIN outbox
           /\ \A i \in DOMAIN outbox :
                 /\ outbox'[i].match = outbox[i].match
                 /\ outbox'[i].result = outbox[i].result
                 /\ outbox'[i].settlements = outbox[i].settlements
                 /\ outbox'[i].published = (i \in worker.batch \/ outbox[i].published)
<1>1. \A i \in DOMAIN outbox : outbox[i] \in OutboxRow
  BY DEF TypeOK
<1>2. DOMAIN outbox' = DOMAIN outbox
  BY DEF MarkPublished
<1>3. ASSUME NEW i \in DOMAIN outbox
      PROVE  /\ outbox'[i] \in OutboxRow
             /\ outbox'[i].match = outbox[i].match
             /\ outbox'[i].result = outbox[i].result
             /\ outbox'[i].settlements = outbox[i].settlements
             /\ outbox'[i].published = (i \in worker.batch \/ outbox[i].published)
  <2>1. outbox[i] \in OutboxRow
    BY <1>1
  <2>2. CASE i \in worker.batch
    <3>1. outbox'[i] = [outbox[i] EXCEPT !.published = TRUE]
      BY <2>2 DEF MarkPublished
    <3> QED
      BY <2>1, <2>2, <3>1 DEF OutboxRow
  <2>3. CASE i \notin worker.batch
    <3>1. outbox'[i] = outbox[i]
      BY <2>3 DEF MarkPublished
    <3> QED
      BY <2>1, <2>3, <3>1 DEF OutboxRow
  <2> QED
    BY <2>2, <2>3
<1>4. outbox' \in Seq(OutboxRow)
  <2>1. outbox \in Seq(OutboxRow) /\ DOMAIN outbox = 1..Len(outbox)
    BY DEF TypeOK
  <2>2. outbox' = [i \in 1..Len(outbox) |-> outbox'[i]]
    BY <2>1 DEF MarkPublished
  <2> QED
    BY <1>3, <2>1, <2>2
<1> QED
  BY <1>2, <1>3, <1>4

\* A committed result adds one unpublished, unconfirmed row.
LEMMA StagedRow ==
    ASSUME TypeOK, NEW a \in Admins, CommitResult(a)
    PROVE  LET n == Len(outbox) + 1 IN
           /\ outbox' \in Seq(OutboxRow) /\ confirmed' \in [DOMAIN outbox' -> Nat]
           /\ DOMAIN outbox' = DOMAIN outbox \cup {n} /\ n \notin DOMAIN outbox
           /\ \A i \in DOMAIN outbox : outbox'[i] = outbox[i] /\ confirmed'[i] = confirmed[i]
           /\ outbox'[n].match = request[a].match /\ outbox'[n].result = request[a].result
           /\ outbox'[n].settlements = request[a].settlements
           /\ outbox'[n].published = FALSE
<1> DEFINE new == [match |-> request[a].match, result |-> request[a].result,
                   settlements |-> request[a].settlements, published |-> FALSE]
<1>1. request[a].step = "commit" /\ request[a] \in Request
  BY DEF TypeOK, CommitResult
<1>2. new \in OutboxRow
  BY <1>1, RequestSteps DEF OutboxRow
<1>3. outbox' = Append(outbox, new) /\ confirmed' = Append(confirmed, 0)
  BY DEF CommitResult
<1>4. outbox \in Seq(OutboxRow) /\ DOMAIN outbox = 1..Len(outbox) /\ Len(outbox) \in Nat
  BY DEF TypeOK
<1>5. confirmed \in Seq(Nat) /\ Len(confirmed) = Len(outbox)
  <2>1. confirmed \in [1..Len(outbox) -> Nat]
    BY <1>4 DEF TypeOK
  <2> QED
    BY <1>4, <2>1
<1> HIDE DEF new
<1>6. /\ outbox' \in Seq(OutboxRow) /\ Len(outbox') = Len(outbox) + 1
      /\ \A i \in 1..Len(outbox) : outbox'[i] = outbox[i]
      /\ outbox'[Len(outbox) + 1] = new
  BY <1>2, <1>3, <1>4
<1>7. /\ confirmed' \in Seq(Nat) /\ Len(confirmed') = Len(outbox) + 1
      /\ \A i \in 1..Len(outbox) : confirmed'[i] = confirmed[i]
  BY <1>3, <1>4, <1>5
<1>8. DOMAIN outbox' = 1..(Len(outbox) + 1) /\ confirmed' \in [DOMAIN outbox' -> Nat]
  BY <1>4, <1>6, <1>7
<1> QED
  BY <1>4, <1>6, <1>7, <1>8 DEF new

\* Every step keeps the types; a thread writes rows made of what it has read.
LEMMA NextTypeOK == TypeOK /\ [Next]_vars => TypeOK'
<1> SUFFICES ASSUME TypeOK, [Next]_vars PROVE TypeOK'
  OBVIOUS
<1> USE DEF TypeOK
<1>0. CASE UNCHANGED vars
  BY <1>0 DEF vars, consumer, publisher
<1>1. ASSUME NEW a \in Admins, NEW m \in Matches, NEW score \in Scores, EnterResult(a, m, score)
      PROVE  TypeOK'
  <2> DEFINE result == [home |-> score.home, away |-> score.away,
                        outcome |-> OutcomeFromScores(score.home, score.away)]
             read == [step |-> "picks", match |-> m, seen |-> matches[m], result |-> result]
  <2>1. result \in Result
    BY FixtureAssumption DEF Result, OutcomeFromScores, Outcomes
  <2>2. read \in Request
    BY <2>1 DEF Request
  <2> HIDE DEF read
  <2>3. request' = [request EXCEPT ![a] = read]
    BY <1>1 DEF EnterResult, read
  <2> QED
    BY <1>1, <2>2, <2>3 DEF EnterResult, consumer, publisher
<1>2. ASSUME NEW a \in Admins, ReadPicks(a)
      PROVE  TypeOK'
  <2> DEFINE r == request[a]
             lines == {Evaluate(row, r.result.outcome) : row \in {p \in picks : p.match = r.match}}
             read == [step |-> "commit", match |-> r.match, seen |-> r.seen,
                      result |-> r.result, settlements |-> lines]
  <2>1. /\ r.match \in Matches /\ r.seen \in MatchRow /\ r.result \in Result
        /\ r.result.outcome \in Outcomes
    BY <1>2, RequestSteps DEF ReadPicks, Result
  <2>2. lines \subseteq Settlement
    BY <2>1, EvaluatedType
  <2> HIDE DEF lines
  <2>3. read \in Request
    BY <2>1, <2>2 DEF Request
  <2>4. request' = [request EXCEPT ![a] = read]
    BY <1>2 DEF ReadPicks, lines
  <2> HIDE DEF read
  <2> QED
    BY <1>2, <2>3, <2>4 DEF ReadPicks, consumer, publisher
<1>3. ASSUME NEW a \in Admins, CommitResult(a)
      PROVE  TypeOK'
  <2> DEFINE r == request[a]
             new == [status |-> "SETTLED", home |-> r.result.home, away |-> r.result.away,
                     outcome |-> r.result.outcome]
  <2>1. r.match \in Matches /\ r.seen \in MatchRow /\ r.result \in Result
    BY <1>3, RequestSteps DEF CommitResult
  <2>2. new \in MatchRow
    BY <2>1 DEF MatchRow, Result, Statuses
  <2>3. matches' = [matches EXCEPT ![r.match] = Flush(@, r.seen, new)]
    BY <1>3 DEF CommitResult
  <2>4. matches' \in [Matches -> MatchRow]
    BY <2>1, <2>2, <2>3, FlushedRow
  <2>5. request' \in [Admins -> Request]
    BY <1>3 DEF CommitResult, Request
  <2>6. worker' \in [batch : SUBSET DOMAIN outbox', left : SUBSET DOMAIN outbox']
    BY <1>3, StagedRow DEF CommitResult
  <2> QED
    BY <1>3, <2>4, <2>5, <2>6, StagedRow DEF CommitResult, consumer
<1>4. ASSUME NEW a \in Admins, RequestFails(a)
      PROVE  TypeOK'
  BY <1>4 DEF RequestFails, Fault, Request, consumer, publisher
<1>5. ASSUME NEW l \in Locks, PublishLock(l)
      PROVE  TypeOK'
  BY <1>5 DEF PublishLock, publisher
<1>6. ASSUME NEW l \in Locks, HandlePickLocked(l)
      PROVE  TypeOK'
  <2>1. Locked[l].match \in Matches
    BY FixtureAssumption
  <2>2. handling' \in Handling
    BY <1>6, <2>1 DEF HandlePickLocked, Handling
  <2> QED
    BY <1>6, <2>2 DEF HandlePickLocked, publisher
<1>7. CASE CommitProjection
  <2> DEFINE l == handling.event
             seen == handling.seen
             locked == [seen EXCEPT !.status = "LOCKED"]
  <2>1. l \in Locks /\ seen \in MatchRow /\ Locked[l].match \in Matches
    BY <1>7, HandlingSteps, FixtureAssumption DEF CommitProjection
  <2>2. locked \in MatchRow
    BY <2>1 DEF MatchRow, Statuses
  <2>3. picks' \subseteq PickRow
    BY <1>7, <2>1, UpsertedType DEF CommitProjection
  <2>4. matches' = IF seen.status = "SCHEDULED"
                   THEN [matches EXCEPT ![Locked[l].match] = Flush(@, seen, locked)]
                   ELSE matches
    BY <1>7 DEF CommitProjection
  <2>5. matches' \in [Matches -> MatchRow]
    BY <2>1, <2>2, <2>4, FlushedRow
  <2>6. handling' \in Handling
    <3>1. handling \in [step : {"commit", "ack"}, event : Locks, seen : MatchRow]
      BY <1>7 DEF CommitProjection, Handling, NoHandling
    <3>2. handling' = [handling EXCEPT !.step = "ack"]
      BY <1>7 DEF CommitProjection
    <3> QED
      BY <3>1, <3>2 DEF Handling
  <2> QED
    BY <1>7, <2>1, <2>3, <2>5, <2>6 DEF CommitProjection, publisher
<1>8. CASE Ack
  BY <1>8 DEF Ack, Handling, publisher
<1>9. CASE SelectPending
  BY <1>9 DEF SelectPending, Unpublished, consumer
<1>10. ASSUME NEW i \in worker.left, PublishNext(i)
       PROVE  TypeOK'
  <2>1. worker \in [batch : SUBSET DOMAIN outbox, left : SUBSET DOMAIN outbox]
    OBVIOUS
  <2>2. worker' = [worker EXCEPT !.left = @ \ {i}]
    BY <1>10 DEF PublishNext
  <2>3. worker' \in [batch : SUBSET DOMAIN outbox, left : SUBSET DOMAIN outbox]
    BY <2>1, <2>2
  <2>4. i \in DOMAIN outbox
    BY <2>1
  <2>5. confirmed' \in [DOMAIN outbox -> Nat]
    BY <1>10, <2>4 DEF PublishNext
  <2> QED
    BY <1>10, <2>3, <2>5 DEF PublishNext, consumer
<1>11. CASE MarkPublished
  <2>1. outbox' \in Seq(OutboxRow) /\ DOMAIN outbox' = DOMAIN outbox
    BY <1>11, MarkedRows
  <2>2. worker' = NoWork /\ UNCHANGED <<matches, picks, request, consumer, confirmed, faults>>
    BY <1>11 DEF MarkPublished
  <2> QED
    BY <2>1, <2>2 DEF NoWork, consumer
<1>12. CASE ProjectionFails
  BY <1>12, HandlingSteps DEF ProjectionFails, Fault, Handling, publisher
<1>13. CASE AckLost
  BY <1>13, HandlingSteps DEF AckLost, Fault, Handling, publisher
<1>14. CASE PublishFails
  BY <1>14 DEF PublishFails, Fault, NoWork, consumer
<1>15. CASE Restart
  BY <1>15, HandlingSteps DEF Restart, Fault, NoWork, Request, Handling
<1> QED
  BY <1>0, <1>1, <1>2, <1>3, <1>4, <1>5, <1>6, <1>7, <1>8, <1>9, <1>10, <1>11, <1>12, <1>13,
     <1>14, <1>15 DEF Next, SettleStep, ConsumerStep, OutboxStep

\* The variables stay in their types, whichever requests, deliveries, batches and
\* failures interleave.
THEOREM TypeCorrect == Spec => []TypeOK
  BY InitTypeOK, NextTypeOK, PTL DEF Spec

-----------------------------------------------------------------------------
(***************************************************************************)
(* Three ways to change what the properties are about: the projection      *)
(* writes match_picks, a request reads it or stages an event, the job      *)
(* sends and marks.  Every other step leaves them as they are.             *)
(***************************************************************************)
\* A request that ends or fails holds nothing; the others hold what they held.
Kept ==
    /\ UNCHANGED <<picks, outbox, projected>>
    /\ \A a \in Admins : request'[a] = request[a] \/ request'[a].step = "idle"

\* The steps that neither read nor write picks, nor stage or mark an event.
Quiet ==
    \/ UNCHANGED vars
    \/ \E a \in Admins : RequestFails(a)
    \/ \E l \in Locks : PublishLock(l) \/ HandlePickLocked(l)
    \/ Ack \/ SelectPending \/ (\E i \in worker.left : PublishNext(i))
    \/ ProjectionFails \/ AckLost \/ PublishFails \/ Restart

\* Quiet steps keep picks, events and projections, and only empty requests.
LEMMA QuietKeeps == TypeOK /\ Quiet => Kept
<1> SUFFICES ASSUME TypeOK, Quiet PROVE Kept
  OBVIOUS
<1> USE DEF TypeOK, Kept
<1>1. NoRequest.step = "idle"
  BY DEF NoRequest
<1>2. ASSUME NEW a \in Admins, RequestFails(a)
      PROVE  Kept
  BY <1>1, <1>2 DEF RequestFails, consumer
<1>3. CASE Restart
  BY <1>1, <1>3 DEF Restart
<1> QED
  BY <1>2, <1>3
  DEF Quiet, vars, consumer, publisher, PublishLock, HandlePickLocked, Ack, SelectPending,
      PublishNext, ProjectionFails, AckLost, PublishFails

\* Every step is quiet or one of these.
LEMMA StepCases ==
    ASSUME [Next]_vars
    PROVE  \/ Quiet
           \/ \E a \in Admins, m \in Matches, score \in Scores : EnterResult(a, m, score)
           \/ \E a \in Admins : ReadPicks(a) \/ CommitResult(a)
           \/ CommitProjection \/ MarkPublished
  BY DEF Next, SettleStep, ConsumerStep, OutboxStep, Quiet

-----------------------------------------------------------------------------
(***************************************************************************)
(* One line per user.                                                      *)
(***************************************************************************)
\* There are no picks, requests and events at first.
LEMMA InitSettlementInv == Init => SettlementInv
  BY DEF Init, SettlementInv, OneRowPerUser, ReadsOneLinePerUser, OneLinePerUser, NoRequest

\* A committed projection replaces the rows of its users by one for each.
LEMMA ProjectedRows ==
    ASSUME TypeOK, CommitProjection, NEW row \in picks'
    PROVE  LET l == handling.event IN
           /\ l \in Locks
           /\ \/ row \in picks /\ \A pick \in Locked[l].picks : ~SameKey(row, l, pick)
              \/ \E pick \in Locked[l].picks :
                    /\ row.match = Locked[l].match /\ row.user = pick.user
                    /\ row.predicted = pick.predicted /\ row.stake = pick.stake
                    /\ row.source = l /\ row = Upserted(l, pick)
<1>1. handling.event \in Locks
  BY HandlingSteps DEF TypeOK, CommitProjection
<1>2. picks' = {p \in picks : \A pick \in Locked[handling.event].picks :
                                 ~SameKey(p, handling.event, pick)}
               \cup {Upserted(handling.event, pick) : pick \in Locked[handling.event].picks}
  BY DEF CommitProjection
<1>3. ASSUME NEW pick \in Locked[handling.event].picks, row = Upserted(handling.event, pick)
      PROVE  /\ row.match = Locked[handling.event].match /\ row.user = pick.user
             /\ row.predicted = pick.predicted /\ row.stake = pick.stake
             /\ row.source = handling.event
  BY <1>3 DEF Upserted
<1> QED
  BY <1>1, <1>2, <1>3

\* The upsert keeps one row for each match and user: an event has one pick for
\* each user, and the rows of its users are replaced.
LEMMA ProjectionOneRow ==
    ASSUME TypeOK, OneRowPerUser, CommitProjection
    PROVE  OneRowPerUser'
<1> SUFFICES ASSUME NEW p \in picks', NEW q \in picks', p.match = q.match, p.user = q.user
             PROVE  p = q
  BY DEF OneRowPerUser
<1> DEFINE l == handling.event
<1>1. l \in Locks /\ \A x, y \in Locked[l].picks : x.user = y.user => x = y
  BY ProjectedRows, FixtureAssumption
<1>2. CASE p \in picks /\ q \in picks
  BY <1>2 DEF OneRowPerUser
<1>3. CASE p \notin picks \/ q \notin picks
  BY <1>1, <1>3, ProjectedRows DEF SameKey
<1> QED
  BY <1>2, <1>3

\* A request reads one row for each user; the commit stages what was read.
LEMMA NextSettlementInv == TypeOK /\ SettlementInv /\ [Next]_vars => SettlementInv'
<1> SUFFICES ASSUME TypeOK, SettlementInv, [Next]_vars PROVE SettlementInv'
  OBVIOUS
<1> USE DEF SettlementInv
<1>1. CASE Quiet
  <2>1. Kept
    BY <1>1, QuietKeeps
  <2> QED
    BY <2>1 DEF Kept, OneRowPerUser, ReadsOneLinePerUser, OneLinePerUser
<1>2. ASSUME NEW a \in Admins, NEW m \in Matches, NEW score \in Scores, EnterResult(a, m, score)
      PROVE  SettlementInv'
  <2>1. \A b \in Admins : request'[b] = request[b] \/ request'[b].step = "picks"
    BY <1>2 DEF EnterResult, TypeOK
  <2> QED
    BY <1>2, <2>1 DEF EnterResult, OneRowPerUser, ReadsOneLinePerUser, OneLinePerUser
<1>3. ASSUME NEW a \in Admins, ReadPicks(a)
      PROVE  SettlementInv'
  <2>1. /\ \A b \in Admins \ {a} : request'[b] = request[b]
        /\ request'[a].settlements =
              {Evaluate(row, request[a].result.outcome) :
                  row \in {p \in picks : p.match = request[a].match}}
    BY <1>3 DEF ReadPicks, TypeOK
  <2>2. \A s, t \in request'[a].settlements : s.user = t.user => s = t
    <3>1. \A row \in picks : Evaluate(row, request[a].result.outcome).user = row.user
      BY DEF Evaluate
    <3> QED
      BY <2>1, <3>1 DEF OneRowPerUser
  <2> QED
    BY <1>3, <2>1, <2>2 DEF ReadPicks, OneRowPerUser, ReadsOneLinePerUser, OneLinePerUser
<1>4. ASSUME NEW a \in Admins, CommitResult(a)
      PROVE  SettlementInv'
  <2>1. OneLinePerUser'
    <3>1. request[a].step = "commit"
      BY <1>4 DEF CommitResult
    <3>2. \A i \in DOMAIN outbox' :
              \/ i \in DOMAIN outbox /\ outbox'[i] = outbox[i]
              \/ outbox'[i].settlements = request[a].settlements
      BY <1>4, StagedRow
    <3> QED
      BY <3>1, <3>2 DEF OneLinePerUser, ReadsOneLinePerUser
  <2>2. \A b \in Admins : request'[b] = request[b] \/ request'[b].step = "idle"
    BY <1>4 DEF CommitResult, NoRequest, TypeOK
  <2> QED
    BY <1>4, <2>1, <2>2 DEF CommitResult, OneRowPerUser, ReadsOneLinePerUser
<1>5. CASE CommitProjection
  BY <1>5, ProjectionOneRow DEF CommitProjection, ReadsOneLinePerUser, OneLinePerUser
<1>6. CASE MarkPublished
  <2>1. OneLinePerUser'
    BY <1>6, MarkedRows DEF OneLinePerUser
  <2> QED
    BY <1>6, <2>1 DEF MarkPublished, OneRowPerUser, ReadsOneLinePerUser
<1> QED
  BY <1>1, <1>2, <1>3, <1>4, <1>5, <1>6, StepCases

\* uq_match_picks_match_user and the upsert that relies on it: no event has two
\* lines for one user, so the ledger, which keys its postings by event and user,
\* drops none.
THEOREM OneLineForEachUser == Spec => []OneLinePerUser
<1>1. TypeOK /\ SettlementInv /\ [Next]_vars => SettlementInv'
  BY NextSettlementInv
<1>2. SettlementInv => OneLinePerUser
  BY DEF SettlementInv
<1> QED
  BY <1>1, <1>2, InitSettlementInv, TypeCorrect, PTL DEF Spec

-----------------------------------------------------------------------------
(***************************************************************************)
(* Lines come from locks.                                                  *)
(***************************************************************************)
\* There are no picks, requests and events at first.
LEMMA InitOriginInv == Init => OriginInv
  BY DEF Init, OriginInv, RowsComeFromLocks, ReadsComeFromLocks, LinesComeFromLocks, NoRequest

\* The lines of an event, in the terms of what a request has read.
LEMMA LinesFromLocks ==
    LinesComeFromLocks <=>
        \A i \in DOMAIN outbox : \A s \in outbox[i].settlements :
            FromLock(s, outbox[i].match, outbox[i].result.outcome)
  BY DEF LinesComeFromLocks, FromLock

\* What was handed over stays handed over.
LEMMA FromLockKept ==
    ASSUME NEW s, NEW match, NEW outcome, projected \subseteq projected',
           FromLock(s, match, outcome)
    PROVE  FromLock(s, match, outcome)'
  BY DEF FromLock

\* A row that comes from a lock evaluates to a line that does.
LEMMA EvaluatedFromLock ==
    ASSUME NEW row \in picks, RowsComeFromLocks, NEW outcome
    PROVE  FromLock(Evaluate(row, outcome), row.match, outcome)
<1> DEFINE s == Evaluate(row, outcome)
<1>1. /\ s.user = row.user /\ s.predicted = row.predicted /\ s.stake = row.stake
      /\ s.result = "WON" <=> row.predicted = outcome
  BY DEF Evaluate, SettlePick
<1> HIDE DEF s
<1>2. FromLock(s, row.match, outcome)
  BY <1>1 DEF FromLock, RowsComeFromLocks
<1> QED
  BY <1>2 DEF s

\* A projection writes rows of its own event; a request evaluates rows, and the
\* event takes over the lines of the request.
LEMMA NextOriginInv == TypeOK /\ OriginInv /\ [Next]_vars => OriginInv'
<1> SUFFICES ASSUME TypeOK, OriginInv, [Next]_vars PROVE OriginInv'
  OBVIOUS
<1> USE DEF OriginInv
<1>1. CASE Quiet
  <2>1. Kept
    BY <1>1, QuietKeeps
  <2> QED
    BY <2>1 DEF Kept, RowsComeFromLocks, ReadsComeFromLocks, LinesComeFromLocks, FromLock
<1>2. ASSUME NEW a \in Admins, NEW m \in Matches, NEW score \in Scores, EnterResult(a, m, score)
      PROVE  OriginInv'
  <2>1. \A b \in Admins : request'[b] = request[b] \/ request'[b].step = "picks"
    BY <1>2 DEF EnterResult, TypeOK
  <2> QED
    BY <1>2, <2>1
    DEF EnterResult, consumer, RowsComeFromLocks, ReadsComeFromLocks, LinesComeFromLocks, FromLock
<1>3. ASSUME NEW a \in Admins, ReadPicks(a)
      PROVE  OriginInv'
  <2> DEFINE r == request[a]
             lines == {Evaluate(row, r.result.outcome) : row \in {p \in picks : p.match = r.match}}
             read == [step |-> "commit", match |-> r.match, seen |-> r.seen,
                      result |-> r.result, settlements |-> lines]
  <2>1. \A s \in lines : FromLock(s, r.match, r.result.outcome)
    BY EvaluatedFromLock
  <2>2. request' = [request EXCEPT ![a] = read]
    BY <1>3 DEF ReadPicks
  <2>3. /\ \A b \in Admins \ {a} : request'[b] = request[b]
        /\ request'[a].match = r.match /\ request'[a].result = r.result
        /\ request'[a].settlements = lines
    BY <2>2 DEF TypeOK
  <2> HIDE DEF lines
  <2>4. ReadsComeFromLocks'
    BY <1>3, <2>1, <2>3 DEF ReadPicks, consumer, ReadsComeFromLocks, FromLock
  <2> QED
    BY <1>3, <2>4 DEF ReadPicks, consumer, RowsComeFromLocks, LinesComeFromLocks, FromLock
<1>4. ASSUME NEW a \in Admins, CommitResult(a)
      PROVE  OriginInv'
  <2>1. projected' = projected /\ picks' = picks /\ request[a].step = "commit"
    BY <1>4 DEF CommitResult, consumer
  <2>2. \A i \in DOMAIN outbox' :
            \/ i \in DOMAIN outbox /\ outbox'[i] = outbox[i]
            \/ /\ outbox'[i].settlements = request[a].settlements
               /\ outbox'[i].match = request[a].match /\ outbox'[i].result = request[a].result
    BY <1>4, StagedRow
  <2>3. \A i \in DOMAIN outbox' : \A s \in outbox'[i].settlements :
            FromLock(s, outbox'[i].match, outbox'[i].result.outcome)
    BY <2>1, <2>2, LinesFromLocks DEF ReadsComeFromLocks
  <2>4. LinesComeFromLocks'
    BY <2>1, <2>3 DEF LinesComeFromLocks, FromLock
  <2>5. \A b \in Admins : request'[b] = request[b] \/ request'[b].step = "idle"
    BY <1>4 DEF CommitResult, NoRequest, TypeOK
  <2> QED
    BY <2>1, <2>4, <2>5 DEF RowsComeFromLocks, ReadsComeFromLocks, FromLock
<1>5. CASE CommitProjection
  <2>1. projected' = projected \cup {handling.event} /\ outbox' = outbox /\ request' = request
    BY <1>5 DEF CommitProjection
  <2>2. RowsComeFromLocks'
    <3> SUFFICES ASSUME NEW row \in picks'
                 PROVE  /\ row.source \in projected'
                        /\ Locked[row.source].match = row.match
                        /\ [user |-> row.user, predicted |-> row.predicted, stake |-> row.stake]
                              \in Locked[row.source].picks
      BY DEF RowsComeFromLocks
    <3>1. CASE row \in picks
      BY <2>1, <3>1 DEF RowsComeFromLocks
    <3>2. CASE row \notin picks
      <4>1. PICK pick \in Locked[handling.event].picks :
                /\ row.match = Locked[handling.event].match /\ row.user = pick.user
                /\ row.predicted = pick.predicted /\ row.stake = pick.stake
                /\ row.source = handling.event
        BY <1>5, <3>2, ProjectedRows
      <4>2. pick = [user |-> pick.user, predicted |-> pick.predicted, stake |-> pick.stake]
        BY <1>5, HandlingSteps, FixtureAssumption DEF CommitProjection, TypeOK
      <4> QED
        BY <2>1, <4>1, <4>2
    <3> QED
      BY <3>1, <3>2
  <2> QED
    BY <2>1, <2>2 DEF ReadsComeFromLocks, LinesComeFromLocks, FromLock
<1>6. CASE MarkPublished
  <2>1. UNCHANGED <<picks, projected, request>>
    BY <1>6 DEF MarkPublished, consumer
  <2>2. LinesComeFromLocks'
    BY <1>6, <2>1, MarkedRows DEF LinesComeFromLocks
  <2> QED
    BY <2>1, <2>2 DEF RowsComeFromLocks, ReadsComeFromLocks, FromLock
<1> QED
  BY <1>1, <1>2, <1>3, <1>4, <1>5, <1>6, StepCases

\* Whatever a settlement line charges was handed over by Prediction, whichever
\* projection of the user's pick the request has read.
THEOREM LinesAreHandedOver == Spec => []LinesComeFromLocks
<1>1. TypeOK /\ OriginInv /\ [Next]_vars => OriginInv'
  BY NextOriginInv
<1>2. OriginInv => LinesComeFromLocks
  BY DEF OriginInv
<1> QED
  BY <1>1, <1>2, InitOriginInv, TypeCorrect, PTL DEF Spec

-----------------------------------------------------------------------------
(***************************************************************************)
(* What the outbox promises.                                               *)
(***************************************************************************)
\* The outbox is empty and the job has no batch.
LEMMA InitOutboxInv == Init => OutboxInv
  BY DEF Init, OutboxInv, SentIsConfirmed, PublishedIsConfirmed, NoWork

\* A step that neither stages, sends nor marks keeps the batch or drops it.
LEMMA IdleOutboxInv ==
    ASSUME OutboxInv, UNCHANGED <<outbox, confirmed>>,
           worker' = worker \/ worker'.batch = worker'.left
    PROVE  OutboxInv'
  BY DEF OutboxInv, SentIsConfirmed, PublishedIsConfirmed

\* A row leaves the unsent part of the batch when it is confirmed, and the batch is
\* marked when nothing is left unsent.
LEMMA NextOutboxInv == TypeOK /\ OutboxInv /\ [Next]_vars => OutboxInv'
<1> SUFFICES ASSUME TypeOK, OutboxInv, [Next]_vars PROVE OutboxInv'
  OBVIOUS
<1> USE DEF OutboxInv
<1>1. ASSUME NEW a \in Admins, CommitResult(a)
      PROVE  OutboxInv'
  <2>1. worker' = worker /\ worker.batch \subseteq DOMAIN outbox
    BY <1>1 DEF CommitResult, TypeOK
  <2>2. SentIsConfirmed'
    BY <1>1, <2>1, StagedRow DEF SentIsConfirmed
  <2>3. PublishedIsConfirmed'
    BY <1>1, StagedRow DEF PublishedIsConfirmed
  <2> QED
    BY <2>2, <2>3
<1>2. ASSUME NEW i \in worker.left, PublishNext(i)
      PROVE  OutboxInv'
  <2>1. /\ i \in DOMAIN outbox /\ worker.batch \subseteq DOMAIN outbox
        /\ confirmed \in [DOMAIN outbox -> Nat]
    BY DEF TypeOK
  <2>2. /\ worker'.batch = worker.batch /\ worker'.left = worker.left \ {i}
        /\ outbox' = outbox
    BY <1>2 DEF PublishNext, TypeOK
  <2>3. \A k \in DOMAIN outbox :
            confirmed'[k] = IF k = i THEN confirmed[k] + 1 ELSE confirmed[k]
    BY <1>2, <2>1 DEF PublishNext
  <2> QED
    BY <2>1, <2>2, <2>3 DEF SentIsConfirmed, PublishedIsConfirmed
<1>3. CASE MarkPublished
  <2>1. worker.left = {} /\ worker' = NoWork /\ confirmed' = confirmed
    BY <1>3 DEF MarkPublished
  <2>2. PublishedIsConfirmed'
    BY <1>3, <2>1, MarkedRows DEF SentIsConfirmed, PublishedIsConfirmed
  <2> QED
    BY <2>1, <2>2 DEF SentIsConfirmed, NoWork
<1>4. CASE SelectPending
  BY <1>4, IdleOutboxInv DEF SelectPending
<1>5. CASE PublishFails \/ Restart
  BY <1>5, IdleOutboxInv DEF PublishFails, Restart, NoWork
<1>6. CASE CommitProjection
  BY <1>6, IdleOutboxInv DEF CommitProjection, publisher
<1>7. ASSUME NEW a \in Admins, \/ \E m \in Matches, score \in Scores : EnterResult(a, m, score)
                              \/ ReadPicks(a) \/ RequestFails(a)
      PROVE  OutboxInv'
  BY <1>7, IdleOutboxInv DEF EnterResult, ReadPicks, RequestFails, publisher
<1>8. CASE \/ UNCHANGED vars
           \/ \E l \in Locks : PublishLock(l) \/ HandlePickLocked(l)
           \/ Ack \/ ProjectionFails \/ AckLost
  BY <1>8, IdleOutboxInv
  DEF vars, publisher, PublishLock, HandlePickLocked, Ack, ProjectionFails, AckLost
<1> QED
  BY <1>1, <1>2, <1>3, <1>4, <1>5, <1>6, <1>7, <1>8
  DEF Next, SettleStep, ConsumerStep, OutboxStep

\* docs/adr/0005, "I never lose an event": a row is marked only after the exchange
\* has confirmed its event, wherever the job fails between sending and marking.
THEOREM MarkedMeansConfirmed == Spec => []PublishedIsConfirmed
<1>1. TypeOK /\ OutboxInv /\ [Next]_vars => OutboxInv'
  BY NextOutboxInv
<1>2. OutboxInv => PublishedIsConfirmed
  BY DEF OutboxInv
<1> QED
  BY <1>1, <1>2, InitOutboxInv, TypeCorrect, PTL DEF Spec

-----------------------------------------------------------------------------
(***************************************************************************)
(* A result and its event.                                                 *)
(***************************************************************************)
\* No match has an outcome, no request has read one.
LEMMA InitResultInv == Init => ResultInv
  BY DEF Init, ResultInv, ReadOutcomeWasAnnounced, ResultWasAnnounced, NoRequest

\* ResultWasAnnounced for one match.
Announced(m) ==
    IF Staged(m) = {}
    THEN matches[m].outcome = Null /\ matches[m].status # "SETTLED"
    ELSE \E i \in Staged(m) : matches[m].outcome = outbox[i].result.outcome

\* The property, match by match.
LEMMA AnnouncedMatches == ResultWasAnnounced <=> \A m \in Matches : Announced(m)
  BY DEF ResultWasAnnounced, Announced, Staged

\* An outcome that a match shows was announced.
LEMMA ShownIsStaged ==
    ASSUME NEW m \in Matches, Announced(m), matches[m].outcome # Null
    PROVE  Staged(m) # {}
  BY DEF Announced

\* A step that stages nothing and neither changes an outcome nor settles a match
\* keeps the invariant.
LEMMA UnstagedResultInv ==
    ASSUME ResultInv,
           DOMAIN outbox' = DOMAIN outbox,
           \A i \in DOMAIN outbox : /\ outbox'[i].match = outbox[i].match
                                    /\ outbox'[i].result = outbox[i].result,
           \A m \in Matches : /\ matches'[m].outcome = matches[m].outcome
                              /\ matches'[m].status = "SETTLED" => matches[m].status = "SETTLED",
           ReadOutcomeWasAnnounced'
    PROVE  ResultInv'
<1>1. ASSUME NEW m \in Matches
      PROVE  Announced(m)'
  <2>1. Announced(m)
    BY AnnouncedMatches DEF ResultInv
  <2>2. Staged(m)' = Staged(m)
    BY DEF Staged
  <2> QED
    BY <2>1, <2>2 DEF Announced, Staged
<1>2. ResultWasAnnounced'
  BY <1>1 DEF ResultWasAnnounced, Announced, Staged
<1> QED
  BY <1>2 DEF ResultInv

\* The projection changes no outcome and settles nothing.
LEMMA ProjectedMatches ==
    ASSUME TypeOK, CommitProjection, NEW m \in Matches
    PROVE  /\ matches'[m].outcome = matches[m].outcome
           /\ matches'[m].status = "SETTLED" => matches[m].status = "SETTLED"
<1> DEFINE seen == handling.seen
           locked == [seen EXCEPT !.status = "LOCKED"]
           n == Locked[handling.event].match
<1>1. seen \in MatchRow /\ n \in Matches
  BY HandlingSteps, FixtureAssumption DEF TypeOK, CommitProjection
<1>2. locked \in MatchRow /\ locked.status = "LOCKED" /\ locked.outcome = seen.outcome
  BY <1>1 DEF MatchRow, Statuses
<1>3. matches' = matches \/ matches' = [matches EXCEPT ![n] = Flush(@, seen, locked)]
  BY DEF CommitProjection
<1> HIDE DEF locked, seen, n
<1> QED
  BY <1>1, <1>2, <1>3, FlushedRow DEF TypeOK

\* The commit writes the outcome unless the match had it when it was read, in
\* which case another result has been announced for the match and stays.
LEMMA CommittedMatches ==
    ASSUME TypeOK, NEW a \in Admins, CommitResult(a)
    PROVE  LET r == request[a] IN
           /\ \A m \in Matches \ {r.match} : matches'[m] = matches[m]
           /\ r.match \in Matches
           /\ matches'[r.match].outcome =
                 IF r.result.outcome # r.seen.outcome THEN r.result.outcome
                                                      ELSE matches[r.match].outcome
<1> DEFINE r == request[a]
           new == [status |-> "SETTLED", home |-> r.result.home, away |-> r.result.away,
                   outcome |-> r.result.outcome]
<1>1. r.match \in Matches /\ r.seen \in MatchRow /\ r.result \in Result
  BY RequestSteps DEF TypeOK, CommitResult
<1>2. new \in MatchRow /\ new.outcome = r.result.outcome
  BY <1>1 DEF MatchRow, Result, Statuses
<1>3. matches' = [matches EXCEPT ![r.match] = Flush(@, r.seen, new)]
  BY DEF CommitResult
<1> HIDE DEF new
<1> QED
  BY <1>1, <1>2, <1>3, FlushedRow DEF TypeOK

\* Staging the event of a committed result keeps every match announced.
LEMMA CommitAnnounces ==
    ASSUME TypeOK, ResultInv, NEW a \in Admins, CommitResult(a), NEW m \in Matches
    PROVE  Announced(m)'
<1> DEFINE r == request[a]
           n == Len(outbox) + 1
<1>1. /\ DOMAIN outbox' = DOMAIN outbox \cup {n} /\ n \notin DOMAIN outbox
      /\ \A i \in DOMAIN outbox : outbox'[i] = outbox[i]
      /\ outbox'[n].match = r.match /\ outbox'[n].result = r.result
  BY StagedRow
<1>2. Announced(m)
  BY AnnouncedMatches DEF ResultInv
<1> HIDE DEF n
<1>3. CASE m # r.match
  <2>1. matches'[m] = matches[m]
    BY <1>3, CommittedMatches
  <2>2. Staged(m)' = Staged(m)
    BY <1>1, <1>3 DEF Staged
  <2> QED
    BY <1>1, <1>2, <2>1, <2>2 DEF Announced, Staged
<1>4. CASE m = r.match /\ r.result.outcome # r.seen.outcome
  <2>1. n \in Staged(m)' /\ matches'[m].outcome = outbox'[n].result.outcome
    BY <1>1, <1>4, CommittedMatches DEF Staged
  <2> QED
    BY <2>1 DEF Announced
<1>5. CASE m = r.match /\ r.result.outcome = r.seen.outcome
  <2>1. r.seen.outcome # Null /\ r.step # "idle"
    <3>1. r.result \in Result /\ r.step = "commit"
      BY RequestSteps DEF TypeOK, CommitResult
    <3> QED
      BY <1>5, <3>1, FixtureAssumption DEF Result
  <2>2. PICK i \in Staged(m) : matches[m].outcome = outbox[i].result.outcome
    BY <1>2, <1>5, <2>1 DEF ResultInv, ReadOutcomeWasAnnounced, Announced
  <2>3. i \in Staged(m)' /\ matches'[m].outcome = outbox'[i].result.outcome
    BY <1>1, <1>5, <2>2, CommittedMatches DEF Staged
  <2> QED
    BY <2>3 DEF Announced
<1> QED
  BY <1>3, <1>4, <1>5

\* The commit announces the outcome it writes; where the unit of work writes none,
\* the outcome on show was announced before it was read.
LEMMA NextResultInv == TypeOK /\ ResultInv /\ [Next]_vars => ResultInv'
<1> SUFFICES ASSUME TypeOK, ResultInv, [Next]_vars PROVE ResultInv'
  OBVIOUS
<1>a. ReadOutcomeWasAnnounced /\ ResultWasAnnounced
  BY DEF ResultInv
<1>1. CASE Quiet
  <2>1. Kept
    BY <1>1, QuietKeeps
  <2>2. ReadOutcomeWasAnnounced'
    BY <1>a, <2>1 DEF Kept, ReadOutcomeWasAnnounced, Staged
  <2>3. matches' = matches
    BY <1>1 DEF Quiet, vars, RequestFails, PublishLock, HandlePickLocked, Ack, SelectPending,
           PublishNext, ProjectionFails, AckLost, PublishFails, Restart
  <2> QED
    BY <2>1, <2>2, <2>3, UnstagedResultInv DEF Kept
<1>2. ASSUME NEW a \in Admins, NEW m \in Matches, NEW score \in Scores, EnterResult(a, m, score)
      PROVE  ResultInv'
  <2>1. UNCHANGED <<matches, outbox>>
    BY <1>2 DEF EnterResult
  <2>2. /\ \A b \in Admins \ {a} : request'[b] = request[b]
        /\ request'[a].match = m /\ request'[a].seen = matches[m]
    BY <1>2 DEF EnterResult, TypeOK
  <2>3. matches[m].outcome # Null => Staged(m) # {}
    BY <1>a, AnnouncedMatches, ShownIsStaged
  <2>4. ReadOutcomeWasAnnounced'
    BY <1>a, <2>1, <2>2, <2>3 DEF ReadOutcomeWasAnnounced, Staged
  <2> QED
    BY <2>1, <2>4, UnstagedResultInv
<1>3. ASSUME NEW a \in Admins, ReadPicks(a)
      PROVE  ResultInv'
  <2>1. UNCHANGED <<matches, outbox>> /\ request[a].step = "picks"
    BY <1>3 DEF ReadPicks
  <2>2. /\ \A b \in Admins \ {a} : request'[b] = request[b]
        /\ request'[a].match = request[a].match /\ request'[a].seen = request[a].seen
    BY <1>3 DEF ReadPicks, TypeOK
  <2>3. ReadOutcomeWasAnnounced'
    BY <1>a, <2>1, <2>2 DEF ReadOutcomeWasAnnounced, Staged
  <2> QED
    BY <2>1, <2>3, UnstagedResultInv
<1>4. ASSUME NEW a \in Admins, CommitResult(a)
      PROVE  ResultInv'
  <2>1. \A b \in Admins : request'[b] = request[b] \/ request'[b].step = "idle"
    BY <1>4 DEF CommitResult, NoRequest, TypeOK
  <2>2. \A m : Staged(m) \subseteq Staged(m)'
    BY <1>4, StagedRow DEF Staged
  <2>3. ReadOutcomeWasAnnounced'
    BY <1>a, <2>1, <2>2 DEF ReadOutcomeWasAnnounced
  <2>4. \A m \in Matches : Announced(m)'
    BY <1>4, CommitAnnounces
  <2>5. ResultWasAnnounced'
    BY <2>4 DEF ResultWasAnnounced, Announced, Staged
  <2> QED
    BY <2>3, <2>5 DEF ResultInv
<1>5. CASE CommitProjection
  <2>1. UNCHANGED <<outbox, request>>
    BY <1>5 DEF CommitProjection
  <2>2. ReadOutcomeWasAnnounced'
    BY <1>a, <2>1 DEF ReadOutcomeWasAnnounced, Staged
  <2> QED
    BY <1>5, <2>1, <2>2, ProjectedMatches, UnstagedResultInv
<1>6. CASE MarkPublished
  <2>1. UNCHANGED <<matches, request>>
    BY <1>6 DEF MarkPublished
  <2>2. \A m : Staged(m)' = Staged(m)
    BY <1>6, MarkedRows DEF Staged
  <2>3. ReadOutcomeWasAnnounced'
    BY <1>a, <2>1, <2>2 DEF ReadOutcomeWasAnnounced
  <2> QED
    BY <1>6, <2>1, <2>3, MarkedRows, UnstagedResultInv
<1> QED
  BY <1>1, <1>2, <1>3, <1>4, <1>5, <1>6, StepCases

\* settle_match, "all in one transaction": a match shows an outcome only if an
\* event staged for the match carries it, though administrators race one another
\* and the consumer, and each writes only the columns it has changed.
THEOREM ResultsAreAnnounced == Spec => []ResultWasAnnounced
<1>1. TypeOK /\ ResultInv /\ [Next]_vars => ResultInv'
  BY NextResultInv
<1>2. ResultInv => ResultWasAnnounced
  BY DEF ResultInv
<1> QED
  BY <1>1, <1>2, InitResultInv, TypeCorrect, PTL DEF Spec

-----------------------------------------------------------------------------
(***************************************************************************)
(* Nothing is projected out of the blue: a projected event was published,  *)
(* through the copies in the queue, the delivery and what is requeued.     *)
(***************************************************************************)
ProjectedWerePublished == \A l \in projected : sent[l] > 0

DeliveryInv ==
    /\ \A l \in Locks : waiting[l] > 0 => sent[l] > 0
    /\ handling.step # "idle" => sent[handling.event] > 0
    /\ ProjectedWerePublished

LEMMA NextDeliveryInv == TypeOK /\ DeliveryInv /\ [Next]_vars => DeliveryInv'
<1> SUFFICES ASSUME TypeOK, DeliveryInv, [Next]_vars PROVE DeliveryInv'
  OBVIOUS
<1> USE HandlingSteps DEF TypeOK, DeliveryInv, ProjectedWerePublished
<1>1. CASE UNCHANGED consumer
  BY <1>1 DEF consumer
<1>2. ASSUME NEW l \in Locks, PublishLock(l) PROVE DeliveryInv'
  <2>1. \A k \in Locks : sent[k] > 0 => sent'[k] > 0
    BY <1>2 DEF PublishLock
  <2>2. \A k \in Locks : waiting'[k] > 0 => sent'[k] > 0
    BY <1>2 DEF PublishLock
  <2> QED
    BY <1>2, <2>1, <2>2 DEF PublishLock
<1>3. ASSUME NEW l \in Locks, HandlePickLocked(l) PROVE DeliveryInv'
  BY <1>3 DEF HandlePickLocked
<1>4. CASE CommitProjection
  <2>1. handling \in [step : {"commit", "ack"}, event : Locks, seen : MatchRow]
    BY <1>4 DEF CommitProjection, Handling, NoHandling
  <2>2. handling'.event = handling.event
    BY <1>4, <2>1 DEF CommitProjection
  <2> QED
    BY <1>4, <2>2 DEF CommitProjection
<1>5. CASE Ack \/ ProjectionFails
  BY <1>5 DEF Ack, ProjectionFails
<1>6. CASE AckLost \/ Restart
  <2>1. \A l \in Locks : waiting'[l] > 0 =>
           waiting[l] > 0 \/ (handling.step # "idle" /\ l = handling.event)
    BY <1>6 DEF AckLost, Restart, Handling
  <2> QED
    BY <1>6, <2>1 DEF AckLost, Restart
<1>7. ASSUME NEW a \in Admins,
             \/ \E m \in Matches, score \in Scores : EnterResult(a, m, score)
             \/ SettleStep(a) \/ RequestFails(a)
      PROVE  DeliveryInv'
  BY <1>1, <1>7 DEF EnterResult, SettleStep, ReadPicks, CommitResult, RequestFails
<1>8. CASE OutboxStep \/ PublishFails \/ UNCHANGED vars
  BY <1>1, <1>8 DEF OutboxStep, SelectPending, PublishNext, MarkPublished, PublishFails, vars,
     consumer
<1> QED
  BY <1>1, <1>2, <1>3, <1>4, <1>5, <1>6, <1>7, <1>8 DEF Next, ConsumerStep

\* Every event that the consumer has projected is one that Prediction published.
THEOREM OnlyPublishedIsProjected == Spec => []ProjectedWerePublished
<1>1. Init => DeliveryInv
  BY HandlingSteps DEF Init, DeliveryInv, ProjectedWerePublished
<1>2. DeliveryInv => ProjectedWerePublished
  BY DEF DeliveryInv
<1> QED
  BY <1>1, <1>2, NextDeliveryInv, TypeCorrect, PTL DEF Spec

\* The outbox stays within its bound, and its rows within their ids.
LEMMA OutboxWithinBound == Spec => [](DOMAIN outbox \subseteq 1..MaxEvents)
<1> DEFINE Bounded == Len(outbox) <= MaxEvents
<1>1. Init => Bounded
  BY FixtureAssumption DEF Init
<1>2. TypeOK /\ Bounded /\ [Next]_vars => Bounded'
  <2> SUFFICES ASSUME TypeOK, Bounded, [Next]_vars PROVE Bounded'
    OBVIOUS
  <2>1. outbox \in Seq(OutboxRow) /\ MaxEvents \in Nat
    BY FixtureAssumption DEF TypeOK
  <2>2. CASE UNCHANGED outbox
    BY <2>2
  <2>3. ASSUME NEW a \in Admins, CommitResult(a) PROVE Bounded'
    BY <2>1, <2>3 DEF CommitResult
  <2>4. CASE MarkPublished
    BY <2>1, <2>4, MarkedRows DEF TypeOK
  <2> QED
    BY <2>2, <2>3, <2>4 DEF Next, vars, EnterResult, SettleStep, ReadPicks, RequestFails,
       PublishLock, ConsumerStep, HandlePickLocked, CommitProjection, Ack, OutboxStep,
       SelectPending, PublishNext, ProjectionFails, AckLost, PublishFails, Restart
<1>3. TypeOK /\ Bounded => DOMAIN outbox \subseteq 1..MaxEvents
  BY FixtureAssumption DEF TypeOK
<1> QED
  BY <1>1, <1>2, <1>3, TypeCorrect, PTL DEF Spec

=============================================================================
