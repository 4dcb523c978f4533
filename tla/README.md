# Prediction League in TLA+

The Prediction League is three services that share no database and talk through
RabbitMQ: players predict matches in groups, an administrator enters results, and each
losing player owes a stake to a common pool. Money is involved, every message may come
twice or late, and each service has several threads on one database. These modules model
the three services closely enough to check what a unit test hardly reaches, and prove
the central guarantees of each service and of the whole, from the pick to the charge,
for any number of players, events, threads and failures.

## The system

| Component | State | Operations | Hard part |
|---|---|---|---|
| **Ledger: posting** (`PostingService`) | `accounts`, `journal_entries`, `postings`, `audit_log` | `post`, `validateBalanced`, `resolveAccount` | concurrent find-then-save, UNIQUE constraints, rollback, deadlock, long arithmetic |
| **Ledger: settlement** (`MatchSettledConsumer`, `SettlementService`) | queue `ledger.match-settled`, delivery in progress | one transaction per losing line, retry, ack, dead-letter | redelivery, crash between lines, lost commit answer, orphaned threads |
| **Ledger: administration** (`LedgerService`, `AdminController`) | requests in progress | `postManualEntry`, `reverse` | two requests at once, reversal of anything |
| **Fixture: results** (`settle_match`) | `matches`, `match_picks`, `outbox` | `settle_match` | read-then-write without a lock |
| **Fixture: projection** (`pick_locked_consumer.py`) | queue `fixture.pick-locked`, `match_picks`, `matches.status` | `handle_pick_locked`, ack, nack | redelivery, order, a status read before and written after |
| **Fixture: outbox job** (`publisher.py`) | `outbox.published_at` | `publish_pending_outbox` | failure between publishing and marking |
| **Prediction: picks** (`operations.py`) | `group_members`, `match_ref`, `picks` | `create_group`, `join_group`, `submit_pick`, `sync_match_ref` | window checked long before the commit |
| **Prediction: locking** (`lock.py`, `scheduler.py`) | the round of the job, a run between its two commits | `_lock_job`, `lock_match`, `force_lock` | racing submissions, crash between commit and publication |
| **Broker** (`RabbitConfig.java`, both `rabbit.py`) | bindings, dead-letter queues | declare, publish, reject | a binding that is not there yet, one dead-letter fanout for two services |

How they interact: Prediction publishes `PickLocked` (one per group of a match), Fixture
projects it into `match_picks`; a result makes Fixture stage one `MatchSettled` with a
line per projected pick, the outbox job publishes it, and the Ledger charges each `LOST`
line. Nothing flows back, and REST calls between services only read (Prediction's
fixture sync).

What makes each correct, in a sentence: the Ledger charges each losing line exactly once
and its books balance; Fixture never shows a result it did not announce and loses no
event; Prediction announces only what is on record, and locks a match only when all of
it is announced; the broker keeps what is rejected; and all together charge each losing
pick that was announced at most once, and in the end once, unless its event was published
before the queue was bound or ended among the dead letters.

## Modules

| Module | What it is |
|---|---|
| `JournalEntry` | The pure part of posting: directions, totals in wrapping longs, `ValidateBalanced`, `FlipDirection`. |
| `Sums` | Laws of sums over finite sets, and what the totals of an entry are. |
| `JournalEntryProofs` | Theorems about the validation, for requests of any length. |
| `Ledger` | The ledger service, one SQL statement a step. |
| `AtomicLedger` | What the ledger promises: a book in which one entry at a time appears, whole, under a new key. |
| `LedgerProofs` | Theorems about `Ledger`: types, keys, accounts. |
| `LedgerJournalProofs` | Where the entries of the journal come from, reversals, acknowledged events. |
| `LedgerBookProofs` | The journal as a whole: `Ledger` implements `AtomicLedger`, the books balance, players owe their losses. |
| `FixtureProofs`, `PredictionProofs` | Theorems about `Fixture` and `Prediction`. |
| `Fixture` | Results, projection and outbox of the fixture service. |
| `Prediction` | Groups, picks and locking of the prediction service. |
| `Broker` | The RabbitMQ topology as the services set it up, and where a message goes under it. |
| `Saga` | The whole: `Prediction`, `Fixture`, `Ledger` and `Broker`, joined at their events. |
| `SagaProofs` | Each service in the whole is what its module says; theorems about the whole; `Saga` implements `CommonPool`. |
| `CommonPool` | What the whole promises: announced picks, one result for a match, one stake for a loser. |
| `MCJournalEntry`, `MCLedgerRedelivery`, `MCLedgerAdmin`, `MCFixture`, `MCPrediction`, `MCSaga` | Instances for TLC. |

Definitions marked `Defect` are not part of any specification. Each is a bug a change to
the code could introduce; put in place of the definition after it, it makes a property
fail, which shows that the property can fail.

### Ledger

A worker is a listener thread or an administrator's request thread. Its open transaction
`tx[w]` goes through `insert` (validated; next the journal entry is inserted), `lines`
(next posting: look the account up) and `open` (no account was found: insert one), then
commits. PostgreSQL is modelled at READ COMMITTED: a step sees the committed rows and
the transaction's own; an INSERT of a value that another open transaction holds
(`HoldsKey`, `HoldsOwner`) is not enabled until that one ends, an INSERT of a committed
value fails the transaction. `Deadlocked` finds cycles of waiting transactions, of which
one is cancelled. An exception reaches the administrator, or the listener's stateless
retry, which starts the event again from its first line and, when the attempts are used
up, rejects the message to the dead-letter exchange.

`job[c]` is the delivery of a listener thread: `next` is the line its loop has reached,
`live` is false once its connection is gone. The broker then requeues the copy while the
thread works on, so an orphan and the redelivery run side by side; this is why two
consumers are enough to have every race of a redelivery.

`SettleLosingPick` does the existence check and the start of `post` in one step, because
the validation between them touches no shared state; the INSERT is a later step, so the
check may be stale when it is used. Likewise `PostManualEntry` and `Reverse`. A request
refused before it touches the database changes nothing and is no step.

An owner stands for the pair (owner_type, owner_id). Keys are tuples: the formats
`<event_id>:<user_id>` and `reverse:<id>` cannot meet. An administrator may choose a key
of either form for a manual entry; the charge or reversal of that key is then skipped or
refused, and `AckedFullySettled` counts such a line as settled, as the code does.
Reason, actor, currency, match_id and timestamps are left out: no decision reads them.

### Fixture

`EnterResult` (the read of the match and its status check), `ReadPicks` and
`CommitResult` are the three moments of `settle_match`. `HandlePickLocked` reads the
match, `CommitProjection` upserts the picks and writes the status, `Ack` acknowledges.
SQLAlchemy writes only columns whose value changed: `Flush`. The outbox job selects a
batch, publishes it row by row in id order (`worker.left` is what is still to be sent)
and marks the batch in one commit. `MaxEvents` bounds the outbox where a row is
committed. `confirmed` counts what
the exchange has confirmed for each outbox row; where the message goes then is
`Broker`'s matter.

### Prediction

Every SELECT of `submit_pick` and `lock_match` is a step, and so is each commit and each
publication. `clock` and `lockAt` are small integers: a kickoff can be moved by an
administrator of Fixture, and the sync brings any `lock_at`, the answer it works with
being as old as it may be. `due` is what is left of the job's round, which any exception
ends. The stake is left out: Fixture never changes the stake of a match, so it is the
same on every pick row. Contents of events are kept as a set: their event_ids differ,
but no property here asks how often one was sent.

### Broker

`bound` is the set of queues whose binding exists. A service declares its bindings one
after the other when it connects (`Declare`), consumes only then (`Connected`), and
starts over after a lost connection; a binding, once made, stays. The order is that of
`declare_topology` and of the `Binding` beans. The outbox job binds Fixture's queues,
never the Ledger's, on its own connection; `lock_match` binds nothing. A message that is
published while its queue is not bound is confirmed and goes to `unrouted`. A rejected
message goes to every dead-letter queue bound by then (`Reject`: the exchange is a
fanout). Exchanges and queues are left out, because each is declared before it is bound.

### Saga

Each service is an instance of its own module, its variables renamed where two services
use one name; the definitions of a service are not repeated. A step is one service's
step while the others stand still, except where two meet:

| Step of `Saga` | is the step of | and of |
|---|---|---|
| `PublishPickLocked`, `PickLockedConfirmLost` | `Prediction` (`PublishNext`, `ConfirmLost`) | `Broker`, and Fixture's queue if it is bound (`PublishLock`) |
| `PublishMatchSettled` | `Fixture` (`PublishNext`) | `Broker`, and the Ledger's queue if it is bound (`Publish`) |
| `ProjectionStep`, `Deliver` | the consumer | guarded by `Broker` (`Connected`) |
| `FixtureFails`, `ListenerStep`, `LedgerFails` | the service | `Broker` (`Reject` for a given-up message, `Disconnect` for a lost connection or a restart) |

Every constant of a service is given by one of `Saga`'s, and `SagaAssumption` says what
those have to be: finite sets of players and threads, players who are not system
accounts, predictions that are outcomes, a stake and kickoffs in `Nat`. The services'
own assumptions are not repeated; they follow (below, "The whole").

`LockMessage` and `SettledMessage` translate an event as the sender builds it into the
event as the receiver reads it. A `PickLocked` event is known by its contents, a
`MatchSettled` event by its outbox row, which is what its `event_id` identifies.
Force-locks and manual entries are left to the services' own runs (the sets of those
threads are empty here), because neither moves an event that the other steps do not.

`ResultsAfterLock` is a discipline of the administrators, not of the code: enter a
result only when Fixture shows the match as `LOCKED`. With it and one administrator at a
time, `Saga` implements `CommonPool`: `owed` is computed from the journal, `locked` from
what Prediction has announced, `result` from Fixture's table. The two runs
`fixture_two_admins` and `fixture_stale_read` show what becomes of it without the
discipline, `saga_late_lock` what the discipline does not prevent.

## Runs

All bounds are named in the modules (`MaxCopies`, `MaxFaults`, `MaxEntries`,
`MaxEvents`, `MaxClock`, `MaxAttempts`). `CHECK_DEADLOCK FALSE` everywhere: with no
message in a queue, no request and no failure left to inject, these systems do stop.

| Run | Instance | Shows |
|---|---|---|
| `journal_entry` | amounts 0..7, at most 4 lines, `MaxLong = 7` | validation against its definition by sums, exact while each total fits into a long, and modulo 2^64 whatever they are; an accepted entry can be reversed |
| `ledger_redelivery` | 2 threads, 2 events with a common loser, 2 copies each, 1 failure, 2 attempts | `KeysUnique`, `OneAccountPerOwner`, `AckedFullySettled`, `PlayersOweTheirLosses` |
| `ledger_admin` | 2 administrators, 1 thread, 1 event, opposite transfers between 2 players, reversals, manual entries under the key of the charge and of a reversal, 1 failure | `AckedFullySettled`, `BooksBalance`, `ReversalsCancel`, and that `Ledger` implements `AtomicLedger` |
| `ledger_liveness` | as `ledger_admin`, fewer entries, with fairness | `DeliveriesEnd`, `TransactionsEnd` |
| `fixture` | 2 administrators, 2 groups that share a player, 1 failure | `OneLinePerUser`, `ResultWasAnnounced`, `LinesComeFromLocks`, `PublishedIsConfirmed` |
| `saga` | 1 player, 1 group, 1 match, 1 thread of each kind, moving kickoff, 1 failure in all, with fairness | `DeadLettersKept`, `ChargesAreAnnounced`, `OneStakePerMatch`, `PicksGetProjected`, `LosersGetCharged`, and that `Saga` implements `CommonPool` |
| `prediction` | job and force-lock, 2 players in a group, 1 request thread, moving kickoff, 1 failure | `AnnouncedIsDurable`, `AutoLossMeansNoPick` |
| `prediction_job` | job alone, 2 matches, 2 groups, 1 player, 1 failure, with fairness | `LockedIsAnnounced`, `DueMatchesLock` |
| `fixture_two_admins`, `fixture_stale_read`, `prediction_late_submit`, `saga_late_lock` | smallest that matters | the disagreements below |

Why the bounds are enough: the races are between pairs (two workers and one key, one
owner, one match row, one pick row), so two of each actor give every pairwise
interleaving; two copies of an event are what a redelivery is; one failure can strike at
every step, and two attempts are enough for a retry and for dead-lettering. Two events
with a common loser, two groups with a common player and transfers in opposite
directions are the smallest data on which the conflicts happen. `MaxEntries = 3` allows
a reversal of a reversal. With `MaxLong = 7` four lines are enough for balanced entries
with several lines on each side, for totals of exactly `MaxLong`, for three debits that
wrap around to equal a small credit, and for balanced entries whose totals both wrap.

`saga` is about the joints, not about races inside a service, which the services' own
runs have with two of everything. One player is enough for a pick to be submitted or
missing, locked, projected, charged, and each of these to be lost or repeated; one
failure strikes any service at any step. `MaxCopies` is one more than `MaxFaults`, so
the bound never keeps a publisher from publishing; `MaxAttempts = 1` makes the one
failure enough for a dead letter. What needs two groups, `saga_late_lock`, needs no
failure.

Symmetry is used among threads, administrators or players, in runs without liveness
properties only.

### Fairness

Ledger and Prediction: weak fairness of each worker's own steps; a thread that can run
does, and APScheduler starts the lock job again every few seconds. In the Ledger, strong
fairness of the delivery of an event: the queue is first-in first-out, so a waiting copy
is not passed over forever although single deliveries of it are disabled while threads
are busy. In `Saga`: weak fairness of the lock job, of Fixture's consumer thread with
its declarations (one thread, one loop), of the outbox job, of each listener thread, of
the Ledger's declarations, and of a result that was received; a crashed service is taken
to be started again. Nobody is assumed to publish, submit, join, enter a result or fail.
Failures are bounded by `MaxFaults`, so a liveness run says what happens once failures
cease.

`PicksGetProjected` and `LosersGetCharged` each name two exceptions, a rejected message
and one published before its queue was bound. Both are losses the code allows, and the
run fails if either is left out.

### Disagreements the runs show

- `fixture_two_admins`: two results entered at once for a match both pass the `SETTLED`
  check. Two `MatchSettled` events, two event_ids, and the Ledger charges each loser
  twice: its keys are per event.
- `saga_late_lock`: Fixture shows a match as `LOCKED` as soon as the first group's picks
  are projected. A result entered then settles the match without the other groups, and
  nothing ever settles them later; no failure is needed, and an administrator who waits
  for `LOCKED` is not safe.
- `fixture_stale_read`: the projection writes `LOCKED` over a `SETTLED` it did not see;
  the match then takes a second result.
- `prediction_late_submit`: a submission begun in time commits after the lock and
  changes a pick that is already locked and announced.

Met while modelling, without a run of their own: `validateBalanced` sums in longs, so
debits of 2^63-1, 2^63-1 and 3 equal a credit of 1; after four failed attempts a
`MatchSettled` rests in a dead-letter queue nobody reads; the dead-letter exchange is a
fanout, so a rejected message lands in both services' dead-letter queues; published
before its consumer has bound the queue, an event of either kind is confirmed and lost;
docs/event-contracts.md says that the projection is keyed on `event_id` and that a
redelivery is a no-op, but it is keyed on match and user, so a redelivered `PickLocked`
of one group overwrites a newer pick of another group of the same player; with a
force-lock and a failure, late members' picks can be locked and never announced; a
member who joins and submits after `lock_match` has read the group keeps an `OPEN` pick
for a `LOCKED` match.

## Proofs

Every theorem holds for all values of the constants that satisfy the assumptions of its
module, and so for any number of players, groups, matches, messages, threads, failures
and attempts.

| Module | Theorem | `Spec =>` |
|---|---|---|
| `JournalEntryProofs` | `ValidationIsExact` | `[]ValidatesBalance` |
| | `ValidationIsModular` | `[]OffByWholeLongs` |
| | `ReversalsPassValidation` | `[]ReversalAccepted` |
| `LedgerProofs` | `TypeCorrect` | `[]TypeOK` |
| | `NoDoublePosting` | `[]KeysUnique` |
| | `OneRowPerPlayer` | `[]OneAccountPerOwner` |
| `LedgerJournalProofs` | `EntriesAsAsked` | each entry is, posting by posting, a charge, a manual entry or a flipped entry, on existing accounts, under an id of its own |
| | `ReversalsTakeBack` | `[]ReversalsCancel` |
| | `AcknowledgedMeansCharged` | `[]AckedFullySettled` |
| | `OnlyPublishedIsCharged` | a charge is for an event that was published |
| `LedgerBookProofs` | `LedgerIsAtomic` | `ImplementsAtomicLedger` |
| | `EveryEntryValidated` | `[]EntriesValidated`: whatever is in the journal, reversals included, passed `validateBalanced` as it stands there |
| | `ChargesPassValidation` | (of no specification) a charge of a stake between 1 and `MaxLong` is never refused |
| | `MoneyIsConserved` | `[]BooksBalance`, if the totals of manual entries fit into a long |
| | `LossesChargedOnce` | `[]PlayersOweTheirLosses`, if no administrator writes entries and no stake is negative |
| `FixtureProofs` | `TypeCorrect` | `[]TypeOK` |
| | `OneLineForEachUser` | `[]OneLinePerUser` |
| | `LinesAreHandedOver` | `[]LinesComeFromLocks` |
| | `MarkedMeansConfirmed` | `[]PublishedIsConfirmed` |
| | `ResultsAreAnnounced` | `[]ResultWasAnnounced` |
| | `OnlyPublishedIsProjected` | a projected event was published |
| `PredictionProofs` | `TypeCorrect` | `[]TypeOK` |
| | `AnnouncedPicksAreDurable` | `[]AnnouncedIsDurable` |
| | `AutoLossesHaveNoPick` | `[]AutoLossMeansNoPick` |
| | `LockedMatchesAreAnnounced` | `[]LockedIsAnnounced`, if nobody forces a lock (`Admins = {}`) |
| | `EventsNameEachOnce` | an event has at least one pick, and one for each of its users |
| `SagaProofs` | `PredictionInTheSystem`, `FixtureInTheSystem`, `LedgerInTheSystem` | `P!Spec`, `F!Spec`, `L!Spec` |
| | `TypeCorrect` | `[]TypeOK` |
| | `NoRejectedMessageIsLost` | `[]DeadLettersKept` |
| | `BooksOfTheSystem` | `[](L!BooksBalance /\ L!PlayersOweTheirLosses)` |
| | `OnlyLosersAreCharged` | `[]ChargesAreAnnounced` |
| | `OneStakeForAPlayer` | `[]OneStakePerMatch`, if one administrator at a time enters results |
| | `SettledStaysSettled` | `F!SettledIsFinal`, if administrators wait for the lock |
| | `OneResultForAMatch` | `[]F!OneEventPerMatch`, under both conditions |
| | `CommonPoolImplemented` | `ImplementsCommonPool`, under both conditions |

The assumptions are on constants only. `LedgerAssumption`, `FixtureAssumption` and
`PredictionAssumption` give types, keep players, system owners and threads apart and say
that `Null` is no outcome. `OneLinePerUser` (an event the ledger receives has one line
for a user) and the last part of `FixtureAssumption` (a `PickLocked` event has one pick
for a user) are about what another service sends; for the whole system both are proved.
`LockedMatchesAreAnnounced` needs `Admins = {}`: with a force-lock and a failure it is
false, which is the hazard listed at lock.py:99.

`MoneyIsConserved` needs `ManualTotalsFit`, that the debits of a manual entry, and its
credits, each add up to at most `MaxLong`: `validateBalanced` adds longs, so above that it
lets entries pass that make money, multiples of 2^64 (`OffByWholeLongs`). The theorem says
that this is the only way to make any.
`LossesChargedOnce` needs `Admins = {}`, since a manual entry may credit or debit a player
as it likes, and `StakesCount`, that stakes are not negative: then what the acknowledged
events took is at most what the published ones took. Both are true of `Saga`'s ledger,
where the stake is in `Nat` and no administrator writes entries.

### The ledger

`KeysUnique` is not inductive: nothing in it keeps two open transactions from holding
one key, and then both commit. The strengthening adds `HeldKeys`: a key held by an open
transaction is not in the journal and is held by no other one. `InsertEntry` establishes
it (that is what the UNIQUE constraint does, waiting included), `Commit` hands it over
to `KeysUnique`. For accounts, `AccountsInv` says the same of the owners of the rows a
transaction has opened, and that every id, committed or not, is below the next identity
value, because a row opened by one transaction must not collide with another one's.

What the journal holds takes `RequestsInv`: an open transaction works on a command that
somebody may ask for (`OpenRequests`), the rows it has written so far are the first lines
of that command, posting by posting (`RowsMatch`), and ids are unique among committed and
open entries (`EntryIds`). A commit turns these into `CommittedRequests`. That a reversal
cancels its original then follows from the key, which names an id, the id, which names
one entry, and `OneAccountPerOwner`, which makes the account found again by its owner the
same row.

`AckedFullySettled` needs the loop of the listener, `LoopInv`: every losing line before
the one `job[c].next` has reached is charged, and the thread's transaction charges that
one. The step that matters is the commit, which moves `next` on; the case that would
break it is a key that exists, and there `KeyExists` is what the invariant asks for.

`EntriesValidated` needs `ValidatedInv`: the command of an open transaction has been
validated, when it began, and with `RowsMatch` so has what it commits. The reversal of an
entry passes because it runs through the same totals, wrapped or not, with debits and
credits swapped.

Balances are sums, which the community modules define by recursion, and the induction
that would give their laws is out of the provers' reach in its usual form. `Sums` argues
by the least counterexample instead: the theorem that a well-founded order has minimal
elements takes a set, not an operator, and the smallest set for which a law fails is an
immediate contradiction. This gives what is needed: one element more adds its value,
disjoint sets add up, a sum of sums may be exchanged, and a set may be summed class by
class. The running totals of the validation loop are treated the same way
(`LongTotalWraps`): wrapping after every line gives what wrapping the sum once gives, as
numbers that differ by a multiple of the range wrap to the same long (`Congruent`). While
a total does not exceed `MaxLong` it does not wrap, and the loop computes the sum
(`LongTotalFits`). Where a module uses a sum, a lemma first shows that it is one of these.

`BooksBalance` then follows from the entries: each is balanced (`EntriesBalanced`, from
the validation, with `ManualTotalsFit`; a reversal has the totals of its original
swapped), so its signed amounts add up to nothing. Each posting is on one account, known
by its id (`AccountsInv`), and the account is there (`CommittedRequests`), so the effects
of an entry on all accounts add up to the same. Exchanging the sums over accounts and
entries gives the books.

For `PlayersOweTheirLosses` a player's balance is summed event by event
(`TakenByEvent`). An event has at most one entry for the player, because keys are unique
and it has at most one line for a user; the entry takes the stake of that line. So what
an event has taken is between nothing and the lost stake, and is the stake once the event
is acknowledged, which is `LoopInv` again; an event that was never published has taken
nothing.

For the refinement the mapping is `book <- Book`, `done <- acked`. `Commit` and
`CommitAnswerLost` are `AtomicLedger`'s `Write`, for which the key has to be new
(`HeldKeys`) and the lines those of the command (`RowsMatch`); `Ack` is its `Finish`,
allowed by `LoopInv`; all other steps, whichever thread, stutter.

### Fixture

`SettlementInv`: `match_picks` has one row for a match and user, so what a request read
from it, possibly long ago, has one line for each user, and so has the outbox.
`OriginInv` follows a line the same way from the event that wrote the row last, through
what a request has read, into the outbox. `OutboxInv`: what the job has sent of its batch
(`batch \ left`) is confirmed although it is not marked. `ResultInv`: an outcome that a
request has read was announced when it read it. This is needed because the unit of work
leaves the column alone if the new result has the outcome that was read, while another
commit may have changed it meanwhile; the outcome then still is one that was announced.

### Prediction

`TypeCorrect` needs `RunsAreSynced`: a run exists only for a match whose row the sync has
inserted. `RecordInv` is about time passing between a read and its use: a pick that
`lock_match` found is still on record when it commits, a row without a prediction is
LOCKED, and an UPDATE goes to a row that had a prediction when it was read, so that no
row loses or gains a prediction behind an announcement. `JobInv` has three parts, for the
job alone: a LOCKED pick belongs to a member, a run still has before it, has read or has
announced every LOCKED pick of its match, and so has announced all of them when it marks
the match. `EventsInv` says that a group and a member are reached once in a run.

### The whole

A step of `Saga` is, for each service, a step of that service or none. For Prediction
this is so in every state. For Fixture, what Prediction publishes has to be in
`LockEvents`: that is `TypeCorrect` and `EventsNameEachOnce` of Prediction, which hold
because Prediction's specification is implied. For the ledger, what Fixture publishes has
to be in `SettledEvents`, which is `OneLineForEachUser`, `LinesAreHandedOver` and the
bound on the outbox of Fixture. So the argument goes along the messages, one service
after the other, and it never is circular because nothing flows back. Once a service's
specification is implied, its theorems hold in the whole, provided that its assumptions
follow from `SagaAssumption`; `PredictionConstants`, `FixtureConstants` and
`LedgerConstants` show that they do. `BooksOfTheSystem` is the ledger's two results on
money taken over in this way: `ManualTotalsFit` and `StakesCount`, which they assume, hold
here because no administrator writes entries and every line carries Prediction's `Stake`.
(`SagaProofs` takes each service a second time, as an instance of its proof module; three
lemmas say that these are the same services.)

`DeadLettersKept` is not inductive: it takes that a service works on a message only if
its dead-letter queue is bound (`WorkIsSafe`), and this, that what a service has declared
since it connected is bound (`BrokerInv`). Being connected would not do in place of
`WorkIsSafe`: when one listener thread loses its connection the ledger declares from
nothing again, while deliveries of its other threads go on. `bound` never shrinks.

`ChargesAreAnnounced` goes the whole way back: an entry is a charge for a losing line of
an event (`CommittedRequests`, without administrators), the event was published
(`OnlyPublishedIsCharged`) and so is the message of an outbox row
(`SentSettlementsAreStaged`, rows being never changed), its line is the pick of a
projected event that does not predict the result (`LinesComeFromLocks`), that event was
published (`OnlyPublishedIsProjected`), and Prediction announced it
(`SentLocksAreAnnounced`). It needs neither one administrator at a time nor
`ResultsAfterLock`: without them a player may be charged twice, but never for a pick that
was not announced and lost.

`OneStakePerMatch` does need one administrator at a time, for two who both see a match
unsettled record two events with lines (`fixture_two_admins`). It does not need waiting
for the lock, although a match may otherwise be settled twice (`fixture_stale_read`).
The ledger keeps one charge for an event and a player (`KeysUnique`); what has to be shown
is that of the events of a match one has lines (`OneEventWithLines`). A match leaves
SETTLED only when a projection that has read it as SCHEDULED commits after the result;
there is one consumer, so this is the first projection of the match, there were no picks
before it (`FirstProjection`), and the event of the result that it overwrites has no
lines. A match with picks, therefore, stays SETTLED, and takes no other result while the
event that has lines exists.

When administrators wait for the lock, a result is on its way only for a match that was
read as LOCKED (`LateResults`), a match the consumer has read as SCHEDULED is SCHEDULED
until it commits (`FreshRead`), and LOCKED is never written over a result:
`SettledStaysSettled`. With one administrator at a time as well, an outbox row is for a
settled match and a result on its way is not (`OneResultInv`), which gives
`OneResultForAMatch`. The code enforces neither condition.

`CommonPoolImplemented` is under the same two conditions. The mapping takes `owed` from
the journal as a sum, and `OwedInv` says what the sum is: one stake if an entry charges
the player for the match, else nothing. At most one entry does (`OneStakePerMatch`), and
each takes one stake from one player (`ChargesAreAnnounced`). `OutcomeInv` ties the
outcome that Fixture shows to the outbox: a match without a result shows none, a settled
one shows the outcome of its event, and a request on its way has read none, so that the
unit of work does write the column. A step of the whole then is of one of three kinds.
Prediction announces picks: `Announce`. The ledger commits an entry: `Charge`, whose
guard needs a result (`OutcomeInv`), a lost pick (`ChargesAreAnnounced`) and a player not
yet charged (`OneStakePerMatch`, after the step). Anything else leaves announcements
and the journal alone: `CommitResult` is `Settle`, of a match without a result
(`OneResultInv`), and the other steps stutter, since outbox rows and outcomes stay.

### What stays with TLC

- Liveness (`DeliveriesEnd`, `TransactionsEnd`, `DueMatchesLock`, `PicksGetProjected`,
  `LosersGetCharged`): the provers have neither fairness nor `ENABLED`.
- The properties of the four runs that expect a violation, which are false.

## Not modelled

Read-only APIs, HTTP status mapping, API keys, odds, the gateway, deployment and table
creation: they change no state that a property here is about, or only check a request
before it starts. Registration and login: users are given, and no later step depends on
how one was registered. Fixture's kickoff column and the age of the answer to
Prediction's fetch: only Prediction reads a kickoff, and its sync takes any, which
includes what an administrator of Fixture and a slow answer can bring about.
`sync_fixtures` is the initial state: it runs before the consumer and the jobs, and
inserts only what is missing. `PROJECT.json` lists every component with its status, and
each hazard with the properties that watch it.

## State of the work

All modules above are written and checked, and every safety property that a passing run
checks, both refinements included, is stated by a theorem of the table. What a further
development would take up:

- `Ledger` under `Saga` with manual entries and force-locks, which the whole leaves out
  today;
- the remaining hazard without a property in `PROJECT.json`: a member who joins and
  submits a pick while `lock_match` is reading keeps an `OPEN` pick for a locked match;
- liveness, should the provers come to support it.
