------------------------------- MODULE Ledger -------------------------------
(***************************************************************************)
(* The ledger service: its PostgreSQL tables, the RabbitMQ listener that   *)
(* turns MatchSettled events into postings, and the administrator's manual *)
(* entries and reversals.                                                  *)
(*                                                                         *)
(* Every @Transactional call is a worker's open transaction that advances  *)
(* one SQL statement at a time, under READ COMMITTED: a statement sees the *)
(* committed rows and the transaction's own.  INSERTs meet the UNIQUE      *)
(* constraints the way PostgreSQL enforces them: an INSERT of a value that *)
(* another open transaction has inserted waits for that transaction to     *)
(* end, an INSERT of a committed value fails.  A failed statement aborts   *)
(* the transaction and the exception reaches the caller: the listener's    *)
(* retry interceptor, or the administrator's HTTP request.                 *)
(*                                                                         *)
(* The queue is at-least-once: the outbox of the fixture service may       *)
(* publish an event again, an unacknowledged delivery is requeued when the *)
(* connection or the process dies, and a delivery whose attempts are       *)
(* exhausted is dead-lettered.                                             *)
(***************************************************************************)
EXTENDS Integers, Sequences, FiniteSets, JournalEntry

CONSTANTS
    Users,            \* players: owners of the accounts opened on first use
    Events,           \* event_ids of MatchSettled events
    Settlements,      \* Settlements[e]: the settlement lines of event e
    ManualCommands,   \* entries an administrator may submit
    Consumers,        \* listener threads, orphans of a lost connection included
    Admins,           \* request threads of administrators
    NoEvent,          \* "no delivery in progress"
    MaxAttempts,      \* spring.rabbitmq.listener.simple.retry.max-attempts
    MaxCopies,        \* bound: publications of one event
    MaxFaults,        \* bound: injected failures in one behaviour
    MaxEntries        \* bound: entry ids after which administrators stop

SystemOwners == {"POOL", "ACTIVITY_EXPENSE", "CASH_RECEIVED"}
Owners == Users \cup SystemOwners

Workers == Consumers \cup Admins

Line == [owner : Owners, amount : Int, direction : Directions]
SettlementLine == [user : Users, result : {"WON", "LOST"}, stake : Int]

\* Idempotency keys.  The formats "<event_id>:<user_id>" and
\* "reverse:<entry_id>" cannot meet, an event_id being a UUID, but an
\* administrator may choose a key of either form for a manual entry.
SettleKeys == {"settle"} \X Events \X Users
ReverseKeys == {"reverse"} \X Nat
ManualKeys == {m.key : m \in ManualCommands}
Keys == SettleKeys \cup ReverseKeys \cup ManualKeys

Actions == {"SETTLE_PICK", "REVERSE", "MANUAL_ENTRY"}
Command == [key : Keys, action : Actions, lines : Seq(Line)]

ASSUME LedgerAssumption ==
    /\ Users \cap SystemOwners = {}
    /\ Settlements \in [Events -> Seq(SettlementLine)]
    /\ ManualCommands \subseteq
           [key : ManualKeys, action : {"MANUAL_ENTRY"}, lines : Seq(Line)]
    /\ Consumers \cap Admins = {}
    /\ IsFiniteSet(Consumers)
    /\ NoEvent \notin Events
    /\ MaxAttempts \in Nat \ {0}
    /\ MaxCopies \in Nat /\ MaxFaults \in Nat /\ MaxEntries \in Nat

\* MatchSettled settles a pick at most once: fixture's match_picks table holds
\* one row per match and user.
ASSUME OneLinePerUser ==
    \A e \in Events : \A i, j \in DOMAIN Settlements[e] :
        Settlements[e][i].user = Settlements[e][j].user => i = j

-----------------------------------------------------------------------------
VARIABLES
    accounts,     \* committed rows of accounts: [id, owner]
    journal,      \* committed rows of journal_entries with their postings and
                  \* audit action: [id, key, action, lines]
    nextAccount,  \* identity column of accounts
    nextEntry,    \* identity column of journal_entries
    tx,           \* the open transaction of each worker
    job,          \* the delivery each listener thread works on
    sent,         \* publications of each event so far
    ready,        \* copies of each event waiting in ledger.match-settled
    acked,        \* events of acknowledged deliveries
    dead,         \* events rejected to the dead-letter exchange
    faults        \* failures injected so far

db == <<accounts, journal>>
sequences == <<nextAccount, nextEntry>>
broker == <<sent, ready, acked, dead>>
vars == <<accounts, journal, nextAccount, nextEntry, tx, job, sent, ready,
          acked, dead, faults>>

AccountRow == [id : Nat, owner : Owners]
Posting == [account : AccountRow, amount : Int, direction : Directions]
EntryRow == [id : Nat, key : Keys, action : Actions, lines : Seq(Posting)]

NoCommand == [key |-> <<>>, action |-> "", lines |-> <<>>]
NoTx == [step |-> "idle", cmd |-> NoCommand, entry |-> 0, rows |-> <<>>, opened |-> {}]
NoJob == [event |-> NoEvent, next |-> 1, attempt |-> 0, live |-> FALSE]

Transaction == [step   : {"idle", "insert", "lines", "open"},
                cmd    : Command \cup {NoCommand},
                entry  : Nat,
                rows   : Seq(Posting),
                opened : SUBSET AccountRow]

Delivery == [event : Events \cup {NoEvent}, next : Nat, attempt : Nat, live : BOOLEAN]

TypeOK ==
    /\ accounts \subseteq AccountRow
    /\ journal \subseteq EntryRow
    /\ nextAccount \in Nat /\ nextEntry \in Nat
    /\ tx \in [Workers -> Transaction]
    /\ job \in [Consumers -> Delivery]
    /\ sent \in [Events -> Nat] /\ ready \in [Events -> Nat]
    /\ acked \subseteq Events /\ dead \subseteq Events
    /\ faults \in Nat

\* Migration V5 seeds the system accounts.
SeededAccounts == {[id |-> 1, owner |-> "POOL"],
                   [id |-> 2, owner |-> "ACTIVITY_EXPENSE"],
                   [id |-> 3, owner |-> "CASH_RECEIVED"]}

Init ==
    /\ accounts = SeededAccounts
    /\ journal = {}
    /\ nextAccount = 4 /\ nextEntry = 1
    /\ tx = [w \in Workers |-> NoTx]
    /\ job = [c \in Consumers |-> NoJob]
    /\ sent = [e \in Events |-> 0] /\ ready = [e \in Events |-> 0]
    /\ acked = {} /\ dead = {}
    /\ faults = 0

-----------------------------------------------------------------------------
(***************************************************************************)
(* Failure of a call: the transaction rolls back and the exception reaches *)
(* the caller.  The listener's retry is stateless: it runs the whole       *)
(* listener method again, from the first settlement line, and rejects the  *)
(* message without requeueing it once the attempts are used up.  On a lost *)
(* channel the rejection, like an acknowledgement, has no effect.          *)
(***************************************************************************)
KeyExists(key) == \E x \in journal : x.key = key

Retry(c) ==
    /\ job[c].attempt < MaxAttempts
    /\ job' = [job EXCEPT ![c] = [event |-> @.event, next |-> 1,
                                  attempt |-> @.attempt + 1, live |-> @.live]]
    /\ UNCHANGED dead

DeadLetter(c) ==
    /\ job[c].attempt >= MaxAttempts
    /\ job' = [job EXCEPT ![c] = NoJob]
    /\ dead' = IF job[c].live THEN dead \cup {job[c].event} ELSE dead

\* Defect: the transaction of a failed call is left open, with what it holds.
FailLeavingOpen(w) ==
    /\ tx' = [tx EXCEPT ![w].step = "abandoned"]
    /\ \/ w \in Admins /\ UNCHANGED <<job, dead>>
       \/ w \in Consumers /\ (Retry(w) \/ DeadLetter(w))

Fail(w) ==
    /\ tx' = [tx EXCEPT ![w] = NoTx]
    /\ \/ w \in Admins /\ UNCHANGED <<job, dead>>
       \/ w \in Consumers /\ (Retry(w) \/ DeadLetter(w))

-----------------------------------------------------------------------------
(***************************************************************************)
(* The broker and the listener.                                            *)
(***************************************************************************)
Publish(e) ==
    /\ sent[e] < MaxCopies
    /\ sent' = [sent EXCEPT ![e] = @ + 1]
    /\ ready' = [ready EXCEPT ![e] = @ + 1]
    /\ UNCHANGED <<db, sequences, tx, job, acked, dead, faults>>

Deliver(c, e) ==
    /\ job[c] = NoJob
    /\ ready[e] > 0
    /\ ready' = [ready EXCEPT ![e] = @ - 1]
    /\ job' = [job EXCEPT ![c] = [event |-> e, next |-> 1, attempt |-> 1, live |-> TRUE]]
    /\ UNCHANGED <<db, sequences, tx, sent, acked, dead, faults>>

\* Defects: the loop skips the line it resumes at; it does not skip winners.
RemainingAfterNext(c) ==
    {i \in DOMAIN Settlements[job[c].event] :
        i > job[c].next /\ Settlements[job[c].event][i].result = "LOST"}

RemainingWinnersToo(c) == {i \in DOMAIN Settlements[job[c].event] : i >= job[c].next}

\* The losing lines of the delivered event the loop has still to reach.
Remaining(c) ==
    {i \in DOMAIN Settlements[job[c].event] :
        i >= job[c].next /\ Settlements[job[c].event][i].result = "LOST"}

\* Defect: the pool pays the player.
SettleCommandSwapped(e, line) ==
    [key    |-> <<"settle", e, line.user>>,
     action |-> "SETTLE_PICK",
     lines  |-> << [owner |-> "POOL", amount |-> line.stake, direction |-> "DEBIT"],
                   [owner |-> line.user, amount |-> line.stake, direction |-> "CREDIT"] >>]

SettleCommand(e, line) ==
    [key    |-> <<"settle", e, line.user>>,
     action |-> "SETTLE_PICK",
     lines  |-> << [owner |-> line.user, amount |-> line.stake, direction |-> "DEBIT"],
                   [owner |-> "POOL", amount |-> line.stake, direction |-> "CREDIT"] >>]

\* A call of PostingService.post on a fresh transaction: validated, nothing
\* inserted yet.
Begin(w, cmd) ==
    tx' = [tx EXCEPT ![w] = [step |-> "insert", cmd |-> cmd, entry |-> 0,
                             rows |-> <<>>, opened |-> {}]]

\* SettlementService.settleLosingPick up to its first INSERT, for the next
\* losing line: a key that exists makes the line a no-op.
SettleLosingPick(c) ==
    /\ job[c].event # NoEvent
    /\ tx[c].step = "idle"
    /\ \E i \in Remaining(c) :
         LET cmd == SettleCommand(job[c].event, Settlements[job[c].event][i]) IN
         /\ \A j \in Remaining(c) : i <= j
         /\ \/ /\ KeyExists(cmd.key)
               /\ job' = [job EXCEPT ![c].next = i + 1]
               /\ UNCHANGED <<tx, dead>>
            \/ /\ ~KeyExists(cmd.key)
               /\ ValidateBalanced(cmd.lines)
               /\ Begin(c, cmd)
               /\ job' = [job EXCEPT ![c].next = i]
               /\ UNCHANGED dead
            \/ /\ ~KeyExists(cmd.key)
               /\ ~ValidateBalanced(cmd.lines)
               /\ Fail(c)
    /\ UNCHANGED <<db, sequences, sent, ready, acked, faults>>

\* The listener method returned: acknowledge-mode auto.
Ack(c) ==
    /\ job[c].event # NoEvent
    /\ tx[c].step = "idle"
    /\ Remaining(c) = {}
    /\ acked' = IF job[c].live THEN acked \cup {job[c].event} ELSE acked
    /\ job' = [job EXCEPT ![c] = NoJob]
    /\ UNCHANGED <<db, sequences, tx, sent, ready, dead, faults>>

-----------------------------------------------------------------------------
(***************************************************************************)
(* Administrators.  A request refused with 404, 409 or 422 before it       *)
(* touches the database changes nothing, so it is not a step.              *)
(***************************************************************************)
PostManualEntry(a, cmd) ==
    /\ tx[a].step = "idle"
    /\ nextEntry <= MaxEntries
    /\ ~KeyExists(cmd.key)
    /\ ValidateBalanced(cmd.lines)
    /\ Begin(a, cmd)
    /\ UNCHANGED <<db, sequences, job, broker, faults>>

\* Defect: a reversal repeats the postings.
FlipNothing(posting) == [owner     |-> posting.account.owner,
                         amount    |-> posting.amount,
                         direction |-> posting.direction]

Flip(posting) == [owner     |-> posting.account.owner,
                  amount    |-> posting.amount,
                  direction |-> FlipDirection(posting.direction)]

ReverseCommand(x) ==
    [key    |-> <<"reverse", x.id>>,
     action |-> "REVERSE",
     lines  |-> [i \in 1..Len(x.lines) |-> Flip(x.lines[i])]]

\* The original entry is committed and immutable, so when its row and its
\* postings are read makes no difference.
Reverse(a, x) ==
    LET cmd == ReverseCommand(x) IN
    /\ tx[a].step = "idle"
    /\ nextEntry <= MaxEntries
    /\ ~KeyExists(cmd.key)
    /\ ValidateBalanced(cmd.lines)
    /\ Begin(a, cmd)
    /\ UNCHANGED <<db, sequences, job, broker, faults>>

-----------------------------------------------------------------------------
(***************************************************************************)
(* PostingService.post, one statement per step.                            *)
(***************************************************************************)
HoldsKey(w, key) == tx[w].step \in {"lines", "open"} /\ tx[w].cmd.key = key
HoldsOwner(w, owner) == \E a \in tx[w].opened : a.owner = owner

\* The next statement of w's transaction took effect.
Advance(w, step, entry, rows, opened) ==
    tx' = [tx EXCEPT ![w] = [step |-> step, cmd |-> @.cmd, entry |-> entry,
                             rows |-> rows, opened |-> opened]]

\* Defect: no unique constraint on idempotency_key, only the check beforehand.
InsertEntryUnchecked(w) ==
    /\ tx[w].step = "insert"
    /\ nextEntry' = nextEntry + 1
    /\ Advance(w, "lines", nextEntry, <<>>, {})
    /\ UNCHANGED <<db, nextAccount, job, broker, faults>>

\* journalEntries.save: an identity value is drawn even when the INSERT fails.
InsertEntry(w) ==
    /\ tx[w].step = "insert"
    /\ \A v \in Workers \ {w} : ~HoldsKey(v, tx[w].cmd.key)
    /\ nextEntry' = nextEntry + 1
    /\ \/ /\ ~KeyExists(tx[w].cmd.key)
          /\ Advance(w, "lines", nextEntry, <<>>, {})
          /\ UNCHANGED <<job, dead>>
       \/ /\ KeyExists(tx[w].cmd.key)
          /\ Fail(w)
    /\ UNCHANGED <<db, nextAccount, sent, ready, acked, faults>>

CurrentLine(w) == tx[w].cmd.lines[Len(tx[w].rows) + 1]

\* Defect: the posting names the owner instead of the account row.
PostingToOwner(account, line) ==
    [account |-> line.owner, amount |-> line.amount, direction |-> line.direction]

PostingTo(account, line) ==
    [account |-> account, amount |-> line.amount, direction |-> line.direction]

\* resolveAccount's lookup: the posting goes to the account it finds.
PostLine(w) ==
    /\ tx[w].step = "lines"
    /\ Len(tx[w].rows) < Len(tx[w].cmd.lines)
    /\ LET found == {a \in accounts \cup tx[w].opened : a.owner = CurrentLine(w).owner} IN
       \/ \E a \in found :
             Advance(w, "lines", tx[w].entry,
                     Append(tx[w].rows, PostingTo(a, CurrentLine(w))), tx[w].opened)
       \/ /\ found = {}
          /\ Advance(w, "open", tx[w].entry, tx[w].rows, tx[w].opened)
    /\ UNCHANGED <<db, sequences, job, broker, faults>>

\* Defect: no unique constraint on the owner of an account.
OpenAccountUnchecked(w) ==
    LET row == [id |-> nextAccount, owner |-> CurrentLine(w).owner] IN
    /\ tx[w].step = "open"
    /\ nextAccount' = nextAccount + 1
    /\ Advance(w, "lines", tx[w].entry,
               Append(tx[w].rows, PostingTo(row, CurrentLine(w))), tx[w].opened \cup {row})
    /\ UNCHANGED <<db, nextEntry, job, broker, faults>>

\* resolveAccount found no account: accounts.save, then the posting.
OpenAccount(w) ==
    LET owner == CurrentLine(w).owner
        row == [id |-> nextAccount, owner |-> owner] IN
    /\ tx[w].step = "open"
    /\ \A v \in Workers \ {w} : ~HoldsOwner(v, owner)
    /\ nextAccount' = nextAccount + 1
    /\ \/ /\ \A a \in accounts : a.owner # owner
          /\ Advance(w, "lines", tx[w].entry,
                     Append(tx[w].rows, PostingTo(row, CurrentLine(w))),
                     tx[w].opened \cup {row})
          /\ UNCHANGED <<job, dead>>
       \/ /\ \E a \in accounts : a.owner = owner
          /\ Fail(w)
    /\ UNCHANGED <<db, nextEntry, sent, ready, acked, faults>>

\* Defect: post is not @Transactional, its rows are committed as they come.
PersistAnyTime(w) ==
    /\ tx[w].step = "lines"
    /\ accounts' = accounts \cup tx[w].opened
    /\ journal' = journal \cup {[id |-> tx[w].entry, key |-> tx[w].cmd.key,
                                 action |-> tx[w].cmd.action, lines |-> tx[w].rows]}

\* The rows of the transaction become visible together.
Persist(w) ==
    /\ tx[w].step = "lines"
    /\ Len(tx[w].rows) = Len(tx[w].cmd.lines)
    /\ accounts' = accounts \cup tx[w].opened
    /\ journal' = journal \cup {[id |-> tx[w].entry, key |-> tx[w].cmd.key,
                                 action |-> tx[w].cmd.action, lines |-> tx[w].rows]}

Commit(w) ==
    /\ Persist(w)
    /\ tx' = [tx EXCEPT ![w] = NoTx]
    /\ job' = IF w \in Consumers THEN [job EXCEPT ![w].next = @ + 1] ELSE job
    /\ UNCHANGED <<sequences, broker, faults>>

-----------------------------------------------------------------------------
(***************************************************************************)
(* Failures.                                                               *)
(***************************************************************************)
\* v's INSERT waits for x to end.
WaitsFor(v, x) ==
    /\ v # x
    /\ \/ tx[v].step = "insert" /\ HoldsKey(x, tx[v].cmd.key)
       \/ tx[v].step = "open" /\ HoldsOwner(x, CurrentLine(v).owner)

\* A worker waits for at most one other, so a set in which each waits for a
\* member and each is waited for by a member is made of cycles.
Deadlocked(w) ==
    \E S \in SUBSET Workers :
        /\ w \in S
        /\ \A v \in S : (\E x \in S : WaitsFor(v, x)) /\ (\E x \in S : WaitsFor(x, v))

\* PostgreSQL cancels a transaction of the cycle.
DeadlockVictim(w) ==
    /\ Deadlocked(w)
    /\ Fail(w)
    /\ UNCHANGED <<db, sequences, sent, ready, acked, faults>>

Fault ==
    /\ faults < MaxFaults
    /\ faults' = faults + 1

\* The database refuses a statement or the connection to it is lost.
StatementFails(w) ==
    /\ Fault
    /\ \/ tx[w].step # "idle"
       \/ w \in Consumers /\ job[w].event # NoEvent /\ Remaining(w) # {}
    /\ Fail(w)
    /\ UNCHANGED <<db, sequences, sent, ready, acked>>

\* The database commits, but the caller gets an exception instead of the answer.
CommitAnswerLost(w) ==
    /\ Fault
    /\ Persist(w)
    /\ Fail(w)
    /\ UNCHANGED <<sequences, sent, ready, acked>>

\* Defect: messages are acknowledged when they are delivered.
ConnectionLostForGood(c) ==
    /\ Fault
    /\ job[c].live
    /\ job' = [job EXCEPT ![c].live = FALSE]
    /\ UNCHANGED <<db, sequences, tx, sent, ready, acked, dead>>

\* The broker requeues the unacknowledged delivery; the thread works on.
ConnectionLost(c) ==
    /\ Fault
    /\ job[c].live
    /\ ready' = [ready EXCEPT ![job[c].event] = @ + 1]
    /\ job' = [job EXCEPT ![c].live = FALSE]
    /\ UNCHANGED <<db, sequences, tx, sent, acked, dead>>

\* The service dies and comes back: open transactions are rolled back,
\* unacknowledged deliveries requeued.
Restart ==
    /\ Fault
    /\ tx' = [w \in Workers |-> NoTx]
    /\ job' = [c \in Consumers |-> NoJob]
    /\ ready' = [e \in Events |->
                    ready[e] + Cardinality({c \in Consumers : job[c].live /\ job[c].event = e})]
    /\ UNCHANGED <<db, sequences, sent, acked, dead>>

-----------------------------------------------------------------------------
WorkerStep(w) ==
    InsertEntry(w) \/ PostLine(w) \/ OpenAccount(w) \/ Commit(w) \/ DeadlockVictim(w)

ListenerStep(c) == SettleLosingPick(c) \/ Ack(c)

Next ==
    \/ \E e \in Events : Publish(e)
    \/ \E c \in Consumers :
          \/ \E e \in Events : Deliver(c, e)
          \/ ListenerStep(c)
          \/ ConnectionLost(c)
    \/ \E a \in Admins :
          \/ \E m \in ManualCommands : PostManualEntry(a, m)
          \/ \E x \in journal : Reverse(a, x)
    \/ \E w \in Workers : WorkerStep(w) \/ StatementFails(w) \/ CommitAnswerLost(w)
    \/ Restart

Spec == Init /\ [][Next]_vars

(***************************************************************************)
(* A thread that can run does; the queue is first-in first-out, so a       *)
(* waiting copy is not passed over forever.  Nobody is obliged to publish, *)
(* to submit a request or to fail.                                         *)
(***************************************************************************)
Fairness ==
    /\ \A w \in Workers : WF_vars(WorkerStep(w))
    /\ \A c \in Consumers : WF_vars(ListenerStep(c))
    /\ \A e \in Events : SF_vars(\E c \in Consumers : Deliver(c, e))

FairSpec == Spec /\ Fairness

-----------------------------------------------------------------------------
(***************************************************************************)
(* Properties.                                                             *)
(***************************************************************************)

\* No two journal entries carry one idempotency key: whatever is redelivered,
\* retried, replayed by an orphaned thread or raced by an administrator, a
\* losing line is charged at most once and an entry reversed at most once
\* (V2__create_journal_entries.sql, SettlementService's exists-then-insert).
KeysUnique ==
    \A x, y \in journal : x.key = y.key => x = y

\* Accounts opened on first use never split one owner's money over two rows:
\* the find-then-save of resolveAccount runs in several transactions at once.
OneAccountPerOwner ==
    \A a, b \in accounts : a.owner = b.owner \/ a.id = b.id => a = b

\* A posting without the surrogate keys of the database.
LineOf(posting) == [owner     |-> posting.account.owner,
                    amount    |-> posting.amount,
                    direction |-> posting.direction]

LinesOf(postings) == [i \in DOMAIN postings |-> LineOf(postings[i])]

\* An acknowledged MatchSettled is gone from the queue for good, so every one
\* of its losing lines is in the journal by then, for the stake the event
\* carries, from the player to the pool (MatchSettledConsumer, SettlementService);
\* only a manual entry under the line's key can stand in its place.
AckedFullySettled ==
    \A e \in acked : \A i \in DOMAIN Settlements[e] :
        Settlements[e][i].result = "LOST" =>
            LET cmd == SettleCommand(e, Settlements[e][i]) IN
            \E x \in journal :
                /\ x.key = cmd.key
                /\ x.action = "MANUAL_ENTRY" \/ LinesOf(x.lines) = cmd.lines

\* PostingRepository.balanceOf: credits add, debits subtract, over the postings
\* of one account row.
Signed(posting) == IF posting.direction = "CREDIT" THEN posting.amount ELSE -posting.amount

EffectOn(account, x) ==
    SetsExt!MapThenSumSet(LAMBDA i : Signed(x.lines[i]),
        {i \in DOMAIN x.lines : x.lines[i].account.id = account.id})

BalanceOf(account) == SetsExt!MapThenSumSet(LAMBDA x : EffectOn(account, x), journal)

\* The balances an administrator sees add up to zero at every moment: each
\* entry that survives a rollback, a retry or a race moved money between
\* accounts and made none (PostingService.post, PostingRepository.balanceOf).
BooksBalance == SetsExt!MapThenSumSet(BalanceOf, accounts) = 0

\* The stakes a player lost according to a set of events.
LostStake(user, e) ==
    SetsExt!MapThenSumSet(LAMBDA i : Settlements[e][i].stake,
        {i \in DOMAIN Settlements[e] :
            Settlements[e][i].user = user /\ Settlements[e][i].result = "LOST"})

LostStakes(user, events) == SetsExt!MapThenSumSet(LAMBDA e : LostStake(user, e), events)

\* Where only events move a player's money, the balance shown for the player is
\* minus the stakes lost in the events published so far, at most, and in those
\* acknowledged, at least: nobody is charged twice, nobody is let off, nobody's
\* charge lands on another account.
PlayersOweTheirLosses ==
    \A a \in accounts : a.owner \in Users =>
        /\ -BalanceOf(a) >= LostStakes(a.owner, acked)
        /\ -BalanceOf(a) <= LostStakes(a.owner, {e \in Events : sent[e] > 0})

\* A reversal undoes the postings of its original one by one, on the very
\* account rows they were made on, although LedgerService.reverse goes through
\* the owners and resolves the accounts again.
ReversalsCancel ==
    \A x, y \in journal :
        y.action = "REVERSE" /\ y.key = <<"reverse", x.id>> =>
            /\ Len(y.lines) = Len(x.lines)
            /\ \A i \in DOMAIN x.lines :
                  /\ y.lines[i].account = x.lines[i].account
                  /\ Signed(y.lines[i]) = -Signed(x.lines[i])

\* Every published copy of an event is consumed in the end: its event is
\* acknowledged or lands in the dead-letter exchange, whatever fails, retries or
\* is requeued on the way (docs/event-contracts.md: a failing message goes to its
\* DLQ "rather than being lost or requeued forever").
DeliveriesEnd ==
    \A e \in Events : (ready[e] > 0) ~> (e \in acked \cup dead)

\* No request or delivery hangs: a transaction that waits for another one's row
\* is let through, refused or chosen as the victim of a deadlock.
TransactionsEnd ==
    \A w \in Workers : (tx[w].step # "idle") ~> (tx[w].step = "idle")

(***************************************************************************)
(* The abstract ledger this one implements.                                *)
(***************************************************************************)
Book == {[id |-> x.id, key |-> x.key, action |-> x.action, lines |-> LinesOf(x.lines)] :
            x \in journal}

Atomic == INSTANCE AtomicLedger WITH book <- Book, done <- acked

\* Whatever the interleaving of statements, threads and failures, each step of
\* the service is, seen from outside, one atomic entry under a new key, the end
\* of a fully settled event, or nothing (SettlementService: "a
\* partially-processed event resumes cleanly on redelivery").
ImplementsAtomicLedger == Atomic!Spec

=============================================================================
