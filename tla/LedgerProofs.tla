---------------------------- MODULE LedgerProofs ----------------------------
(***************************************************************************)
(* Theorems about the ledger service, for all users, events, settlement    *)
(* lines, manual entries, threads and bounds.                              *)
(***************************************************************************)
EXTENDS Ledger, FiniteSetTheorems, TLAPS

-----------------------------------------------------------------------------
(***************************************************************************)
(* Types.  TypeOK is not inductive: a commit writes the command of its     *)
(* transaction, so an open transaction must have one; an account is opened *)
(* for a line that exists; an event is acknowledged, requeued or           *)
(* dead-lettered by a live delivery, which must name an event.             *)
(***************************************************************************)
OpenTransactions ==
    \A w \in Workers :
        /\ tx[w].step # "idle" => tx[w].cmd \in Command
        /\ tx[w].step = "open" => Len(tx[w].rows) < Len(tx[w].cmd.lines)

LiveDeliveries == \A c \in Consumers : job[c].live => job[c].event \in Events

TypeInv == TypeOK /\ OpenTransactions /\ LiveDeliveries

\* The empty records belong to their types, and the empty transaction is closed.
LEMMA EmptyRecords ==
    /\ NoTx \in Transaction /\ NoTx.step = "idle" /\ NoTx.opened = {} /\ NoTx.rows = <<>>
    /\ NoJob \in Delivery /\ NoJob.live = FALSE
  BY DEF NoTx, NoJob, Transaction, Delivery

\* The tables are seeded and the queue is empty.
LEMMA InitTypeInv == Init => TypeInv
<1> SUFFICES ASSUME Init PROVE TypeInv
  OBVIOUS
<1>1. accounts \subseteq AccountRow
  BY DEF Init, SeededAccounts, AccountRow, Owners, SystemOwners
<1>2. tx \in [Workers -> Transaction] /\ job \in [Consumers -> Delivery]
  BY EmptyRecords DEF Init
<1>3. OpenTransactions /\ LiveDeliveries
  BY EmptyRecords DEF Init, OpenTransactions, LiveDeliveries
<1> QED
  BY <1>1, <1>2, <1>3 DEF Init, TypeInv, TypeOK

\* A settlement line of a typed event makes a typed command.
LEMMA SettleCommandType ==
    ASSUME NEW e \in Events, NEW line \in SettlementLine
    PROVE  SettleCommand(e, line) \in Command
<1>1. <<"settle", e, line.user>> \in Keys
  BY DEF SettlementLine, Keys, SettleKeys
<1>2. \A l1, l2 \in Line : <<l1, l2>> \in Seq(Line)
  OBVIOUS
<1>3. /\ [owner |-> line.user, amount |-> line.stake, direction |-> "DEBIT"] \in Line
      /\ [owner |-> "POOL", amount |-> line.stake, direction |-> "CREDIT"] \in Line
  BY DEF SettlementLine, Line, Owners, SystemOwners, Directions
<1> QED
  BY <1>1, <1>2, <1>3 DEF SettleCommand, Command, Actions

\* So does the flip of a typed entry.
LEMMA ReverseCommandType ==
    ASSUME NEW x \in EntryRow
    PROVE  ReverseCommand(x) \in Command
<1>1. <<"reverse", x.id>> \in Keys
  BY DEF EntryRow, Keys, ReverseKeys
<1>2. x.lines \in Seq(Posting)
  BY DEF EntryRow
<1>3. \A i \in 1..Len(x.lines) : Flip(x.lines[i]) \in Line
  <2> TAKE i \in 1..Len(x.lines)
  <2>1. x.lines[i] \in Posting
    BY <1>2
  <2> QED
    BY <2>1 DEF Flip, Posting, AccountRow, Line, FlipDirection, Directions
<1>4. [i \in 1..Len(x.lines) |-> Flip(x.lines[i])] \in Seq(Line)
  BY <1>2, <1>3
<1> QED
  BY <1>1, <1>4 DEF ReverseCommand, Command, Actions

\* A failed call leaves typed transactions, deliveries and dead letters.
LEMMA FailTypeInv ==
    ASSUME TypeInv, NEW w \in Workers, Fail(w)
    PROVE  /\ tx' \in [Workers -> Transaction]
           /\ job' \in [Consumers -> Delivery]
           /\ dead' \subseteq Events
           /\ OpenTransactions' /\ LiveDeliveries'
<1> USE DEF TypeInv, TypeOK
<1>1. tx' \in [Workers -> Transaction] /\ OpenTransactions'
  BY EmptyRecords DEF Fail, OpenTransactions
<1>2. CASE w \in Admins /\ UNCHANGED <<job, dead>>
  BY <1>1, <1>2 DEF LiveDeliveries
<1>3. CASE w \in Consumers /\ Retry(w)
  BY <1>1, <1>3, LedgerAssumption DEF Retry, LiveDeliveries, Delivery
<1>4. CASE w \in Consumers /\ DeadLetter(w)
  BY <1>1, <1>4, EmptyRecords DEF DeadLetter, LiveDeliveries
<1> QED
  BY <1>2, <1>3, <1>4 DEF Fail

\* A worker's transaction may be replaced by a typed one with a command.
LEMMA UpdateTypeInv ==
    ASSUME TypeInv, NEW w \in Workers, NEW u \in Transaction,
           tx' = [tx EXCEPT ![w] = u],
           u.cmd \in Command,
           u.step = "open" => Len(u.rows) < Len(u.cmd.lines)
    PROVE  tx' \in [Workers -> Transaction] /\ OpenTransactions'
  BY DEF TypeInv, TypeOK, OpenTransactions

\* A call begins with a typed command.
LEMMA BeginTypeInv ==
    ASSUME TypeInv, NEW w \in Workers, NEW cmd \in Command, Begin(w, cmd)
    PROVE  tx' \in [Workers -> Transaction] /\ OpenTransactions'
<1> DEFINE u == [step |-> "insert", cmd |-> cmd, entry |-> 0, rows |-> <<>>, opened |-> {}]
<1>1. u \in Transaction /\ u.cmd = cmd /\ u.step = "insert"
  BY DEF Transaction
<1>2. tx' = [tx EXCEPT ![w] = u]
  BY DEF Begin
<1> HIDE DEF u
<1> QED
  BY <1>1, <1>2, UpdateTypeInv

\* A statement that takes effect keeps the command.
LEMMA AdvanceTypeInv ==
    ASSUME TypeInv, NEW w \in Workers, tx[w].step # "idle",
           NEW step \in {"lines", "open"}, NEW entry \in Nat,
           NEW rows \in Seq(Posting), NEW opened \in SUBSET AccountRow,
           step = "open" => Len(rows) < Len(tx[w].cmd.lines),
           Advance(w, step, entry, rows, opened)
    PROVE  tx' \in [Workers -> Transaction] /\ OpenTransactions'
<1> DEFINE u == [step |-> step, cmd |-> tx[w].cmd, entry |-> entry,
                 rows |-> rows, opened |-> opened]
<1>1. tx[w].cmd \in Command
  BY DEF TypeInv, OpenTransactions
<1>2. /\ u \in Transaction /\ u.step = step /\ u.cmd = tx[w].cmd /\ u.rows = rows
      /\ tx' = [tx EXCEPT ![w] = u]
  BY <1>1 DEF Transaction, Advance
<1> HIDE DEF u
<1> QED
  BY <1>1, <1>2, UpdateTypeInv

\* The ways a delivery is updated.
LEMMA DeliveryUpdates ==
    ASSUME NEW d \in Delivery, NEW n \in Nat
    PROVE  /\ LET u == [d EXCEPT !.next = n] IN
                 u \in Delivery /\ u.live = d.live /\ u.event = d.event
           /\ LET u == [d EXCEPT !.live = FALSE] IN
                 u \in Delivery /\ u.live = FALSE /\ u.event = d.event
  BY Zenon DEF Delivery

\* A delivery that advances in its loop stays typed and stays live or dead.
LEMMA LoopTypeInv ==
    ASSUME TypeInv, NEW c \in Consumers, NEW n \in Nat, job' = [job EXCEPT ![c].next = n]
    PROVE  job' \in [Consumers -> Delivery] /\ LiveDeliveries'
<1> DEFINE u == [job[c] EXCEPT !.next = n]
<1>1. u \in Delivery /\ u.live = job[c].live /\ u.event = job[c].event
  BY DeliveryUpdates DEF TypeInv, TypeOK
<1>2. job' = [job EXCEPT ![c] = u]
  OBVIOUS
<1> HIDE DEF u
<1> QED
  BY <1>1, <1>2 DEF TypeInv, TypeOK, LiveDeliveries

\* The line a transaction is posting is a typed line of its command.
LEMMA CurrentLineType ==
    ASSUME TypeInv, NEW w \in Workers, tx[w].step # "idle",
           Len(tx[w].rows) < Len(tx[w].cmd.lines)
    PROVE  CurrentLine(w) \in Line
<1>1. tx[w].rows \in Seq(Posting) /\ tx[w].cmd \in Command
  BY DEF TypeInv, TypeOK, OpenTransactions, Transaction
<1>2. tx[w].cmd.lines \in Seq(Line)
  BY <1>1 DEF Command
<1> QED
  BY <1>1, <1>2 DEF CurrentLine

\* A posting to a typed account extends the rows of a transaction.
LEMMA PostingType ==
    ASSUME NEW account \in AccountRow, NEW line \in Line
    PROVE  PostingTo(account, line) \in Posting
  BY DEF PostingTo, Line, Posting

\* What a transaction writes when it commits is typed.
LEMMA PersistType ==
    ASSUME TypeInv, NEW w \in Workers, Persist(w)
    PROVE  accounts' \subseteq AccountRow /\ journal' \subseteq EntryRow
<1>1. tx[w] \in Transaction /\ tx[w].cmd \in Command
  BY DEF Persist, TypeInv, TypeOK, OpenTransactions
<1>2. [id |-> tx[w].entry, key |-> tx[w].cmd.key,
       action |-> tx[w].cmd.action, lines |-> tx[w].rows] \in EntryRow
  BY <1>1 DEF Transaction, Command, EntryRow
<1> QED
  BY <1>1, <1>2 DEF Persist, TypeInv, TypeOK, Transaction

\* A restart requeues a number of copies.
LEMMA RequeuedNat ==
    ASSUME NEW e
    PROVE  Cardinality({c \in Consumers : job[c].live /\ job[c].event = e}) \in Nat
<1>1. IsFiniteSet({c \in Consumers : job[c].live /\ job[c].event = e})
  BY LedgerAssumption, FS_Subset
<1> QED
  BY <1>1, FS_CardinalityType

\* Every step preserves the types.
LEMMA NextTypeInv == TypeInv /\ [Next]_vars => TypeInv'
<1> SUFFICES ASSUME TypeInv, [Next]_vars PROVE TypeInv'
  OBVIOUS
<1>0. CASE UNCHANGED vars
  BY <1>0 DEF TypeInv, TypeOK, OpenTransactions, LiveDeliveries, vars
<1> USE DEF db, sequences, broker
<1>1. ASSUME NEW e \in Events, Publish(e) PROVE TypeInv'
  BY <1>1 DEF Publish, TypeInv, TypeOK, OpenTransactions, LiveDeliveries
<1>2. ASSUME NEW c \in Consumers, NEW e \in Events, Deliver(c, e) PROVE TypeInv'
  BY <1>2 DEF Deliver, TypeInv, TypeOK, OpenTransactions, LiveDeliveries, Delivery
<1>3. ASSUME NEW c \in Consumers, SettleLosingPick(c) PROVE TypeInv'
  <2>1. c \in Workers /\ job[c] \in Delivery /\ job[c].event \in Events
    BY <1>3 DEF SettleLosingPick, TypeInv, TypeOK, Workers, Delivery
  <2>2. PICK i \in Remaining(c) :
          LET cmd == SettleCommand(job[c].event, Settlements[job[c].event][i]) IN
             \/ /\ job' = [job EXCEPT ![c].next = i + 1]
                /\ UNCHANGED <<tx, dead>>
             \/ /\ Begin(c, cmd)
                /\ job' = [job EXCEPT ![c].next = i]
                /\ UNCHANGED dead
             \/ Fail(c)
    BY <1>3 DEF SettleLosingPick
  <2>3. i \in Nat /\ Settlements[job[c].event][i] \in SettlementLine
    BY <2>1, <2>2, LedgerAssumption DEF Remaining
  <2>4. UNCHANGED <<accounts, journal, nextAccount, nextEntry, sent, ready, acked, faults>>
    BY <1>3 DEF SettleLosingPick
  <2>5. SettleCommand(job[c].event, Settlements[job[c].event][i]) \in Command
    BY <2>1, <2>3, SettleCommandType
  <2>6. CASE job' = [job EXCEPT ![c].next = i + 1] /\ UNCHANGED <<tx, dead>>
    <3>1. i + 1 \in Nat
      BY <2>3
    <3>2. job' \in [Consumers -> Delivery] /\ LiveDeliveries'
      BY <2>6, <3>1, LoopTypeInv
    <3> QED
      BY <2>4, <2>6, <3>2 DEF TypeInv, TypeOK, OpenTransactions
  <2>7. CASE /\ Begin(c, SettleCommand(job[c].event, Settlements[job[c].event][i]))
             /\ job' = [job EXCEPT ![c].next = i]
             /\ UNCHANGED dead
    <3>1. tx' \in [Workers -> Transaction] /\ OpenTransactions'
      BY <2>1, <2>5, <2>7, BeginTypeInv
    <3>2. job' \in [Consumers -> Delivery] /\ LiveDeliveries'
      BY <2>3, <2>7, LoopTypeInv
    <3> QED
      BY <2>4, <2>7, <3>1, <3>2 DEF TypeInv, TypeOK
  <2>8. CASE Fail(c)
    BY <2>1, <2>4, <2>8, FailTypeInv DEF TypeInv, TypeOK
  <2> QED
    BY <2>2, <2>6, <2>7, <2>8
<1>4. ASSUME NEW c \in Consumers, Ack(c) PROVE TypeInv'
  <2>1. job' \in [Consumers -> Delivery] /\ LiveDeliveries'
    BY <1>4, EmptyRecords DEF Ack, TypeInv, TypeOK, LiveDeliveries
  <2> QED
    BY <1>4, <2>1 DEF Ack, TypeInv, TypeOK, OpenTransactions, LiveDeliveries
<1>5. ASSUME NEW c \in Consumers, ConnectionLost(c) PROVE TypeInv'
  <2> DEFINE u == [job[c] EXCEPT !.live = FALSE]
  <2>1. u \in Delivery /\ u.live = FALSE
    BY DeliveryUpdates DEF TypeInv, TypeOK
  <2>2. job' = [job EXCEPT ![c] = u]
    BY <1>5 DEF ConnectionLost
  <2> HIDE DEF u
  <2>3. job' \in [Consumers -> Delivery] /\ LiveDeliveries'
    BY <2>1, <2>2 DEF TypeInv, TypeOK, LiveDeliveries
  <2>4. ready' \in [Events -> Nat] /\ faults' \in Nat
    BY <1>5 DEF ConnectionLost, Fault, TypeInv, TypeOK, LiveDeliveries
  <2> QED
    BY <1>5, <2>3, <2>4 DEF ConnectionLost, TypeInv, TypeOK, OpenTransactions
<1>6. ASSUME NEW a \in Admins, NEW m \in ManualCommands, PostManualEntry(a, m) PROVE TypeInv'
  <2>1. m \in Command /\ a \in Workers
    BY LedgerAssumption DEF Command, Keys, Actions, Workers
  <2> QED
    BY <1>6, <2>1, BeginTypeInv DEF PostManualEntry, TypeInv, TypeOK, LiveDeliveries
<1>7. ASSUME NEW a \in Admins, NEW x \in journal, Reverse(a, x) PROVE TypeInv'
  <2>1. ReverseCommand(x) \in Command /\ a \in Workers
    BY ReverseCommandType DEF TypeInv, TypeOK, Workers
  <2> QED
    BY <1>7, <2>1, BeginTypeInv DEF Reverse, TypeInv, TypeOK, LiveDeliveries
<1>8. ASSUME NEW w \in Workers, InsertEntry(w) PROVE TypeInv'
  <2>1. nextEntry' \in Nat
    BY <1>8 DEF InsertEntry, TypeInv, TypeOK
  <2>2. CASE Advance(w, "lines", nextEntry, <<>>, {}) /\ UNCHANGED <<job, dead>>
    <3>1. tx' \in [Workers -> Transaction] /\ OpenTransactions'
      <4>1. nextEntry \in Nat /\ tx[w].step # "idle"
        BY <1>8 DEF InsertEntry, TypeInv, TypeOK
      <4>2. <<>> \in Seq(Posting) /\ {} \in SUBSET AccountRow
        OBVIOUS
      <4> QED
        BY <2>2, <4>1, <4>2, AdvanceTypeInv
    <3> QED
      BY <1>8, <2>1, <2>2, <3>1 DEF InsertEntry, TypeInv, TypeOK, LiveDeliveries
  <2>3. CASE Fail(w)
    BY <1>8, <2>1, <2>3, FailTypeInv DEF InsertEntry, TypeInv, TypeOK
  <2> QED
    BY <1>8, <2>2, <2>3 DEF InsertEntry
<1>9. ASSUME NEW w \in Workers, PostLine(w) PROVE TypeInv'
  <2>1. CurrentLine(w) \in Line
    BY <1>9, CurrentLineType DEF PostLine
  <2>2. tx[w] \in Transaction /\ tx[w].step # "idle"
    BY <1>9 DEF PostLine, TypeInv, TypeOK
  <2>3. ASSUME NEW a \in accounts \cup tx[w].opened,
               Advance(w, "lines", tx[w].entry,
                       Append(tx[w].rows, PostingTo(a, CurrentLine(w))), tx[w].opened)
        PROVE  tx' \in [Workers -> Transaction] /\ OpenTransactions'
    <3>1. a \in AccountRow
      BY <2>2 DEF TypeInv, TypeOK, Transaction
    <3>2. PostingTo(a, CurrentLine(w)) \in Posting
      BY <2>1, <3>1, PostingType
    <3>3. Append(tx[w].rows, PostingTo(a, CurrentLine(w))) \in Seq(Posting)
      BY <2>2, <3>2 DEF Transaction
    <3> QED
      BY <2>2, <2>3, <3>3, AdvanceTypeInv DEF Transaction
  <2>4. ASSUME Advance(w, "open", tx[w].entry, tx[w].rows, tx[w].opened)
        PROVE  tx' \in [Workers -> Transaction] /\ OpenTransactions'
    <3>1. /\ tx[w].entry \in Nat /\ tx[w].rows \in Seq(Posting)
          /\ tx[w].opened \in SUBSET AccountRow
          /\ Len(tx[w].rows) < Len(tx[w].cmd.lines)
      BY <1>9, <2>2 DEF PostLine, Transaction
    <3> QED
      BY <2>2, <2>4, <3>1, AdvanceTypeInv
  <2>5. \/ \E a \in accounts \cup tx[w].opened :
              Advance(w, "lines", tx[w].entry,
                      Append(tx[w].rows, PostingTo(a, CurrentLine(w))), tx[w].opened)
        \/ Advance(w, "open", tx[w].entry, tx[w].rows, tx[w].opened)
    BY <1>9, Zenon DEF PostLine
  <2>6. tx' \in [Workers -> Transaction] /\ OpenTransactions'
    BY <2>3, <2>4, <2>5
  <2> QED
    BY <1>9, <2>6 DEF PostLine, TypeInv, TypeOK, LiveDeliveries
<1>10. ASSUME NEW w \in Workers, OpenAccount(w) PROVE TypeInv'
  <2> DEFINE row == [id |-> nextAccount, owner |-> CurrentLine(w).owner]
             rows == Append(tx[w].rows, PostingTo(row, CurrentLine(w)))
             opened == tx[w].opened \cup {row}
  <2>1. CurrentLine(w) \in Line
    BY <1>10, CurrentLineType DEF OpenAccount, TypeInv, OpenTransactions
  <2>2. tx[w] \in Transaction /\ tx[w].step # "idle"
    BY <1>10 DEF OpenAccount, TypeInv, TypeOK
  <2>3. row \in AccountRow /\ nextAccount' \in Nat
    BY <1>10, <2>1 DEF OpenAccount, TypeInv, TypeOK, Line, AccountRow
  <2>4. CASE Advance(w, "lines", tx[w].entry, rows, opened) /\ UNCHANGED <<job, dead>>
    <3>1. PostingTo(row, CurrentLine(w)) \in Posting
      BY <2>1, <2>3, PostingType
    <3>2. rows \in Seq(Posting) /\ opened \in SUBSET AccountRow
      BY <2>2, <2>3, <3>1 DEF Transaction
    <3> HIDE DEF rows, opened
    <3>3. tx' \in [Workers -> Transaction] /\ OpenTransactions'
      BY <2>2, <2>4, <3>2, AdvanceTypeInv DEF Transaction
    <3> QED
      BY <1>10, <2>3, <2>4, <3>3 DEF OpenAccount, TypeInv, TypeOK, LiveDeliveries
  <2>5. CASE Fail(w)
    BY <1>10, <2>3, <2>5, FailTypeInv DEF OpenAccount, TypeInv, TypeOK
  <2> QED
    BY <1>10, <2>4, <2>5 DEF OpenAccount
<1>11. ASSUME NEW w \in Workers, Commit(w) PROVE TypeInv'
  <2>1. accounts' \subseteq AccountRow /\ journal' \subseteq EntryRow
    BY <1>11, PersistType DEF Commit
  <2>2. tx' \in [Workers -> Transaction] /\ OpenTransactions'
    BY <1>11, EmptyRecords DEF Commit, TypeInv, TypeOK, OpenTransactions
  <2>3. job' \in [Consumers -> Delivery] /\ LiveDeliveries'
    <3>1. CASE w \in Consumers
      <4>1. job[w].next + 1 \in Nat
        BY <3>1 DEF TypeInv, TypeOK, Delivery
      <4>2. job' = [job EXCEPT ![w].next = job[w].next + 1]
        BY <1>11, <3>1 DEF Commit
      <4> QED
        BY <3>1, <4>1, <4>2, LoopTypeInv
    <3>2. CASE w \notin Consumers
      BY <1>11, <3>2 DEF Commit, TypeInv, TypeOK, LiveDeliveries
    <3> QED
      BY <3>1, <3>2
  <2> QED
    BY <1>11, <2>1, <2>2, <2>3 DEF Commit, TypeInv, TypeOK
<1>12. ASSUME NEW w \in Workers, DeadlockVictim(w) PROVE TypeInv'
  BY <1>12, FailTypeInv DEF DeadlockVictim, TypeInv, TypeOK
<1>13. ASSUME NEW w \in Workers, StatementFails(w) PROVE TypeInv'
  BY <1>13, FailTypeInv DEF StatementFails, Fault, TypeInv, TypeOK
<1>14. ASSUME NEW w \in Workers, CommitAnswerLost(w) PROVE TypeInv'
  BY <1>14, FailTypeInv, PersistType DEF CommitAnswerLost, Fault, TypeInv, TypeOK
<1>15. CASE Restart
  <2>1. tx' \in [Workers -> Transaction] /\ OpenTransactions'
    BY <1>15, EmptyRecords DEF Restart, OpenTransactions
  <2>2. job' \in [Consumers -> Delivery] /\ LiveDeliveries'
    BY <1>15, EmptyRecords DEF Restart, LiveDeliveries
  <2>3. ready' \in [Events -> Nat]
    <3> DEFINE requeued(e) == Cardinality({c \in Consumers : job[c].live /\ job[c].event = e})
    <3>1. \A e \in Events : requeued(e) \in Nat
      BY RequeuedNat
    <3>2. ready' = [e \in Events |-> ready[e] + requeued(e)]
      BY <1>15 DEF Restart
    <3> HIDE DEF requeued
    <3> QED
      BY <3>1, <3>2 DEF TypeInv, TypeOK
  <2> QED
    BY <1>15, <2>1, <2>2, <2>3 DEF Restart, Fault, TypeInv, TypeOK
<1> QED
  BY <1>0, <1>1, <1>2, <1>3, <1>4, <1>5, <1>6, <1>7, <1>8, <1>9, <1>10, <1>11, <1>12,
     <1>13, <1>14, <1>15 DEF Next, ListenerStep, WorkerStep

\* Every reachable state is well typed: no step, failure or restart of the
\* service writes a row, a transaction or a delivery outside its type.
THEOREM TypeCorrect == Spec => []TypeOK
<1>1. TypeInv => TypeOK
  BY DEF TypeInv
<1> QED
  BY InitTypeInv, NextTypeInv, <1>1, PTL DEF Spec

LEMMA DeliveriesAreEvents == Spec => []LiveDeliveries
<1>1. TypeInv => LiveDeliveries
  BY DEF TypeInv
<1> QED
  BY InitTypeInv, NextTypeInv, <1>1, PTL DEF Spec

-----------------------------------------------------------------------------
(***************************************************************************)
(* Idempotency.  KeysUnique is not inductive: between a transaction's      *)
(* INSERT and its commit nothing in the tables shows the key it took.  The *)
(* strengthening says what the unique index guarantees meanwhile: a key    *)
(* held by an open transaction is neither committed nor held by another.   *)
(***************************************************************************)
Holds(w) == tx[w].step \in {"lines", "open"}

HeldKeys ==
    \A w \in Workers : Holds(w) =>
        /\ ~KeyExists(tx[w].cmd.key)
        /\ \A v \in Workers \ {w} : Holds(v) => tx[v].cmd.key # tx[w].cmd.key

KeysInv == KeysUnique /\ HeldKeys

\* A step that neither commits nor lets a transaction take a key.
LEMMA NoNewKey ==
    ASSUME KeysInv, UNCHANGED journal,
           \A w \in Workers : Holds(w)' => Holds(w) /\ tx'[w].cmd = tx[w].cmd
    PROVE  KeysInv'
  BY DEF KeysInv, KeysUnique, HeldKeys, KeyExists, Holds

\* A step that replaces one transaction by one that holds no key.
LEMMA NoKeyTaken ==
    ASSUME TypeInv, KeysInv, UNCHANGED journal, NEW w \in Workers, NEW u,
           u.step \notin {"lines", "open"},
           tx' = [tx EXCEPT ![w] = u]
    PROVE  KeysInv'
<1>1. \A v \in Workers : Holds(v)' => Holds(v) /\ tx'[v].cmd = tx[v].cmd
  BY DEF TypeInv, TypeOK, Holds
<1> QED
  BY <1>1, NoNewKey

\* A failed call gives its key up.
LEMMA FailKeysInv ==
    ASSUME TypeInv, KeysInv, UNCHANGED journal, NEW w \in Workers, Fail(w)
    PROVE  KeysInv'
  BY NoKeyTaken, EmptyRecords DEF Fail

\* A statement of a transaction that holds its key already takes none.
LEMMA AdvanceKeysInv ==
    ASSUME TypeInv, KeysInv, UNCHANGED journal, NEW w \in Workers, Holds(w),
           NEW step, NEW entry, NEW rows, NEW opened,
           Advance(w, step, entry, rows, opened)
    PROVE  KeysInv'
<1>1. \A v \in Workers : Holds(v)' => Holds(v) /\ tx'[v].cmd = tx[v].cmd
  BY DEF TypeInv, TypeOK, Holds, Advance
<1> QED
  BY <1>1, NoNewKey

\* A commit turns a held key into a committed one.
LEMMA PersistKeysInv ==
    ASSUME TypeInv, KeysInv, NEW w \in Workers, Persist(w),
           tx' = [tx EXCEPT ![w] = NoTx]
    PROVE  KeysInv'
<1> DEFINE entry == [id |-> tx[w].entry, key |-> tx[w].cmd.key,
                     action |-> tx[w].cmd.action, lines |-> tx[w].rows]
<1>1. journal' = journal \cup {entry} /\ entry.key = tx[w].cmd.key /\ Holds(w)
  BY DEF Persist, Holds
<1> HIDE DEF entry
<1>2. ~Holds(w)' /\ \A v \in Workers \ {w} : tx'[v] = tx[v]
  BY EmptyRecords DEF TypeInv, TypeOK, Holds
<1>3. KeysUnique'
  BY <1>1 DEF KeysInv, KeysUnique, HeldKeys, KeyExists
<1>4. HeldKeys'
  <2> SUFFICES ASSUME NEW v \in Workers, Holds(v)'
               PROVE  /\ ~KeyExists(tx[v].cmd.key)'
                      /\ \A x \in Workers \ {v} : Holds(x)' => tx'[x].cmd.key # tx'[v].cmd.key
    BY DEF HeldKeys
  <2>1. v # w /\ tx'[v] = tx[v] /\ Holds(v)
    BY <1>2 DEF Holds
  <2>2. ~KeyExists(tx[v].cmd.key)'
    BY <1>1, <2>1 DEF KeysInv, HeldKeys, KeyExists
  <2>3. ASSUME NEW x \in Workers \ {v}, Holds(x)' PROVE tx'[x].cmd.key # tx'[v].cmd.key
    BY <1>2, <2>1, <2>3 DEF KeysInv, HeldKeys, Holds
  <2> QED
    BY <2>2, <2>3
<1> QED
  BY <1>3, <1>4 DEF KeysInv

\* A new entry row takes a key that is neither committed nor held.
LEMMA InsertKeysInv ==
    ASSUME TypeInv, KeysInv, UNCHANGED journal, NEW w \in Workers,
           tx[w].step = "insert", ~KeyExists(tx[w].cmd.key),
           \A v \in Workers \ {w} : ~HoldsKey(v, tx[w].cmd.key),
           Advance(w, "lines", nextEntry, <<>>, {})
    PROVE  KeysInv'
<1>1. /\ tx'[w].cmd = tx[w].cmd
      /\ \A v \in Workers \ {w} : tx'[v] = tx[v]
  BY DEF Advance, TypeInv, TypeOK
<1>2. KeysUnique' /\ \A key : KeyExists(key)' <=> KeyExists(key)
  BY DEF KeysInv, KeysUnique, KeyExists
<1>3. HeldKeys'
  BY <1>1, <1>2 DEF KeysInv, HeldKeys, Holds, HoldsKey, KeyExists
<1> QED
  BY <1>2, <1>3 DEF KeysInv

\* Every step preserves the guarantee of the unique index.
LEMMA NextKeysInv == TypeInv /\ KeysInv /\ [Next]_vars => KeysInv'
<1> SUFFICES ASSUME TypeInv, KeysInv, [Next]_vars PROVE KeysInv'
  OBVIOUS
<1> USE DEF db
<1>0. CASE UNCHANGED <<journal, tx>>
  BY <1>0, NoNewKey DEF Holds
<1>1. ASSUME NEW w \in Workers, NEW cmd, Begin(w, cmd), UNCHANGED journal PROVE KeysInv'
  BY <1>1, NoKeyTaken DEF Begin
<1>2. ASSUME NEW c \in Consumers, SettleLosingPick(c) PROVE KeysInv'
  <2>1. UNCHANGED journal /\ c \in Workers
    BY <1>2 DEF SettleLosingPick, Workers
  <2>2. UNCHANGED tx \/ Fail(c) \/ \E cmd : Begin(c, cmd)
    BY <1>2 DEF SettleLosingPick
  <2> QED
    BY <1>0, <1>1, <2>1, <2>2, FailKeysInv
<1>3. ASSUME NEW a \in Admins, NEW m \in ManualCommands, PostManualEntry(a, m) PROVE KeysInv'
  BY <1>1, <1>3 DEF PostManualEntry, Workers
<1>4. ASSUME NEW a \in Admins, NEW x \in journal, Reverse(a, x) PROVE KeysInv'
  BY <1>1, <1>4 DEF Reverse, Workers
<1>5. ASSUME NEW w \in Workers, InsertEntry(w) PROVE KeysInv'
  BY <1>5, FailKeysInv, InsertKeysInv DEF InsertEntry
<1>6. ASSUME NEW w \in Workers, PostLine(w) PROVE KeysInv'
  <2>1. UNCHANGED journal /\ Holds(w)
    BY <1>6 DEF PostLine, Holds
  <2>2. \E step, entry, rows, opened : Advance(w, step, entry, rows, opened)
    BY <1>6 DEF PostLine
  <2> QED
    BY <2>1, <2>2, AdvanceKeysInv
<1>7. ASSUME NEW w \in Workers, OpenAccount(w) PROVE KeysInv'
  <2>1. UNCHANGED journal /\ Holds(w)
    BY <1>7 DEF OpenAccount, Holds
  <2>2. Fail(w) \/ \E step, entry, rows, opened : Advance(w, step, entry, rows, opened)
    BY <1>7 DEF OpenAccount
  <2> QED
    BY <2>1, <2>2, AdvanceKeysInv, FailKeysInv
<1>8. ASSUME NEW w \in Workers, Commit(w) PROVE KeysInv'
  BY <1>8, PersistKeysInv DEF Commit
<1>9. ASSUME NEW w \in Workers, DeadlockVictim(w) PROVE KeysInv'
  BY <1>9, FailKeysInv DEF DeadlockVictim
<1>10. ASSUME NEW w \in Workers, StatementFails(w) PROVE KeysInv'
  BY <1>10, FailKeysInv DEF StatementFails
<1>11. ASSUME NEW w \in Workers, CommitAnswerLost(w) PROVE KeysInv'
  BY <1>11, PersistKeysInv DEF CommitAnswerLost, Fail
<1>12. CASE Restart
  <2>1. \A w \in Workers : ~Holds(w)'
    BY <1>12, EmptyRecords DEF Restart, Holds
  <2> QED
    BY <1>12, <2>1, NoNewKey DEF Restart
<1>13. ASSUME NEW e \in Events, Publish(e) PROVE KeysInv'
  BY <1>0, <1>13 DEF Publish
<1>14. ASSUME NEW c \in Consumers, NEW e \in Events, Deliver(c, e) PROVE KeysInv'
  BY <1>0, <1>14 DEF Deliver
<1>15. ASSUME NEW c \in Consumers, Ack(c) \/ ConnectionLost(c) PROVE KeysInv'
  BY <1>0, <1>15 DEF Ack, ConnectionLost
<1>16. CASE UNCHANGED vars
  BY <1>0, <1>16 DEF vars
<1> QED
  BY <1>2, <1>3, <1>4, <1>5, <1>6, <1>7, <1>8, <1>9, <1>10, <1>11, <1>12, <1>13, <1>14,
     <1>15, <1>16 DEF Next, ListenerStep, WorkerStep

\* At the start no key is taken.
LEMMA InitKeysInv == Init => KeysInv
  BY EmptyRecords DEF Init, KeysInv, KeysUnique, HeldKeys, Holds

\* No losing line is ever charged twice and no entry reversed twice: in every
\* reachable state an idempotency key names one entry, however many threads,
\* copies, retries and restarts there are.
THEOREM NoDoublePosting == Spec => []KeysUnique
<1>1. KeysInv => KeysUnique
  BY DEF KeysInv
<1> QED
  BY <1>1, InitKeysInv, InitTypeInv, NextTypeInv, NextKeysInv, PTL DEF Spec

-----------------------------------------------------------------------------
(***************************************************************************)
(* Accounts.  The accounts an open transaction has inserted are as good as *)
(* committed: their owners and ids clash with no account of the table or   *)
(* of any transaction.                                                     *)
(***************************************************************************)
OpenedApart ==
    \A w \in Workers : \A a \in tx[w].opened :
        /\ a.id < nextAccount
        /\ \A b \in accounts : a.owner # b.owner /\ a.id # b.id
        /\ \A v \in Workers : \A b \in tx[v].opened :
              a.owner = b.owner \/ a.id = b.id => v = w /\ a = b

\* A transaction about to open an account has not opened one for that owner.
OpeningNew ==
    \A w \in Workers : tx[w].step = "open" =>
        \A a \in tx[w].opened : a.owner # CurrentLine(w).owner

AccountsInv ==
    /\ OneAccountPerOwner
    /\ \A a \in accounts : a.id < nextAccount
    /\ OpenedApart /\ OpeningNew

\* A step that opens no account: transactions stay as they are, end, or advance
\* with the accounts they have.
LEMMA NoNewAccount ==
    ASSUME TypeInv, AccountsInv, UNCHANGED accounts,
           nextAccount' \in Nat, nextAccount' >= nextAccount,
           \A w \in Workers : tx'[w].opened \subseteq tx[w].opened,
           OpeningNew'
    PROVE  AccountsInv'
<1>1. OneAccountPerOwner'
  BY DEF AccountsInv, OneAccountPerOwner
<1>2. \A a \in AccountRow : a.id < nextAccount => a.id < nextAccount'
  BY DEF TypeInv, TypeOK, AccountRow
<1>3. \A w \in Workers : tx[w].opened \subseteq AccountRow
  BY DEF TypeInv, TypeOK, Transaction
<1>4. (\A a \in accounts : a.id < nextAccount)'
  BY <1>2 DEF AccountsInv, TypeInv, TypeOK
<1>5. OpenedApart'
  BY <1>2, <1>3 DEF AccountsInv, OpenedApart
<1> QED
  BY <1>1, <1>4, <1>5 DEF AccountsInv

\* A step that replaces one transaction by one with no opened accounts.
LEMMA NoneOpened ==
    ASSUME TypeInv, AccountsInv, UNCHANGED accounts,
           nextAccount' \in Nat, nextAccount' >= nextAccount,
           NEW w \in Workers, NEW u, u.opened = {},
           tx' = [tx EXCEPT ![w] = u]
    PROVE  AccountsInv'
<1>1. /\ tx'[w].opened = {}
      /\ \A v \in Workers \ {w} : tx'[v] = tx[v]
  BY DEF TypeInv, TypeOK
<1>2. OpeningNew'
  BY <1>1 DEF AccountsInv, OpeningNew, CurrentLine
<1> QED
  BY <1>1, <1>2, NoNewAccount

\* A failed call gives its accounts up.
LEMMA FailAccountsInv ==
    ASSUME TypeInv, AccountsInv, UNCHANGED accounts,
           nextAccount' \in Nat, nextAccount' >= nextAccount,
           NEW w \in Workers, Fail(w)
    PROVE  AccountsInv'
  BY NoneOpened, EmptyRecords DEF Fail

\* A commit makes the opened accounts visible and clears the transaction.
LEMMA PersistAccountsInv ==
    ASSUME TypeInv, AccountsInv, UNCHANGED nextAccount, NEW w \in Workers,
           Persist(w), tx' = [tx EXCEPT ![w] = NoTx]
    PROVE  AccountsInv'
<1>1. accounts' = accounts \cup tx[w].opened
  BY DEF Persist
<1>2. /\ tx'[w].opened = {}
      /\ \A v \in Workers \ {w} : tx'[v] = tx[v]
  BY EmptyRecords DEF TypeInv, TypeOK
<1>3. OneAccountPerOwner'
  BY <1>1 DEF AccountsInv, OneAccountPerOwner, OpenedApart
<1>4. (\A a \in accounts : a.id < nextAccount)'
  BY <1>1 DEF AccountsInv, OpenedApart
<1>5. OpenedApart'
  BY <1>1, <1>2 DEF AccountsInv, OpenedApart
<1>6. OpeningNew'
  BY <1>2 DEF AccountsInv, OpeningNew, CurrentLine
<1> QED
  BY <1>3, <1>4, <1>5, <1>6 DEF AccountsInv

\* A new account row has an owner nobody else has and a fresh id.
LEMMA OpenAccountsInv ==
    ASSUME TypeInv, AccountsInv, UNCHANGED accounts, NEW w \in Workers,
           tx[w].step = "open",
           \A v \in Workers \ {w} : ~HoldsOwner(v, CurrentLine(w).owner),
           \A a \in accounts : a.owner # CurrentLine(w).owner,
           nextAccount' = nextAccount + 1,
           NEW row, row = [id |-> nextAccount, owner |-> CurrentLine(w).owner],
           NEW rows,
           Advance(w, "lines", tx[w].entry, rows, tx[w].opened \cup {row})
    PROVE  AccountsInv'
<1>1. /\ tx'[w].opened = tx[w].opened \cup {row} /\ tx'[w].step = "lines"
      /\ \A v \in Workers \ {w} : tx'[v] = tx[v]
  BY DEF Advance, TypeInv, TypeOK
<1>2. row.id = nextAccount /\ row.owner = CurrentLine(w).owner
  OBVIOUS
<1>3. \A a \in accounts : a.id \in Nat /\ a.id < nextAccount
  BY DEF AccountsInv, TypeInv, TypeOK, AccountRow
<1>4. \A v \in Workers : \A a \in tx[v].opened : a.id \in Nat /\ a.id < nextAccount
  BY DEF AccountsInv, OpenedApart, TypeInv, TypeOK, Transaction, AccountRow
<1>5. \A v \in Workers : \A a \in tx[v].opened : a.owner # row.owner
  BY <1>2 DEF AccountsInv, OpeningNew, HoldsOwner
<1>6. OneAccountPerOwner' /\ (\A a \in accounts : a.id < nextAccount)'
  BY <1>3 DEF AccountsInv, OneAccountPerOwner, TypeInv, TypeOK
<1>7. OpenedApart'
  <2> SUFFICES ASSUME NEW v \in Workers, NEW a \in tx'[v].opened
               PROVE  /\ a.id < nextAccount'
                      /\ \A b \in accounts : a.owner # b.owner /\ a.id # b.id
                      /\ \A x \in Workers : \A b \in tx'[x].opened :
                            a.owner = b.owner \/ a.id = b.id => x = v /\ a = b
    BY DEF OpenedApart
  <2>1. nextAccount \in Nat
    BY DEF TypeInv, TypeOK
  <2>2. CASE a \in tx[v].opened
    <3>1. a # row /\ a.id # row.id /\ a.owner # row.owner
      BY <1>2, <1>4, <1>5, <2>1, <2>2
    <3>2. a.id < nextAccount'
      BY <1>4, <2>1, <2>2
    <3> QED
      BY <1>1, <2>2, <3>1, <3>2 DEF AccountsInv, OpenedApart
  <2>3. CASE a \notin tx[v].opened
    <3>1. a = row /\ v = w
      BY <1>1, <2>3
    <3>2. \A x \in Workers : \A b \in tx[x].opened : a.id # b.id /\ a.owner # b.owner
      BY <1>2, <1>4, <1>5, <2>1, <3>1
    <3>3. \A b \in accounts : a.owner # b.owner /\ a.id # b.id
      BY <1>2, <1>3, <2>1, <3>1
    <3> QED
      BY <1>1, <1>2, <2>1, <3>1, <3>2, <3>3
  <2> QED
    BY <2>2, <2>3
<1>8. OpeningNew'
  BY <1>1 DEF AccountsInv, OpeningNew, CurrentLine
<1> QED
  BY <1>6, <1>7, <1>8 DEF AccountsInv

\* Every step preserves the uniqueness of accounts.
LEMMA NextAccountsInv == TypeInv /\ AccountsInv /\ [Next]_vars => AccountsInv'
<1> SUFFICES ASSUME TypeInv, AccountsInv, [Next]_vars PROVE AccountsInv'
  OBVIOUS
<1> USE DEF db, sequences
<1> nextAccount \in Nat
  BY DEF TypeInv, TypeOK
<1>0. CASE UNCHANGED <<accounts, nextAccount, tx>>
  BY <1>0, NoNewAccount DEF AccountsInv, OpeningNew, CurrentLine
<1>1. ASSUME NEW w \in Workers, NEW cmd, Begin(w, cmd), UNCHANGED <<accounts, nextAccount>>
      PROVE  AccountsInv'
  <2> DEFINE u == [step |-> "insert", cmd |-> cmd, entry |-> 0, rows |-> <<>>, opened |-> {}]
  <2>1. u.opened = {} /\ tx' = [tx EXCEPT ![w] = u]
    BY <1>1 DEF Begin
  <2> HIDE DEF u
  <2>2. nextAccount' \in Nat /\ nextAccount' >= nextAccount /\ UNCHANGED accounts
    BY <1>1
  <2> QED
    BY <2>1, <2>2, NoneOpened, Zenon
<1>2. ASSUME NEW c \in Consumers, SettleLosingPick(c) PROVE AccountsInv'
  <2>1. UNCHANGED <<accounts, nextAccount>> /\ c \in Workers
    BY <1>2 DEF SettleLosingPick, Workers
  <2>2. UNCHANGED tx \/ Fail(c) \/ \E cmd : Begin(c, cmd)
    BY <1>2 DEF SettleLosingPick
  <2> QED
    BY <1>0, <1>1, <2>1, <2>2, FailAccountsInv
<1>3. ASSUME NEW a \in Admins, NEW m \in ManualCommands, PostManualEntry(a, m) PROVE AccountsInv'
  BY <1>1, <1>3 DEF PostManualEntry, Workers
<1>4. ASSUME NEW a \in Admins, NEW x \in journal, Reverse(a, x) PROVE AccountsInv'
  BY <1>1, <1>4 DEF Reverse, Workers
<1>5. ASSUME NEW w \in Workers, InsertEntry(w) PROVE AccountsInv'
  <2>1. UNCHANGED <<accounts, nextAccount>>
    BY <1>5 DEF InsertEntry
  <2>2. Fail(w) \/ Advance(w, "lines", nextEntry, <<>>, {})
    BY <1>5 DEF InsertEntry
  <2> QED
    <3> DEFINE u == [step |-> "lines", cmd |-> tx[w].cmd, entry |-> nextEntry,
                     rows |-> <<>>, opened |-> {}]
    <3>1. CASE tx' = [tx EXCEPT ![w] = u]
      <4>1. u.opened = {}
        OBVIOUS
      <4> HIDE DEF u
      <4>2. nextAccount' \in Nat /\ nextAccount' >= nextAccount /\ UNCHANGED accounts
        BY <2>1
      <4> QED
        BY <3>1, <4>1, <4>2, NoneOpened, Zenon
    <3> QED
      BY <2>1, <2>2, <3>1, FailAccountsInv DEF Advance
<1>6. ASSUME NEW w \in Workers, PostLine(w) PROVE AccountsInv'
  <2>1. UNCHANGED <<accounts, nextAccount>> /\ tx[w].step = "lines"
    BY <1>6 DEF PostLine
  <2>2. CASE \E rows : Advance(w, "lines", tx[w].entry, rows, tx[w].opened)
    <3>1. /\ tx'[w].step = "lines" /\ tx'[w].opened = tx[w].opened
          /\ \A v \in Workers \ {w} : tx'[v] = tx[v]
      BY <2>2 DEF Advance, TypeInv, TypeOK
    <3>2. OpeningNew'
      BY <3>1 DEF AccountsInv, OpeningNew, CurrentLine
    <3> QED
      BY <2>1, <3>1, <3>2, NoNewAccount
  <2>3. CASE /\ Advance(w, "open", tx[w].entry, tx[w].rows, tx[w].opened)
             /\ {a \in accounts \cup tx[w].opened : a.owner = CurrentLine(w).owner} = {}
    <3>1. /\ tx'[w].opened = tx[w].opened /\ tx'[w].cmd = tx[w].cmd /\ tx'[w].rows = tx[w].rows
          /\ \A v \in Workers \ {w} : tx'[v] = tx[v]
      BY <2>3 DEF Advance, TypeInv, TypeOK
    <3>2. OpeningNew'
      BY <2>3, <3>1 DEF AccountsInv, OpeningNew, CurrentLine
    <3> QED
      BY <2>1, <3>1, <3>2, NoNewAccount
  <2> QED
    BY <1>6, <2>2, <2>3 DEF PostLine
<1>7. ASSUME NEW w \in Workers, OpenAccount(w) PROVE AccountsInv'
  <2>1. UNCHANGED accounts /\ nextAccount' = nextAccount + 1 /\ tx[w].step = "open"
    BY <1>7 DEF OpenAccount
  <2>2. CASE Fail(w)
    BY <2>1, <2>2, FailAccountsInv
  <2>3. CASE ~Fail(w)
    <3> DEFINE row == [id |-> nextAccount, owner |-> CurrentLine(w).owner]
               rows == Append(tx[w].rows, PostingTo(row, CurrentLine(w)))
    <3>1. /\ \A v \in Workers \ {w} : ~HoldsOwner(v, CurrentLine(w).owner)
          /\ \A a \in accounts : a.owner # CurrentLine(w).owner
          /\ Advance(w, "lines", tx[w].entry, rows, tx[w].opened \cup {row})
      BY <1>7, <2>3 DEF OpenAccount
    <3> HIDE DEF rows
    <3> QED
      BY <2>1, <3>1, OpenAccountsInv
  <2> QED
    BY <2>2, <2>3
<1>8. ASSUME NEW w \in Workers, Commit(w) PROVE AccountsInv'
  BY <1>8, PersistAccountsInv DEF Commit
<1>9. ASSUME NEW w \in Workers, DeadlockVictim(w) PROVE AccountsInv'
  BY <1>9, FailAccountsInv DEF DeadlockVictim
<1>10. ASSUME NEW w \in Workers, StatementFails(w) PROVE AccountsInv'
  BY <1>10, FailAccountsInv DEF StatementFails
<1>11. ASSUME NEW w \in Workers, CommitAnswerLost(w) PROVE AccountsInv'
  BY <1>11, PersistAccountsInv DEF CommitAnswerLost, Fail
<1>12. CASE Restart
  <2>1. \A w \in Workers : tx'[w].opened = {}
    BY <1>12, EmptyRecords DEF Restart
  <2>2. OpeningNew'
    BY <2>1 DEF OpeningNew
  <2> QED
    BY <1>12, <2>1, <2>2, NoNewAccount DEF Restart
<1>13. ASSUME NEW e \in Events, Publish(e) PROVE AccountsInv'
  BY <1>0, <1>13 DEF Publish
<1>14. ASSUME NEW c \in Consumers, NEW e \in Events, Deliver(c, e) PROVE AccountsInv'
  BY <1>0, <1>14 DEF Deliver
<1>15. ASSUME NEW c \in Consumers, Ack(c) \/ ConnectionLost(c) PROVE AccountsInv'
  BY <1>0, <1>15 DEF Ack, ConnectionLost
<1>16. CASE UNCHANGED vars
  BY <1>0, <1>16 DEF vars
<1> QED
  BY <1>2, <1>3, <1>4, <1>5, <1>6, <1>7, <1>8, <1>9, <1>10, <1>11, <1>12, <1>13, <1>14,
     <1>15, <1>16 DEF Next, ListenerStep, WorkerStep

\* The seeded accounts have an owner and an id each.
LEMMA InitAccountsInv == Init => AccountsInv
  BY EmptyRecords DEF Init, SeededAccounts, AccountsInv, OneAccountPerOwner, OpenedApart,
                      OpeningNew

\* A player's money is on one account row, however many transactions tried to
\* open the account at once, and two rows never share an id.
THEOREM OneRowPerPlayer == Spec => []OneAccountPerOwner
<1>1. AccountsInv => OneAccountPerOwner
  BY DEF AccountsInv
<1> QED
  BY <1>1, InitAccountsInv, InitTypeInv, NextTypeInv, NextAccountsInv, PTL DEF Spec

=============================================================================
