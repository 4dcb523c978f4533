------------------------- MODULE LedgerJournalProofs -------------------------
(***************************************************************************)
(* What the journal holds: every entry is one that was asked for, a        *)
(* reversal cancels its original, and an acknowledged event is fully       *)
(* settled, for all users, events, settlement lines, manual entries,       *)
(* threads and bounds.                                                     *)
(***************************************************************************)
EXTENDS LedgerProofs

-----------------------------------------------------------------------------
(***************************************************************************)
(* Every step of the service as its tables see it.                         *)
(***************************************************************************)
\* A losing line of an event, and the command that charges it.
Loses(e, i) == i \in DOMAIN Settlements[e] /\ Settlements[e][i].result = "LOST"
Charge(e, i) == SettleCommand(e, Settlements[e][i])

\* What may be asked of the ledger, entries being those of the journal.
Asked(cmd, entries) ==
    \/ \E e \in Events : \E i \in DOMAIN Settlements[e] : Loses(e, i) /\ cmd = Charge(e, i)
    \/ cmd \in ManualCommands
    \/ \E x \in entries : cmd = ReverseCommand(x)

\* The command a journal entry answers.
CommandOf(x) == [key |-> x.key, action |-> x.action, lines |-> LinesOf(x.lines)]

\* Ids come from the identity: below its next value, and one for each entry,
\* committed or not.
EntryIds ==
    /\ \A x \in journal : x.id < nextEntry
    /\ \A x, y \in journal : x.id = y.id => x = y
    /\ \A w \in Workers : Holds(w) =>
          /\ tx[w].entry < nextEntry
          /\ \A x \in journal : x.id # tx[w].entry
          /\ \A v \in Workers : Holds(v) /\ tx[v].entry = tx[w].entry => v = w

\* What a transaction has posted is what its command asks for, as far as it got.
RowsMatch ==
    \A w \in Workers : Holds(w) =>
        /\ Len(tx[w].rows) <= Len(tx[w].cmd.lines)
        /\ \A i \in 1..Len(tx[w].rows) :
              /\ LineOf(tx[w].rows[i]) = tx[w].cmd.lines[i]
              /\ tx[w].rows[i].account \in accounts \cup tx[w].opened

\* An open transaction answers a request, and so does a committed entry.
OpenRequests == \A w \in Workers : tx[w].step # "idle" => Asked(tx[w].cmd, journal)

CommittedRequests ==
    \A x \in journal :
        /\ Asked(CommandOf(x), journal)
        /\ \A i \in 1..Len(x.lines) : x.lines[i].account \in accounts

\* The line has its entry, or one that an administrator made under its key.
Charged(e, i, entries) == \E x \in entries : x.key = Charge(e, i).key

ChargedUpTo(e, n, entries) ==
    \A i \in DOMAIN Settlements[e] : Loses(e, i) /\ i < n => Charged(e, i, entries)

\* A listener's loop has settled each losing line before the one it has reached,
\* and its transaction charges that one.
OnLine(c) ==
    /\ job[c].event # NoEvent => ChargedUpTo(job[c].event, job[c].next, journal)
    /\ tx[c].step # "idle" =>
          /\ job[c].event # NoEvent /\ Loses(job[c].event, job[c].next)
          /\ tx[c].cmd = Charge(job[c].event, job[c].next)

FullyCharged(e) == \A i \in DOMAIN Settlements[e] : Loses(e, i) => Charged(e, i, journal)

LoopInv == (\A c \in Consumers : OnLine(c)) /\ (\A e \in acked : FullyCharged(e))

-----------------------------------------------------------------------------
(***************************************************************************)
(* The steps, as the journal and the open transactions see them.           *)
(***************************************************************************)
\* Nothing happens to the tables.
Kept == UNCHANGED <<accounts, journal, nextEntry, tx>>

\* A transaction begins with a validated request, fails or is rolled back, inserts its
\* entry, posts a line, finds no account for it, commits; a restart ends all.
Begins(w) ==
    /\ UNCHANGED <<accounts, journal, nextEntry>>
    /\ \E cmd : Asked(cmd, journal) /\ ValidateBalanced(cmd.lines) /\ Begin(w, cmd)

Ends(w) ==
    /\ UNCHANGED <<accounts, journal>>
    /\ nextEntry' \in {nextEntry, nextEntry + 1}
    /\ tx' = [tx EXCEPT ![w] = NoTx]

Inserts(w) ==
    /\ tx[w].step = "insert"
    /\ UNCHANGED <<accounts, journal>>
    /\ nextEntry' = nextEntry + 1
    /\ Advance(w, "lines", nextEntry, <<>>, {})

Posts(w) ==
    /\ Holds(w)
    /\ Len(tx[w].rows) < Len(tx[w].cmd.lines)
    /\ UNCHANGED <<accounts, journal, nextEntry>>
    /\ \E opened : \E a \in accounts \cup opened :
          /\ tx[w].opened \subseteq opened
          /\ a.owner = CurrentLine(w).owner
          /\ Advance(w, "lines", tx[w].entry,
                     Append(tx[w].rows, PostingTo(a, CurrentLine(w))), opened)

Seeks(w) ==
    /\ Holds(w)
    /\ UNCHANGED <<accounts, journal, nextEntry>>
    /\ Advance(w, "open", tx[w].entry, tx[w].rows, tx[w].opened)

Commits(w) ==
    /\ Persist(w)
    /\ tx' = [tx EXCEPT ![w] = NoTx]
    /\ UNCHANGED nextEntry

Stops ==
    /\ UNCHANGED <<accounts, journal, nextEntry>>
    /\ tx' = [w \in Workers |-> NoTx]

EntryStep ==
    \/ Kept
    \/ Stops
    \/ \E w \in Workers :
          Begins(w) \/ Ends(w) \/ Inserts(w) \/ Posts(w) \/ Seeks(w) \/ Commits(w)

\* A failed call ends its transaction.
LEMMA FailEnds ==
    ASSUME NEW w, Fail(w), UNCHANGED <<accounts, journal>>,
           nextEntry' \in {nextEntry, nextEntry + 1}
    PROVE  Ends(w)
  BY DEF Fail, Ends

\* The listener asks for what the event says.
LEMMA ListenerAsks ==
    ASSUME TypeInv, NEW c \in Consumers, SettleLosingPick(c)
    PROVE  EntryStep
<1>1. c \in Workers /\ job[c].event \in Events
  BY DEF SettleLosingPick, TypeInv, TypeOK, Workers, Delivery
<1>2. UNCHANGED <<accounts, journal, nextEntry>>
  BY DEF SettleLosingPick, db, sequences
<1>3. \A i \in Remaining(c) : Asked(Charge(job[c].event, i), journal)
  BY <1>1 DEF Remaining, Asked, Loses
<1>4. \/ UNCHANGED tx
      \/ \E i \in Remaining(c) :
            ValidateBalanced(Charge(job[c].event, i).lines) /\ Begin(c, Charge(job[c].event, i))
      \/ Fail(c)
  BY DEF SettleLosingPick, Charge
<1> QED
  BY <1>1, <1>2, <1>3, <1>4, FailEnds DEF EntryStep, Kept, Begins

\* Whatever happens is one of these steps.
LEMMA NextEntryStep == TypeInv /\ [Next]_vars => EntryStep
<1> SUFFICES ASSUME TypeInv, [Next]_vars PROVE EntryStep
  OBVIOUS
<1> USE DEF db, sequences
<1>1. ASSUME NEW c \in Consumers, SettleLosingPick(c) PROVE EntryStep
  BY <1>1, ListenerAsks
<1>2. ASSUME NEW a \in Admins, NEW m \in ManualCommands, PostManualEntry(a, m) PROVE EntryStep
  BY <1>2 DEF PostManualEntry, Workers, Asked, Begins, EntryStep
<1>3. ASSUME NEW a \in Admins, NEW x \in journal, Reverse(a, x) PROVE EntryStep
  BY <1>3 DEF Reverse, Workers, Asked, Begins, EntryStep
<1>4. ASSUME NEW w \in Workers, InsertEntry(w) PROVE EntryStep
  BY <1>4, FailEnds DEF InsertEntry, Inserts, EntryStep
<1>5. ASSUME NEW w \in Workers, PostLine(w) PROVE EntryStep
  <2> DEFINE found == {a \in accounts \cup tx[w].opened : a.owner = CurrentLine(w).owner}
  <2>1. /\ Holds(w) /\ Len(tx[w].rows) < Len(tx[w].cmd.lines)
        /\ UNCHANGED <<accounts, journal, nextEntry>>
    BY <1>5 DEF PostLine, Holds
  <2>2. \/ \E a \in found :
              Advance(w, "lines", tx[w].entry,
                      Append(tx[w].rows, PostingTo(a, CurrentLine(w))), tx[w].opened)
        \/ Advance(w, "open", tx[w].entry, tx[w].rows, tx[w].opened)
    BY <1>5, Zenon DEF PostLine
  <2>3. Posts(w) \/ Seeks(w)
    BY <2>1, <2>2 DEF Posts, Seeks
  <2> QED
    BY <2>3 DEF EntryStep
<1>6. ASSUME NEW w \in Workers, OpenAccount(w) PROVE EntryStep
  <2> DEFINE row == [id |-> nextAccount, owner |-> CurrentLine(w).owner]
             opened == tx[w].opened \cup {row}
  <2>1. UNCHANGED <<accounts, journal, nextEntry>> /\ Holds(w)
    BY <1>6 DEF OpenAccount, Holds
  <2>2. Len(tx[w].rows) < Len(tx[w].cmd.lines)
    BY <1>6 DEF OpenAccount, TypeInv, OpenTransactions
  <2>3. row \in accounts \cup opened /\ row.owner = CurrentLine(w).owner
    OBVIOUS
  <2>4. \/ Advance(w, "lines", tx[w].entry,
                   Append(tx[w].rows, PostingTo(row, CurrentLine(w))), opened)
        \/ Fail(w)
    BY <1>6, Zenon DEF OpenAccount
  <2>5. tx[w].opened \subseteq opened
    OBVIOUS
  <2> HIDE DEF row, opened
  <2>6. Posts(w) \/ Ends(w)
    BY <2>1, <2>2, <2>3, <2>4, <2>5, FailEnds DEF Posts
  <2> QED
    BY <2>6 DEF EntryStep
<1>7. ASSUME NEW w \in Workers, Commit(w) \/ CommitAnswerLost(w) PROVE EntryStep
  BY <1>7 DEF Commit, CommitAnswerLost, Fail, Commits, EntryStep
<1>8. ASSUME NEW w \in Workers, DeadlockVictim(w) \/ StatementFails(w) PROVE EntryStep
  BY <1>8, FailEnds DEF DeadlockVictim, StatementFails, EntryStep
<1>9. CASE Restart
  BY <1>9 DEF Restart, Stops, EntryStep
<1>10. ASSUME NEW e \in Events, Publish(e) PROVE EntryStep
  BY <1>10 DEF Publish, Kept, EntryStep
<1>11. ASSUME NEW c \in Consumers, NEW e \in Events, Deliver(c, e) PROVE EntryStep
  BY <1>11 DEF Deliver, Kept, EntryStep
<1>12. ASSUME NEW c \in Consumers, Ack(c) \/ ConnectionLost(c) PROVE EntryStep
  BY <1>12 DEF Ack, ConnectionLost, Kept, EntryStep
<1>13. CASE UNCHANGED vars
  BY <1>13 DEF vars, Kept, EntryStep
<1> QED
  BY <1>1, <1>2, <1>3, <1>4, <1>5, <1>6, <1>7, <1>8, <1>9, <1>10, <1>11, <1>12, <1>13
     DEF Next, ListenerStep, WorkerStep

\* A transaction that is replaced leaves the others as they are.
LEMMA Replaced ==
    ASSUME TypeInv, NEW w \in Workers, NEW u, tx' = [tx EXCEPT ![w] = u]
    PROVE  tx'[w] = u /\ \A v \in Workers \ {w} : tx'[v] = tx[v]
  BY DEF TypeInv, TypeOK

\* What a statement that takes effect makes of a transaction.
LEMMA Advanced ==
    ASSUME TypeInv, NEW w \in Workers, NEW step, NEW entry, NEW rows, NEW opened,
           Advance(w, step, entry, rows, opened)
    PROVE  /\ tx'[w].step = step /\ tx'[w].entry = entry /\ tx'[w].rows = rows
           /\ tx'[w].opened = opened /\ tx'[w].cmd = tx[w].cmd
           /\ \A v \in Workers \ {w} : tx'[v] = tx[v]
  BY DEF Advance, TypeInv, TypeOK

-----------------------------------------------------------------------------
(***************************************************************************)
(* Entry ids.  An id is drawn before its row is committed, and may be      *)
(* drawn in vain; so an open transaction's id is apart from every other.   *)
(***************************************************************************)
\* A step that neither commits nor lets a transaction draw an id it keeps.
LEMMA NoNewEntryId ==
    ASSUME TypeInv, EntryIds, UNCHANGED journal,
           nextEntry' \in {nextEntry, nextEntry + 1},
           \A w \in Workers : Holds(w)' => Holds(w) /\ tx'[w].entry = tx[w].entry
    PROVE  EntryIds'
<1>1. nextEntry \in Nat /\ \A w \in Workers : tx[w].entry \in Nat
  BY DEF TypeInv, TypeOK, Transaction
<1>2. \A x \in journal : x.id \in Nat
  BY DEF TypeInv, TypeOK, EntryRow
<1> QED
  BY <1>1, <1>2 DEF EntryIds, Holds

\* Every step keeps entry ids apart.
LEMMA NextEntryIds == TypeInv /\ EntryIds /\ EntryStep => EntryIds'
<1> SUFFICES ASSUME TypeInv, EntryIds, EntryStep PROVE EntryIds'
  OBVIOUS
<1>1. /\ nextEntry \in Nat /\ \A w \in Workers : tx[w].entry \in Nat
      /\ \A x \in journal : x.id \in Nat
  BY DEF TypeInv, TypeOK, Transaction, EntryRow
<1>2. CASE Kept
  BY <1>2, NoNewEntryId DEF Kept, Holds
<1>3. CASE Stops
  BY <1>3, NoNewEntryId, EmptyRecords DEF Stops, Holds
<1>4. ASSUME NEW w \in Workers, Begins(w) PROVE EntryIds'
  <2>1. /\ tx'[w].step = "insert" /\ \A v \in Workers \ {w} : tx'[v] = tx[v]
        /\ UNCHANGED <<journal, nextEntry>>
    BY <1>4 DEF Begins, Begin, TypeInv, TypeOK
  <2> QED
    BY <2>1, NoNewEntryId DEF Holds
<1>5. ASSUME NEW w \in Workers, Ends(w) PROVE EntryIds'
  BY <1>5, Replaced, NoNewEntryId, EmptyRecords DEF Ends, Holds
<1>6. ASSUME NEW w \in Workers, Inserts(w) PROVE EntryIds'
  <2>1. /\ tx'[w].entry = nextEntry /\ \A v \in Workers \ {w} : tx'[v] = tx[v]
        /\ UNCHANGED journal /\ nextEntry' = nextEntry + 1
    BY <1>6, Advanced DEF Inserts
  <2> QED
    BY <1>1, <2>1 DEF EntryIds, Holds
<1>7. ASSUME NEW w \in Workers, Posts(w) \/ Seeks(w) PROVE EntryIds'
  <2>1. /\ Holds(w) /\ tx'[w].entry = tx[w].entry
        /\ \A v \in Workers \ {w} : tx'[v] = tx[v]
        /\ UNCHANGED <<journal, nextEntry>>
    BY <1>7, Advanced DEF Posts, Seeks
  <2> QED
    BY <2>1, NoNewEntryId DEF Holds
<1>8. ASSUME NEW w \in Workers, Commits(w) PROVE EntryIds'
  <2> DEFINE entry == [id |-> tx[w].entry, key |-> tx[w].cmd.key,
                       action |-> tx[w].cmd.action, lines |-> tx[w].rows]
  <2>1. journal' = journal \cup {entry} /\ entry.id = tx[w].entry /\ Holds(w)
    BY <1>8 DEF Commits, Persist, Holds
  <2> HIDE DEF entry
  <2>2. ~Holds(w)' /\ \A v \in Workers \ {w} : tx'[v] = tx[v]
    BY <1>8, Replaced, EmptyRecords DEF Commits, Holds
  <2>3. nextEntry' = nextEntry
    BY <1>8 DEF Commits
  <2> QED
    BY <2>1, <2>2, <2>3 DEF EntryIds, Holds
<1> QED
  BY <1>2, <1>3, <1>4, <1>5, <1>6, <1>7, <1>8 DEF EntryStep

-----------------------------------------------------------------------------
(***************************************************************************)
(* Requests.  A transaction works for a request that may be made, and its  *)
(* postings so far are the first lines of that request.                    *)
(***************************************************************************)
\* A request stays what it is when the journal grows.
LEMMA AskedMore ==
    ASSUME NEW entries, NEW more, entries \subseteq more, NEW cmd, Asked(cmd, entries)
    PROVE  Asked(cmd, more)
  BY DEF Asked

\* A posting made for a line says what the line says.
LEMMA PostedLine ==
    ASSUME NEW line \in Line, NEW a, a.owner = line.owner
    PROVE  LineOf(PostingTo(a, line)) = line /\ PostingTo(a, line).account = a
  BY DEF LineOf, PostingTo, Line

\* One more posting is one more line of the request.
LEMMA OneMoreRow ==
    ASSUME NEW rows \in Seq(Posting), NEW lines \in Seq(Line), Len(rows) < Len(lines),
           \A i \in 1..Len(rows) : LineOf(rows[i]) = lines[i],
           NEW a \in AccountRow, a.owner = lines[Len(rows) + 1].owner,
           NEW more, more = Append(rows, PostingTo(a, lines[Len(rows) + 1]))
    PROVE  /\ Len(more) <= Len(lines)
           /\ \A i \in 1..Len(more) :
                 /\ LineOf(more[i]) = lines[i]
                 /\ more[i].account = a \/ (i \in 1..Len(rows) /\ more[i] = rows[i])
<1> DEFINE n == Len(rows) + 1
           posting == PostingTo(a, lines[n])
<1>1. n \in 1..Len(lines) /\ lines[n] \in Line
  OBVIOUS
<1>2. LineOf(posting) = lines[n] /\ posting.account = a /\ posting \in Posting
  BY <1>1, PostedLine, PostingType
<1> HIDE DEF posting
<1>3. /\ Len(more) = n /\ more[n] = posting
      /\ \A i \in 1..Len(rows) : more[i] = rows[i]
  BY <1>2 DEF posting
<1> QED
  BY <1>1, <1>2, <1>3

\* A step that adds no posting to a transaction that stays open.
LEMMA NoNewRow ==
    ASSUME RowsMatch, UNCHANGED accounts,
           \A w \in Workers : Holds(w)' =>
              /\ Holds(w) /\ tx'[w].cmd = tx[w].cmd /\ tx'[w].rows = tx[w].rows
              /\ tx'[w].opened = tx[w].opened
    PROVE  RowsMatch'
  BY DEF RowsMatch, Holds

\* Every step keeps the postings in line with the requests.
LEMMA NextRowsMatch == TypeInv /\ TypeInv' /\ RowsMatch /\ EntryStep => RowsMatch'
<1> SUFFICES ASSUME TypeInv, TypeInv', RowsMatch, EntryStep PROVE RowsMatch'
  OBVIOUS
<1>1. CASE Kept
  BY <1>1, NoNewRow DEF Kept, Holds
<1>2. CASE Stops
  BY <1>2, NoNewRow, EmptyRecords DEF Stops, Holds
<1>3. ASSUME NEW w \in Workers, Begins(w) PROVE RowsMatch'
  <2>1. /\ tx'[w].step = "insert" /\ \A v \in Workers \ {w} : tx'[v] = tx[v]
        /\ UNCHANGED accounts
    BY <1>3 DEF Begins, Begin, TypeInv, TypeOK
  <2> QED
    BY <2>1, NoNewRow DEF Holds
<1>4. ASSUME NEW w \in Workers, Ends(w) PROVE RowsMatch'
  BY <1>4, Replaced, NoNewRow, EmptyRecords DEF Ends, Holds
<1>5. ASSUME NEW w \in Workers, Inserts(w) PROVE RowsMatch'
  <2>1. /\ tx'[w].rows = <<>> /\ tx'[w].cmd = tx[w].cmd /\ UNCHANGED accounts
        /\ \A v \in Workers \ {w} : tx'[v] = tx[v]
    BY <1>5, Advanced DEF Inserts
  <2>2. tx[w].cmd.lines \in Seq(Line)
    BY <1>5 DEF Inserts, TypeInv, OpenTransactions, Command
  <2>3. /\ Len(tx'[w].rows) <= Len(tx'[w].cmd.lines)
        /\ 1..Len(tx'[w].rows) = {}
    BY <2>1, <2>2
  <2> QED
    BY <2>1, <2>3 DEF RowsMatch, Holds
<1>6. ASSUME NEW w \in Workers, Posts(w) PROVE RowsMatch'
  <2>1. /\ Holds(w) /\ Len(tx[w].rows) < Len(tx[w].cmd.lines) /\ UNCHANGED accounts
        /\ tx[w].rows \in Seq(Posting) /\ tx[w].cmd.lines \in Seq(Line)
    BY <1>6 DEF Posts, Holds, TypeInv, TypeOK, OpenTransactions, Transaction, Command
  <2>2. PICK opened : \E a \in accounts \cup opened :
          /\ tx[w].opened \subseteq opened
          /\ a.owner = CurrentLine(w).owner
          /\ Advance(w, "lines", tx[w].entry,
                     Append(tx[w].rows, PostingTo(a, CurrentLine(w))), opened)
    BY <1>6 DEF Posts
  <2>3. PICK a \in accounts \cup opened :
          /\ tx[w].opened \subseteq opened
          /\ a.owner = CurrentLine(w).owner
          /\ Advance(w, "lines", tx[w].entry,
                     Append(tx[w].rows, PostingTo(a, CurrentLine(w))), opened)
    BY <2>2
  <2> DEFINE rows == tx[w].rows
             lines == tx[w].cmd.lines
             more == Append(rows, PostingTo(a, lines[Len(rows) + 1]))
  <2>4. Advance(w, "lines", tx[w].entry, more, opened)
    BY <2>3 DEF CurrentLine
  <2> HIDE DEF more
  <2>5. /\ tx'[w].cmd = tx[w].cmd /\ tx'[w].opened = opened /\ tx'[w].rows = more
        /\ \A v \in Workers \ {w} : tx'[v] = tx[v]
    BY <2>4, Advanced
  <2>6. a \in AccountRow
    BY <2>5 DEF TypeInv, TypeOK, Transaction
  <2>7. \A i \in 1..Len(rows) : LineOf(rows[i]) = lines[i] /\ rows[i].account \in accounts \cup opened
    BY <2>1, <2>3 DEF RowsMatch
  <2>8. /\ Len(more) <= Len(lines)
        /\ \A i \in 1..Len(more) :
              /\ LineOf(more[i]) = lines[i]
              /\ more[i].account = a \/ (i \in 1..Len(rows) /\ more[i] = rows[i])
    <3>1. /\ a.owner = lines[Len(rows) + 1].owner
          /\ rows \in Seq(Posting) /\ lines \in Seq(Line) /\ Len(rows) < Len(lines)
          /\ \A i \in 1..Len(rows) : LineOf(rows[i]) = lines[i]
      BY <2>1, <2>3, <2>7 DEF CurrentLine
    <3>2. more = Append(rows, PostingTo(a, lines[Len(rows) + 1]))
      BY DEF more
    <3> HIDE DEF rows, lines
    <3> QED
      BY <2>6, <3>1, <3>2, OneMoreRow
  <2>9. \A i \in 1..Len(more) : LineOf(more[i]) = lines[i] /\ more[i].account \in accounts \cup opened
    BY <2>7, <2>8
  <2> SUFFICES ASSUME NEW v \in Workers, Holds(v)'
               PROVE  /\ Len(tx'[v].rows) <= Len(tx'[v].cmd.lines)
                      /\ \A i \in 1..Len(tx'[v].rows) :
                            /\ LineOf(tx'[v].rows[i]) = tx'[v].cmd.lines[i]
                            /\ tx'[v].rows[i].account \in accounts' \cup tx'[v].opened
    BY DEF RowsMatch, LineOf
  <2>10. CASE v = w
    BY <2>1, <2>5, <2>8, <2>9, <2>10
  <2>11. CASE v # w
    BY <2>1, <2>5, <2>11 DEF RowsMatch, Holds
  <2> QED
    BY <2>10, <2>11
<1>7. ASSUME NEW w \in Workers, Seeks(w) PROVE RowsMatch'
  <2>1. /\ Holds(w) /\ tx'[w].cmd = tx[w].cmd /\ tx'[w].rows = tx[w].rows
        /\ tx'[w].opened = tx[w].opened /\ UNCHANGED accounts
        /\ \A v \in Workers \ {w} : tx'[v] = tx[v]
    BY <1>7, Advanced DEF Seeks
  <2> QED
    BY <2>1, NoNewRow DEF Holds
<1>8. ASSUME NEW w \in Workers, Commits(w) PROVE RowsMatch'
  <2>1. /\ ~Holds(w)' /\ \A v \in Workers \ {w} : tx'[v] = tx[v]
    BY <1>8, Replaced, EmptyRecords DEF Commits, Holds
  <2>2. accounts \subseteq accounts'
    BY <1>8 DEF Commits, Persist
  <2> QED
    BY <2>1, <2>2 DEF RowsMatch, Holds
<1> QED
  BY <1>1, <1>2, <1>3, <1>4, <1>5, <1>6, <1>7, <1>8 DEF EntryStep

\* A request is worked on until its transaction ends.
LEMMA NextOpenRequests == TypeInv /\ OpenRequests /\ EntryStep => OpenRequests'
<1> SUFFICES ASSUME TypeInv, OpenRequests, EntryStep PROVE OpenRequests'
  OBVIOUS
<1>1. CASE Kept
  BY <1>1 DEF Kept, OpenRequests
<1>2. CASE Stops
  BY <1>2, EmptyRecords DEF Stops, OpenRequests
<1>3. ASSUME NEW w \in Workers, Begins(w) PROVE OpenRequests'
  <2>1. /\ Asked(tx'[w].cmd, journal) /\ \A v \in Workers \ {w} : tx'[v] = tx[v]
        /\ UNCHANGED journal
    BY <1>3 DEF Begins, Begin, TypeInv, TypeOK
  <2> QED
    BY <2>1 DEF OpenRequests
<1>4. ASSUME NEW w \in Workers, Ends(w) PROVE OpenRequests'
  BY <1>4, Replaced, EmptyRecords DEF Ends, OpenRequests
<1>5. ASSUME NEW w \in Workers, Inserts(w) \/ Posts(w) \/ Seeks(w) PROVE OpenRequests'
  <2>1. /\ tx[w].step # "idle" /\ tx'[w].cmd = tx[w].cmd /\ UNCHANGED journal
        /\ \A v \in Workers \ {w} : tx'[v] = tx[v]
    BY <1>5, Advanced DEF Inserts, Posts, Seeks, Holds
  <2> QED
    BY <2>1 DEF OpenRequests
<1>6. ASSUME NEW w \in Workers, Commits(w) PROVE OpenRequests'
  <2>1. /\ tx'[w].step = "idle" /\ \A v \in Workers \ {w} : tx'[v] = tx[v]
    BY <1>6, Replaced, EmptyRecords DEF Commits
  <2>2. journal \subseteq journal'
    BY <1>6 DEF Commits, Persist
  <2> QED
    BY <2>1, <2>2, AskedMore DEF OpenRequests
<1> QED
  BY <1>1, <1>2, <1>3, <1>4, <1>5, <1>6 DEF EntryStep

\* A commit writes the entry that was asked for, on accounts it makes visible.
LEMMA CommittedEntry ==
    ASSUME TypeInv, OpenRequests, RowsMatch, NEW w \in Workers, Commits(w)
    PROVE  \E x \in EntryRow :
              /\ journal' = journal \cup {x}
              /\ x.id = tx[w].entry /\ CommandOf(x) = tx[w].cmd
              /\ Asked(CommandOf(x), journal)
              /\ \A i \in 1..Len(x.lines) : x.lines[i].account \in accounts'
<1> DEFINE x == [id |-> tx[w].entry, key |-> tx[w].cmd.key,
                 action |-> tx[w].cmd.action, lines |-> tx[w].rows]
<1>1. /\ tx[w] \in Transaction /\ tx[w].cmd \in Command /\ Holds(w)
      /\ Len(tx[w].rows) = Len(tx[w].cmd.lines)
      /\ accounts' = accounts \cup tx[w].opened
      /\ Asked(tx[w].cmd, journal)
  BY DEF Commits, Persist, Holds, TypeInv, TypeOK, OpenTransactions, OpenRequests
<1>2. journal' = journal \cup {x}
  BY DEF Commits, Persist
<1>3. /\ x.id = tx[w].entry /\ x.key = tx[w].cmd.key /\ x.action = tx[w].cmd.action
      /\ x.lines = tx[w].rows
  OBVIOUS
<1>4. x \in EntryRow
  BY <1>1 DEF Transaction, Command, EntryRow
<1> HIDE DEF x
<1>5. LinesOf(tx[w].rows) = tx[w].cmd.lines
  <2>1. tx[w].rows \in Seq(Posting) /\ tx[w].cmd.lines \in Seq(Line)
    BY <1>1 DEF Transaction, Command
  <2>2. DOMAIN tx[w].rows = 1..Len(tx[w].rows) /\ DOMAIN tx[w].cmd.lines = 1..Len(tx[w].rows)
    BY <1>1, <2>1
  <2>3. \A i \in DOMAIN tx[w].rows : LineOf(tx[w].rows[i]) = tx[w].cmd.lines[i]
    BY <1>1, <2>2 DEF RowsMatch
  <2>4. tx[w].cmd.lines = [i \in DOMAIN tx[w].cmd.lines |-> tx[w].cmd.lines[i]]
    BY <2>1
  <2> QED
    BY <2>2, <2>3, <2>4 DEF LinesOf
<1>6. CommandOf(x) = tx[w].cmd
  BY <1>1, <1>3, <1>5 DEF CommandOf, Command
<1>7. \A i \in 1..Len(x.lines) : x.lines[i].account \in accounts'
  BY <1>1, <1>3 DEF RowsMatch
<1> QED
  BY <1>1, <1>2, <1>3, <1>4, <1>6, <1>7

\* Every entry was asked for and is on accounts that exist.
LEMMA NextCommittedRequests ==
    TypeInv /\ OpenRequests /\ RowsMatch /\ CommittedRequests /\ EntryStep => CommittedRequests'
<1> SUFFICES ASSUME TypeInv, OpenRequests, RowsMatch, CommittedRequests, EntryStep
             PROVE  CommittedRequests'
  OBVIOUS
<1>1. ASSUME NEW w \in Workers, Commits(w) PROVE CommittedRequests'
  <2>1. PICK x \in EntryRow :
              /\ journal' = journal \cup {x}
              /\ Asked(CommandOf(x), journal)
              /\ \A i \in 1..Len(x.lines) : x.lines[i].account \in accounts'
    BY <1>1, CommittedEntry
  <2>2. journal \subseteq journal' /\ accounts \subseteq accounts'
    BY <1>1 DEF Commits, Persist
  <2>3. \A y \in journal : Asked(CommandOf(y), journal')
    BY <2>2, AskedMore DEF CommittedRequests
  <2>4. Asked(CommandOf(x), journal')
    BY <2>1, <2>2, AskedMore
  <2> QED
    BY <2>1, <2>2, <2>3, <2>4 DEF CommittedRequests
<1>2. CASE UNCHANGED <<accounts, journal>>
  BY <1>2 DEF CommittedRequests
<1> QED
  BY <1>1, <1>2 DEF EntryStep, Kept, Stops, Begins, Ends, Inserts, Posts, Seeks

-----------------------------------------------------------------------------
(***************************************************************************)
(* The loop over the lines of an event.  A listener thread has charged, or *)
(* found charged, every losing line before the one its loop has reached,   *)
(* and its open transaction charges that one.                              *)
(***************************************************************************)
SameLoop(c) ==
    /\ job'[c].event = job[c].event /\ job'[c].next = job[c].next
    /\ tx'[c].step # "idle" => tx[c].step # "idle" /\ tx'[c].cmd = tx[c].cmd

\* A step of one thread leaves the loops of the others alone.
LEMMA LoopFrame ==
    ASSUME LoopInv, journal \subseteq journal',
           \A e \in acked' : e \in acked \/ FullyCharged(e)',
           \A c \in Consumers : OnLine(c)' \/ SameLoop(c)
    PROVE  LoopInv'
<1>1. \A e, i : Charged(e, i, journal) => Charged(e, i, journal')
  BY DEF Charged
<1>2. \A e, n : ChargedUpTo(e, n, journal) => ChargedUpTo(e, n, journal')
  BY <1>1 DEF ChargedUpTo
<1>3. \A e \in acked' : FullyCharged(e)'
  BY <1>1 DEF LoopInv, FullyCharged
<1>4. \A c \in Consumers : SameLoop(c) => OnLine(c)'
  BY <1>2 DEF LoopInv, OnLine, SameLoop
<1> QED
  BY <1>3, <1>4 DEF LoopInv

\* A loop that moves to another line.
LEMMA LoopMoves ==
    ASSUME TypeInv, NEW c \in Consumers, NEW n, job' = [job EXCEPT ![c].next = n]
    PROVE  /\ job'[c].event = job[c].event /\ job'[c].next = n
           /\ \A d \in Consumers \ {c} : job'[d] = job[d]
<1>1. job \in [Consumers -> Delivery]
  BY DEF TypeInv, TypeOK
<1>2. \A d \in Delivery : [d EXCEPT !.next = n].event = d.event /\ [d EXCEPT !.next = n].next = n
  BY Zenon DEF Delivery
<1> DEFINE u == [job[c] EXCEPT !.next = n]
<1>3. job' = [job EXCEPT ![c] = u]
  OBVIOUS
<1>4. u.event = job[c].event /\ u.next = n
  BY <1>1, <1>2
<1> HIDE DEF u
<1> QED
  BY <1>1, <1>3, <1>4

\* Before its first line a loop has charged nothing, and need not have.
LEMMA NothingToCharge ==
    ASSUME NEW e \in Events, NEW entries PROVE ChargedUpTo(e, 1, entries)
<1>1. \A i \in DOMAIN Settlements[e] : i \in Nat \ {0}
  BY LedgerAssumption
<1> QED
  BY <1>1 DEF ChargedUpTo

\* A failed call starts its loop again or gives the delivery up.
LEMMA FailLoopInv ==
    ASSUME TypeInv, LoopInv, journal \subseteq journal', UNCHANGED acked,
           NEW w \in Workers, Fail(w)
    PROVE  LoopInv'
<1>1. tx'[w].step = "idle" /\ \A v \in Workers \ {w} : tx'[v] = tx[v]
  BY Replaced, EmptyRecords DEF Fail
<1>2. CASE w \in Admins /\ UNCHANGED <<job, dead>>
  BY <1>1, <1>2, LoopFrame DEF SameLoop, Workers
<1>3. CASE w \in Consumers /\ Retry(w)
  <2>1. /\ job'[w].event = job[w].event /\ job'[w].next = 1
        /\ \A d \in Consumers \ {w} : job'[d] = job[d]
    BY <1>3 DEF Retry, TypeInv, TypeOK
  <2>2. job[w].event \in Events \cup {NoEvent}
    BY <1>3 DEF TypeInv, TypeOK, Delivery
  <2>3. OnLine(w)'
    BY <1>1, <2>1, <2>2, NothingToCharge DEF OnLine
  <2> QED
    BY <1>1, <1>3, <2>1, <2>3, LoopFrame DEF SameLoop, Workers
<1>4. CASE w \in Consumers /\ DeadLetter(w)
  <2>1. job'[w].event = NoEvent /\ \A d \in Consumers \ {w} : job'[d] = job[d]
    BY <1>4 DEF DeadLetter, NoJob, TypeInv, TypeOK
  <2>2. OnLine(w)'
    BY <1>1, <2>1 DEF OnLine
  <2> QED
    BY <1>1, <1>4, <2>1, <2>2, LoopFrame DEF SameLoop, Workers
<1> QED
  BY <1>2, <1>3, <1>4 DEF Fail

\* The loop goes to the first losing line that is left, over those that are
\* charged already.
LEMMA SettleLoopInv ==
    ASSUME TypeInv, LoopInv, NEW c \in Consumers, SettleLosingPick(c)
    PROVE  LoopInv'
<1>1. /\ c \in Workers /\ UNCHANGED <<journal, acked>>
      /\ job[c].event \in Events /\ job[c].event # NoEvent /\ job[c].next \in Nat
      /\ tx[c].step = "idle"
  BY DEF SettleLosingPick, Workers, TypeInv, TypeOK, Delivery, db
<1> DEFINE e == job[c].event
<1>2. PICK i \in Remaining(c) :
        /\ \A j \in Remaining(c) : i <= j
        /\ \/ /\ KeyExists(Charge(e, i).key)
              /\ job' = [job EXCEPT ![c].next = i + 1]
              /\ UNCHANGED tx
           \/ /\ Begin(c, Charge(e, i))
              /\ job' = [job EXCEPT ![c].next = i]
           \/ Fail(c)
  BY DEF SettleLosingPick, Charge
<1>3. /\ i \in DOMAIN Settlements[e] /\ i \in Nat /\ Loses(e, i)
      /\ DOMAIN Settlements[e] \subseteq Nat
  BY <1>1, <1>2, LedgerAssumption DEF Remaining, Loses
<1>4. \A j \in DOMAIN Settlements[e] : Loses(e, j) /\ j < i => Charged(e, j, journal)
  <2> SUFFICES ASSUME NEW j \in DOMAIN Settlements[e], Loses(e, j), j < i
               PROVE  Charged(e, j, journal)
    OBVIOUS
  <2>1. j \notin Remaining(c)
    BY <1>2, <1>3
  <2>2. j < job[c].next
    BY <1>1, <1>3, <2>1 DEF Remaining, Loses
  <2> QED
    BY <1>1, <2>2 DEF LoopInv, OnLine, ChargedUpTo
<1>5. CASE /\ KeyExists(Charge(e, i).key)
           /\ job' = [job EXCEPT ![c].next = i + 1]
           /\ UNCHANGED tx
  <2>1. Charged(e, i, journal)
    BY <1>5 DEF Charged, KeyExists
  <2>2. ChargedUpTo(e, i + 1, journal)
    BY <1>3, <1>4, <2>1 DEF ChargedUpTo
  <2>3. /\ job'[c].event = e /\ job'[c].next = i + 1
        /\ \A d \in Consumers \ {c} : job'[d] = job[d]
    BY <1>5, LoopMoves
  <2>4. OnLine(c)'
    BY <1>1, <1>5, <2>2, <2>3 DEF OnLine
  <2> QED
    BY <1>1, <1>5, <2>3, <2>4, LoopFrame DEF SameLoop
<1>6. CASE /\ Begin(c, Charge(e, i))
           /\ job' = [job EXCEPT ![c].next = i]
  <2>1. /\ job'[c].event = e /\ job'[c].next = i
        /\ \A d \in Consumers \ {c} : job'[d] = job[d]
    BY <1>6, LoopMoves
  <2>2. tx'[c].cmd = Charge(e, i) /\ \A v \in Workers \ {c} : tx'[v] = tx[v]
    BY <1>1, <1>6 DEF Begin, TypeInv, TypeOK
  <2>3. ChargedUpTo(e, i, journal')
    BY <1>1, <1>4 DEF ChargedUpTo
  <2>4. OnLine(c)'
    BY <1>1, <1>3, <2>1, <2>2, <2>3 DEF OnLine
  <2> QED
    BY <1>1, <2>1, <2>2, <2>4, LoopFrame DEF SameLoop, Workers
<1>7. CASE Fail(c)
  BY <1>1, <1>7, FailLoopInv
<1> QED
  BY <1>2, <1>5, <1>6, <1>7

\* Once a line is committed, the loop is past it.
LEMMA CommitLoopInv ==
    ASSUME TypeInv, LoopInv, NEW w \in Workers, Commit(w)
    PROVE  LoopInv'
<1>1. /\ tx'[w].step = "idle" /\ \A v \in Workers \ {w} : tx'[v] = tx[v]
      /\ UNCHANGED acked /\ tx[w].step = "lines"
  BY Replaced, EmptyRecords DEF Commit, Persist, broker
<1>2. /\ journal \subseteq journal' /\ \E x \in journal' : x.key = tx[w].cmd.key
  <2> DEFINE x == [id |-> tx[w].entry, key |-> tx[w].cmd.key,
                   action |-> tx[w].cmd.action, lines |-> tx[w].rows]
  <2>1. journal' = journal \cup {x} /\ x.key = tx[w].cmd.key
    BY DEF Commit, Persist
  <2> HIDE DEF x
  <2> QED
    BY <2>1
<1>3. CASE w \in Consumers
  <2> DEFINE e == job[w].event
             n == job[w].next
  <2>1. /\ job'[w].event = e /\ job'[w].next = n + 1
        /\ \A d \in Consumers \ {w} : job'[d] = job[d]
    BY <1>3, LoopMoves DEF Commit
  <2>2. /\ e # NoEvent /\ tx[w].cmd = Charge(e, n) /\ ChargedUpTo(e, n, journal)
    BY <1>1, <1>3 DEF LoopInv, OnLine
  <2>3. e \in Events /\ n \in Nat
    BY <1>3, <2>2 DEF TypeInv, TypeOK, Delivery
  <2>4. DOMAIN Settlements[e] \subseteq Nat
    BY <2>3, LedgerAssumption
  <2>5. ChargedUpTo(e, n + 1, journal')
    BY <1>2, <2>2, <2>3, <2>4 DEF ChargedUpTo, Charged
  <2>6. OnLine(w)'
    BY <1>1, <2>1, <2>5 DEF OnLine
  <2> QED
    BY <1>1, <1>2, <2>1, <2>6, LoopFrame DEF SameLoop, Workers
<1>4. CASE w \notin Consumers
  <2>1. UNCHANGED job
    BY <1>4 DEF Commit
  <2> QED
    BY <1>1, <1>2, <1>4, <2>1, LoopFrame DEF SameLoop, Workers
<1> QED
  BY <1>3, <1>4

\* Every step keeps each loop and its transaction together.
LEMMA NextLoopInv == TypeInv /\ LoopInv /\ [Next]_vars => LoopInv'
<1> SUFFICES ASSUME TypeInv, LoopInv, [Next]_vars PROVE LoopInv'
  OBVIOUS
<1> USE DEF db, broker
<1>0. CASE UNCHANGED <<journal, acked, job, tx>>
  BY <1>0, LoopFrame DEF SameLoop
<1>1. ASSUME NEW c \in Consumers, SettleLosingPick(c) PROVE LoopInv'
  BY <1>1, SettleLoopInv
<1>2. ASSUME NEW a \in Admins, NEW cmd, Begin(a, cmd), UNCHANGED <<journal, acked, job>>
      PROVE  LoopInv'
  <2>1. \A c \in Consumers : tx'[c] = tx[c]
    BY <1>2, LedgerAssumption DEF Begin, TypeInv, TypeOK, Workers
  <2> QED
    BY <1>2, <2>1, LoopFrame DEF SameLoop
<1>3. ASSUME NEW a \in Admins, NEW m \in ManualCommands, PostManualEntry(a, m) PROVE LoopInv'
  BY <1>2, <1>3 DEF PostManualEntry
<1>4. ASSUME NEW a \in Admins, NEW x \in journal, Reverse(a, x) PROVE LoopInv'
  BY <1>2, <1>4 DEF Reverse
<1>5. ASSUME NEW w \in Workers, NEW step, NEW entry, NEW rows, NEW opened,
             tx[w].step # "idle", Advance(w, step, entry, rows, opened),
             UNCHANGED <<journal, acked, job>>
      PROVE  LoopInv'
  <2>1. \A v \in Workers : tx'[v].step # "idle" => tx[v].step # "idle" /\ tx'[v].cmd = tx[v].cmd
    BY <1>5, Advanced
  <2> QED
    BY <1>5, <2>1, LoopFrame DEF SameLoop, Workers
<1>6. ASSUME NEW w \in Workers, InsertEntry(w) PROVE LoopInv'
  <2>1. Fail(w) \/ (Advance(w, "lines", nextEntry, <<>>, {}) /\ UNCHANGED job)
    BY <1>6 DEF InsertEntry
  <2>2. UNCHANGED <<journal, acked>> /\ tx[w].step # "idle"
    BY <1>6 DEF InsertEntry
  <2> QED
    BY <1>5, <2>1, <2>2, FailLoopInv
<1>7. ASSUME NEW w \in Workers, PostLine(w) PROVE LoopInv'
  <2>1. UNCHANGED <<journal, acked, job>> /\ tx[w].step # "idle"
    BY <1>7 DEF PostLine
  <2>2. \E step, entry, rows, opened : Advance(w, step, entry, rows, opened)
    BY <1>7 DEF PostLine
  <2> QED
    BY <1>5, <2>1, <2>2
<1>8. ASSUME NEW w \in Workers, OpenAccount(w) PROVE LoopInv'
  <2>1. UNCHANGED <<journal, acked>> /\ tx[w].step # "idle"
    BY <1>8 DEF OpenAccount
  <2>2. \/ Fail(w)
        \/ UNCHANGED job /\ \E step, entry, rows, opened : Advance(w, step, entry, rows, opened)
    BY <1>8 DEF OpenAccount
  <2> QED
    BY <1>5, <2>1, <2>2, FailLoopInv
<1>9. ASSUME NEW w \in Workers, Commit(w) PROVE LoopInv'
  BY <1>9, CommitLoopInv
<1>10. ASSUME NEW w \in Workers, DeadlockVictim(w) \/ StatementFails(w) PROVE LoopInv'
  BY <1>10, FailLoopInv DEF DeadlockVictim, StatementFails
<1>11. ASSUME NEW w \in Workers, CommitAnswerLost(w) PROVE LoopInv'
  BY <1>11, FailLoopInv DEF CommitAnswerLost, Persist
<1>12. CASE Restart
  <2>1. /\ \A c \in Consumers : tx'[c].step = "idle" /\ job'[c].event = NoEvent
        /\ UNCHANGED <<journal, acked>>
    BY <1>12, EmptyRecords DEF Restart, NoJob, Workers
  <2> QED
    BY <2>1, LoopFrame DEF OnLine
<1>13. ASSUME NEW e \in Events, Publish(e) PROVE LoopInv'
  BY <1>0, <1>13 DEF Publish
<1>14. ASSUME NEW c \in Consumers, NEW e \in Events, Deliver(c, e) PROVE LoopInv'
  <2>1. tx[c].step = "idle"
    BY <1>14 DEF Deliver, NoJob, LoopInv, OnLine
  <2>2. /\ job'[c].event = e /\ job'[c].next = 1
        /\ \A d \in Consumers \ {c} : job'[d] = job[d]
        /\ UNCHANGED <<journal, acked, tx>>
    BY <1>14 DEF Deliver, TypeInv, TypeOK
  <2>3. OnLine(c)'
    BY <2>1, <2>2, NothingToCharge DEF OnLine
  <2> QED
    BY <2>2, <2>3, LoopFrame DEF SameLoop
<1>15. ASSUME NEW c \in Consumers, Ack(c) PROVE LoopInv'
  <2>1. /\ job[c].event \in Events /\ job[c].next \in Nat /\ Remaining(c) = {}
        /\ job[c].event # NoEvent /\ tx[c].step = "idle"
    BY <1>15 DEF Ack, TypeInv, TypeOK, Delivery
  <2>2. DOMAIN Settlements[job[c].event] \subseteq Nat
    BY <2>1, LedgerAssumption
  <2>3. FullyCharged(job[c].event)
    BY <2>1, <2>2 DEF FullyCharged, Remaining, Loses, LoopInv, OnLine, ChargedUpTo
  <2>4. /\ UNCHANGED <<journal, tx>> /\ acked' \subseteq acked \cup {job[c].event}
        /\ job'[c].event = NoEvent /\ \A d \in Consumers \ {c} : job'[d] = job[d]
    BY <1>15 DEF Ack, NoJob, TypeInv, TypeOK
  <2>5. \A e \in acked' : e \in acked \/ FullyCharged(e)'
    BY <2>3, <2>4 DEF FullyCharged
  <2> QED
    BY <2>1, <2>4, <2>5, LoopFrame DEF SameLoop, OnLine
<1>16. ASSUME NEW c \in Consumers, ConnectionLost(c) PROVE LoopInv'
  <2>1. \A d \in Delivery : /\ [d EXCEPT !.live = FALSE].event = d.event
                            /\ [d EXCEPT !.live = FALSE].next = d.next
    BY Zenon DEF Delivery
  <2> DEFINE u == [job[c] EXCEPT !.live = FALSE]
  <2>2. /\ UNCHANGED <<journal, acked, tx>> /\ job' = [job EXCEPT ![c] = u]
        /\ u.event = job[c].event /\ u.next = job[c].next
    BY <1>16, <2>1 DEF ConnectionLost, TypeInv, TypeOK
  <2> HIDE DEF u
  <2>3. \A d \in Consumers : job'[d].event = job[d].event /\ job'[d].next = job[d].next
    BY <2>2 DEF TypeInv, TypeOK
  <2> QED
    BY <2>2, <2>3, LoopFrame DEF SameLoop
<1>17. CASE UNCHANGED vars
  BY <1>0, <1>17 DEF vars
<1> QED
  BY <1>1, <1>3, <1>4, <1>6, <1>7, <1>8, <1>9, <1>10, <1>11, <1>12, <1>13, <1>14, <1>15,
     <1>16, <1>17 DEF Next, ListenerStep, WorkerStep

-----------------------------------------------------------------------------
(***************************************************************************)
(* The theorems.                                                           *)
(***************************************************************************)
RequestsInv == EntryIds /\ OpenRequests /\ RowsMatch /\ CommittedRequests

\* At the start nothing is written, open or delivered.
LEMMA InitRequestsInv == Init => RequestsInv /\ LoopInv
<1> SUFFICES ASSUME Init PROVE RequestsInv /\ LoopInv
  OBVIOUS
<1>1. /\ journal = {} /\ acked = {}
      /\ \A w \in Workers : tx[w].step = "idle"
      /\ \A c \in Consumers : tx[c].step = "idle" /\ job[c].event = NoEvent
  BY EmptyRecords DEF Init, NoJob, Workers
<1>2. RequestsInv
  BY <1>1 DEF RequestsInv, EntryIds, OpenRequests, RowsMatch, CommittedRequests, Holds
<1>3. LoopInv
  BY <1>1 DEF LoopInv, OnLine
<1> QED
  BY <1>2, <1>3

\* Every step keeps entries, requests and ids together.
LEMMA NextRequestsInv == TypeInv /\ RequestsInv /\ [Next]_vars => RequestsInv'
  BY NextTypeInv, NextEntryStep, NextEntryIds, NextOpenRequests, NextRowsMatch,
     NextCommittedRequests DEF RequestsInv

\* Where the journal comes from: in every reachable state, each entry is, posting
\* by posting, a charge an event asks for, a manual entry as it was submitted or
\* the flip of another entry, on accounts that exist, under an id of its own.
THEOREM EntriesAsAsked == Spec => [](CommittedRequests /\ EntryIds)
<1>1. RequestsInv => CommittedRequests /\ EntryIds
  BY DEF RequestsInv
<1> QED
  BY <1>1, InitTypeInv, NextTypeInv, InitRequestsInv, NextRequestsInv, PTL DEF Spec

\* The original of a reversal is the entry its key names.
LEMMA ReversalOf ==
    ASSUME TypeInv, RequestsInv, NEW x \in journal, NEW y \in journal,
           y.action = "REVERSE", y.key = <<"reverse", x.id>>
    PROVE  LinesOf(y.lines) = ReverseCommand(x).lines
<1>1. Asked(CommandOf(y), journal) /\ CommandOf(y).action = "REVERSE"
  BY DEF RequestsInv, CommittedRequests, CommandOf
<1>2. \A e, i : Charge(e, i).action = "SETTLE_PICK"
  BY DEF Charge, SettleCommand
<1>3. \A m \in ManualCommands : m.action = "MANUAL_ENTRY"
  BY LedgerAssumption
<1>4. PICK z \in journal : CommandOf(y) = ReverseCommand(z)
  BY <1>1, <1>2, <1>3 DEF Asked
<1>5. z.id = x.id
  BY <1>4 DEF CommandOf, ReverseCommand
<1>6. z = x
  BY <1>5 DEF RequestsInv, EntryIds
<1> QED
  BY <1>4, <1>6 DEF CommandOf

\* A reversal takes back every posting of its original, on the very account row
\* it was made on, whatever was opened, raced or restarted between the two.
THEOREM ReversalsTakeBack == Spec => []ReversalsCancel
<1>1. ASSUME TypeInv, RequestsInv, AccountsInv PROVE ReversalsCancel
  <2> SUFFICES ASSUME NEW x \in journal, NEW y \in journal,
                      y.action = "REVERSE", y.key = <<"reverse", x.id>>
               PROVE  /\ Len(y.lines) = Len(x.lines)
                      /\ \A i \in DOMAIN x.lines :
                            /\ y.lines[i].account = x.lines[i].account
                            /\ Signed(y.lines[i]) = -Signed(x.lines[i])
    BY <1>1 DEF ReversalsCancel
  <2>1. x.lines \in Seq(Posting) /\ y.lines \in Seq(Posting)
    BY <1>1 DEF TypeInv, TypeOK, EntryRow
  <2>2. LinesOf(y.lines) = [i \in 1..Len(x.lines) |-> Flip(x.lines[i])]
    BY <1>1, ReversalOf DEF ReverseCommand
  <2>3. DOMAIN y.lines = 1..Len(x.lines)
    BY <2>2 DEF LinesOf
  <2>4. Len(y.lines) = Len(x.lines)
    BY <2>1, <2>3
  <2>5. ASSUME NEW i \in 1..Len(x.lines)
        PROVE  /\ y.lines[i].account = x.lines[i].account
               /\ Signed(y.lines[i]) = -Signed(x.lines[i])
    <3>1. x.lines[i] \in Posting /\ y.lines[i] \in Posting
      BY <2>1, <2>4
    <3>2. LineOf(y.lines[i]) = Flip(x.lines[i])
      BY <2>2, <2>3 DEF LinesOf
    <3>3. /\ y.lines[i].account.owner = x.lines[i].account.owner
          /\ y.lines[i].amount = x.lines[i].amount
          /\ y.lines[i].direction = FlipDirection(x.lines[i].direction)
      BY <3>2 DEF LineOf, Flip
    <3>4. y.lines[i].account \in accounts /\ x.lines[i].account \in accounts
      BY <1>1, <2>4 DEF RequestsInv, CommittedRequests
    <3>5. y.lines[i].account = x.lines[i].account
      BY <1>1, <3>3, <3>4 DEF AccountsInv, OneAccountPerOwner
    <3>6. Signed(y.lines[i]) = -Signed(x.lines[i])
      BY <3>1, <3>3 DEF Signed, FlipDirection, Posting, Directions
    <3> QED
      BY <3>5, <3>6
  <2> QED
    BY <2>1, <2>4, <2>5
<1> QED
  BY <1>1, InitTypeInv, NextTypeInv, InitRequestsInv, NextRequestsInv, InitAccountsInv,
     NextAccountsInv, PTL DEF Spec

\* An event that is off the queue has charged each of its losers for the stake
\* it names, or found a manual entry in the charge's place: no redelivery, retry,
\* crash or orphaned thread lets a line slip between check, commit and
\* acknowledgement.
THEOREM AcknowledgedMeansCharged == Spec => []AckedFullySettled
<1>1. ASSUME TypeInv, RequestsInv, LoopInv PROVE AckedFullySettled
  <2> SUFFICES ASSUME NEW e \in acked, NEW i \in DOMAIN Settlements[e],
                      Settlements[e][i].result = "LOST"
               PROVE  \E x \in journal :
                         /\ x.key = Charge(e, i).key
                         /\ x.action = "MANUAL_ENTRY" \/ LinesOf(x.lines) = Charge(e, i).lines
    BY DEF AckedFullySettled, Charge
  <2>1. e \in Events
    BY <1>1 DEF TypeInv, TypeOK
  <2>2. PICK x \in journal : x.key = Charge(e, i).key
    BY <1>1 DEF LoopInv, FullyCharged, Charged, Loses
  <2>3. Asked(CommandOf(x), journal)
    BY <1>1 DEF RequestsInv, CommittedRequests
  <2>4. CASE \E f \in Events : \E j \in DOMAIN Settlements[f] : CommandOf(x) = Charge(f, j)
    <3>1. PICK f \in Events : \E j \in DOMAIN Settlements[f] : CommandOf(x) = Charge(f, j)
      BY <2>4
    <3>2. PICK j \in DOMAIN Settlements[f] : CommandOf(x) = Charge(f, j)
      BY <3>1
    <3>3. f = e /\ Settlements[f][j].user = Settlements[e][i].user
      BY <2>2, <3>2 DEF CommandOf, Charge, SettleCommand
    <3>4. j = i
      BY <2>1, <3>3, OneLinePerUser
    <3> QED
      BY <2>2, <3>2, <3>3, <3>4 DEF CommandOf
  <2>5. CASE CommandOf(x) \in ManualCommands
    BY <2>2, <2>5, LedgerAssumption DEF CommandOf
  <2>6. CASE \E z \in journal : CommandOf(x) = ReverseCommand(z)
    <3>1. PICK z \in journal : CommandOf(x) = ReverseCommand(z)
      BY <2>6
    <3>2. <<"reverse", z.id>> = <<"settle", e, Settlements[e][i].user>>
      BY <2>2, <3>1 DEF CommandOf, ReverseCommand, Charge, SettleCommand
    <3> QED
      BY <3>2
  <2> QED
    BY <2>3, <2>4, <2>5, <2>6 DEF Asked
<1> QED
  BY <1>1, InitTypeInv, NextTypeInv, InitRequestsInv, NextRequestsInv, NextLoopInv,
     PTL DEF Spec

-----------------------------------------------------------------------------
(***************************************************************************)
(* Nothing is charged out of the blue: a charge is for an event that was   *)
(* published, through the copies in the queue, the deliveries, what is     *)
(* requeued, and the transactions of orphaned threads.                     *)
(***************************************************************************)
ChargesWerePublished ==
    \A x \in journal : x.action = "SETTLE_PICK" => sent[x.key[2]] > 0

DeliveredInv ==
    /\ \A e \in Events : ready[e] > 0 => sent[e] > 0
    /\ \A c \in Consumers : job[c].event # NoEvent => sent[job[c].event] > 0
    /\ \A a \in Admins : tx[a].step # "idle" => tx[a].cmd.action # "SETTLE_PICK"
    /\ ChargesWerePublished

\* A step that publishes and commits nothing: a delivery goes on or ends, an
\* administrator's transaction too.
LEMMA DeliveredFrame ==
    ASSUME TypeInv, DeliveredInv, UNCHANGED <<sent, ready, journal>>,
           \A c \in Consumers : job'[c].event \in {job[c].event, NoEvent},
           \A a \in Admins :
              tx'[a].step # "idle" => tx[a].step # "idle" /\ tx'[a].cmd = tx[a].cmd
    PROVE  DeliveredInv'
  BY DEF DeliveredInv, ChargesWerePublished

LEMMA FailDelivered ==
    ASSUME TypeInv, DeliveredInv, NEW w \in Workers, Fail(w), UNCHANGED <<sent, ready>>
    PROVE  /\ \A c \in Consumers : job'[c].event \in {job[c].event, NoEvent}
           /\ \A a \in Workers :
                 tx'[a].step # "idle" => tx[a].step # "idle" /\ tx'[a].cmd = tx[a].cmd
<1>1. \A a \in Workers :
         tx'[a].step # "idle" => tx[a].step # "idle" /\ tx'[a].cmd = tx[a].cmd
  BY EmptyRecords DEF Fail, TypeInv, TypeOK
<1>2. \A c \in Consumers : job'[c].event \in {job[c].event, NoEvent}
  BY DEF Fail, Retry, DeadLetter, NoJob, TypeInv, TypeOK
<1> QED
  BY <1>1, <1>2

\* The committed entry answers the command of the transaction.
LEMMA PersistDelivered ==
    ASSUME TypeInv, DeliveredInv, LoopInv, NEW w \in Workers, Persist(w), UNCHANGED sent
    PROVE  ChargesWerePublished'
<1> DEFINE new == [id |-> tx[w].entry, key |-> tx[w].cmd.key,
                   action |-> tx[w].cmd.action, lines |-> tx[w].rows]
<1>1. /\ journal' = journal \cup {new} /\ tx[w].step = "lines"
      /\ new.key = tx[w].cmd.key /\ new.action = tx[w].cmd.action
  BY DEF Persist
<1> HIDE DEF new
<1>2. ASSUME new.action = "SETTLE_PICK" PROVE sent[new.key[2]] > 0
  <2>1. w \in Consumers
    BY <1>1, <1>2 DEF DeliveredInv, Workers
  <2>2. tx[w].cmd = Charge(job[w].event, job[w].next) /\ job[w].event # NoEvent
    BY <1>1, <2>1 DEF LoopInv, OnLine
  <2>3. new.key[2] = job[w].event
    BY <1>1, <2>2 DEF Charge, SettleCommand
  <2> QED
    BY <2>1, <2>2, <2>3 DEF DeliveredInv
<1> QED
  BY <1>1, <1>2 DEF DeliveredInv, ChargesWerePublished

LEMMA NextDeliveredInv ==
    TypeInv /\ DeliveredInv /\ LoopInv /\ [Next]_vars => DeliveredInv'
<1> SUFFICES ASSUME TypeInv, DeliveredInv, LoopInv, [Next]_vars PROVE DeliveredInv'
  OBVIOUS
<1> USE DEF db, broker, sequences
<1>0. CASE UNCHANGED vars
  BY <1>0 DEF vars, DeliveredInv, ChargesWerePublished
<1>1. ASSUME NEW e \in Events, Publish(e) PROVE DeliveredInv'
  <2>1. \A k \in Events : sent[k] > 0 => sent'[k] > 0
    BY <1>1 DEF Publish, TypeInv, TypeOK
  <2>2. \A k \in Events : ready'[k] > 0 => sent'[k] > 0
    BY <1>1 DEF Publish, TypeInv, TypeOK, DeliveredInv
  <2>3. \A c \in Consumers : job[c].event # NoEvent => sent'[job[c].event] > 0
    BY <2>1 DEF TypeInv, TypeOK, Delivery, DeliveredInv
  <2>4. \A x \in journal : x.action = "SETTLE_PICK" => sent'[x.key[2]] > 0
    <3> SUFFICES ASSUME NEW x \in journal, x.action = "SETTLE_PICK"
                 PROVE  sent'[x.key[2]] > 0
      OBVIOUS
    <3>1. sent[x.key[2]] > 0
      BY DEF DeliveredInv, ChargesWerePublished
    <3>2. sent'[x.key[2]] = sent[x.key[2]] \/ x.key[2] = e
      BY <1>1 DEF Publish, TypeInv, TypeOK
    <3> QED
      BY <2>1, <3>1, <3>2
  <2> QED
    BY <1>1, <2>2, <2>3, <2>4 DEF Publish, DeliveredInv, ChargesWerePublished
<1>2. ASSUME NEW c \in Consumers, NEW e \in Events, Deliver(c, e) PROVE DeliveredInv'
  <2>1. /\ \A k \in Events : ready'[k] > 0 => ready[k] > 0
        /\ \A d \in Consumers : job'[d] = job[d] \/ job'[d].event = e
        /\ ready[e] > 0 /\ UNCHANGED <<sent, journal, tx>>
    BY <1>2 DEF Deliver, TypeInv, TypeOK
  <2> QED
    BY <2>1 DEF DeliveredInv, ChargesWerePublished
<1>3. ASSUME NEW c \in Consumers, SettleLosingPick(c) PROVE DeliveredInv'
  <2>1. c \in Workers /\ UNCHANGED <<sent, ready, journal>>
    BY <1>3 DEF SettleLosingPick, Workers
  <2>2. CASE Fail(c)
    BY <2>1, <2>2, FailDelivered, DeliveredFrame DEF Workers
  <2>3. CASE ~Fail(c)
    <3>1. PICK i \in Remaining(c) : job' \in {[job EXCEPT ![c].next = i], [job EXCEPT ![c].next = i + 1]}
      BY <1>3, <2>3 DEF SettleLosingPick
    <3>2. \A d \in Consumers : job'[d].event = job[d].event
      BY <3>1, LoopMoves
    <3>3. \A a \in Admins : tx'[a] = tx[a]
      BY <1>3, <2>3, LedgerAssumption DEF SettleLosingPick, Begin, TypeInv, TypeOK, Workers
    <3> QED
      BY <2>1, <3>2, <3>3, DeliveredFrame
  <2> QED
    BY <2>2, <2>3
<1>4. ASSUME NEW c \in Consumers, Ack(c) PROVE DeliveredInv'
  <2>1. \A d \in Consumers : job'[d].event \in {job[d].event, NoEvent}
    BY <1>4 DEF Ack, NoJob, TypeInv, TypeOK
  <2> QED
    BY <1>4, <2>1, DeliveredFrame DEF Ack
<1>5. ASSUME NEW c \in Consumers, ConnectionLost(c) PROVE DeliveredInv'
  <2>1. \A d \in Delivery : [d EXCEPT !.live = FALSE].event = d.event
    BY Zenon DEF Delivery
  <2> DEFINE u == [job[c] EXCEPT !.live = FALSE]
  <2>2. job' = [job EXCEPT ![c] = u] /\ u.event = job[c].event
    BY <1>5, <2>1 DEF ConnectionLost, TypeInv, TypeOK
  <2> HIDE DEF u
  <2>3. \A d \in Consumers : job'[d].event = job[d].event
    BY <2>2 DEF TypeInv, TypeOK
  <2>4. \A k \in Events : ready'[k] > 0 => ready[k] > 0 \/ k = job[c].event
    BY <1>5 DEF ConnectionLost, TypeInv, TypeOK
  <2>5. NoEvent \notin Events
    BY LedgerAssumption
  <2> QED
    BY <1>5, <2>3, <2>4, <2>5 DEF ConnectionLost, DeliveredInv, ChargesWerePublished
<1>6. ASSUME NEW a \in Admins, NEW cmd, cmd.action # "SETTLE_PICK", Begin(a, cmd),
             UNCHANGED <<sent, ready, journal, job>>
      PROVE  DeliveredInv'
  <2>1. \A b \in Admins : tx'[b] = tx[b] \/ tx'[b].cmd = cmd
    BY <1>6 DEF Begin, TypeInv, TypeOK, Workers
  <2> QED
    BY <1>6, <2>1 DEF DeliveredInv, ChargesWerePublished
<1>7. ASSUME NEW a \in Admins, NEW m \in ManualCommands, PostManualEntry(a, m)
      PROVE  DeliveredInv'
  <2>1. m.action = "MANUAL_ENTRY"
    BY LedgerAssumption
  <2> QED
    BY <1>6, <1>7, <2>1 DEF PostManualEntry
<1>8. ASSUME NEW a \in Admins, NEW x \in journal, Reverse(a, x) PROVE DeliveredInv'
  <2>1. ReverseCommand(x).action = "REVERSE"
    BY DEF ReverseCommand
  <2> QED
    BY <1>6, <1>8, <2>1 DEF Reverse
<1>9. ASSUME NEW w \in Workers, NEW step, NEW entry, NEW rows, NEW opened,
             tx[w].step # "idle", Advance(w, step, entry, rows, opened),
             UNCHANGED <<sent, ready, journal, job>>
      PROVE  DeliveredInv'
  <2>1. \A v \in Workers : tx'[v].step # "idle" => tx[v].step # "idle" /\ tx'[v].cmd = tx[v].cmd
    BY <1>9, Advanced
  <2> QED
    BY <1>9, <2>1, DeliveredFrame DEF Workers
<1>10. ASSUME NEW w \in Workers, Fail(w), UNCHANGED <<sent, ready, journal>>
       PROVE  DeliveredInv'
  BY <1>10, FailDelivered, DeliveredFrame DEF Workers
<1>11. ASSUME NEW w \in Workers, InsertEntry(w) PROVE DeliveredInv'
  <2>1. Fail(w) \/ (Advance(w, "lines", nextEntry, <<>>, {}) /\ UNCHANGED job)
    BY <1>11 DEF InsertEntry
  <2>2. UNCHANGED <<sent, ready, journal>> /\ tx[w].step # "idle"
    BY <1>11 DEF InsertEntry
  <2> QED
    BY <1>9, <1>10, <2>1, <2>2
<1>12. ASSUME NEW w \in Workers, PostLine(w) PROVE DeliveredInv'
  <2>1. UNCHANGED <<sent, ready, journal, job>> /\ tx[w].step # "idle"
    BY <1>12 DEF PostLine
  <2>2. \E step, entry, rows, opened : Advance(w, step, entry, rows, opened)
    BY <1>12 DEF PostLine
  <2> QED
    BY <1>9, <2>1, <2>2
<1>13. ASSUME NEW w \in Workers, OpenAccount(w) PROVE DeliveredInv'
  <2>1. UNCHANGED <<sent, ready, journal>> /\ tx[w].step # "idle"
    BY <1>13 DEF OpenAccount
  <2>2. \/ Fail(w)
        \/ UNCHANGED job /\ \E step, entry, rows, opened : Advance(w, step, entry, rows, opened)
    BY <1>13 DEF OpenAccount
  <2> QED
    BY <1>9, <1>10, <2>1, <2>2
<1>14. ASSUME NEW w \in Workers, Commit(w) PROVE DeliveredInv'
  <2>1. ChargesWerePublished'
    BY <1>14, PersistDelivered DEF Commit
  <2>2. \A a \in Admins : tx'[a].step # "idle" => tx'[a] = tx[a]
    BY <1>14, EmptyRecords DEF Commit, TypeInv, TypeOK, Workers
  <2>3. \A c \in Consumers : job'[c].event = job[c].event
    <3>1. CASE w \in Consumers
      BY <1>14, <3>1, LoopMoves DEF Commit
    <3>2. CASE w \notin Consumers
      BY <1>14, <3>2 DEF Commit
    <3> QED
      BY <3>1, <3>2
  <2> QED
    BY <1>14, <2>1, <2>2, <2>3 DEF Commit, DeliveredInv
<1>15. ASSUME NEW w \in Workers, DeadlockVictim(w) \/ StatementFails(w) PROVE DeliveredInv'
  BY <1>10, <1>15 DEF DeadlockVictim, StatementFails
<1>16. ASSUME NEW w \in Workers, CommitAnswerLost(w) PROVE DeliveredInv'
  <2>1. ChargesWerePublished'
    BY <1>16, PersistDelivered DEF CommitAnswerLost
  <2> QED
    BY <1>16, <2>1, FailDelivered DEF CommitAnswerLost, DeliveredInv, Workers
<1>17. CASE Restart
  <2>1. /\ \A a \in Admins : tx'[a].step = "idle"
        /\ \A c \in Consumers : job'[c].event = NoEvent
        /\ UNCHANGED <<sent, journal>>
    BY <1>17, EmptyRecords DEF Restart, NoJob, Workers
  <2>2. ASSUME NEW e \in Events, ready'[e] > 0 PROVE sent[e] > 0
    <3>1. PICK held : held = {c \in Consumers : job[c].live /\ job[c].event = e}
      OBVIOUS
    <3>2. ready'[e] = ready[e] + Cardinality(held)
      BY <1>17, <3>1 DEF Restart
    <3>3. CASE held = {}
      BY <2>2, <3>2, <3>3, FS_EmptySet DEF DeliveredInv, TypeInv, TypeOK
    <3>4. CASE held # {}
      BY <3>1, <3>4, LedgerAssumption DEF DeliveredInv
    <3> QED
      BY <3>3, <3>4
  <2> QED
    BY <2>1, <2>2 DEF DeliveredInv, ChargesWerePublished
<1> QED
  BY <1>0, <1>1, <1>2, <1>3, <1>4, <1>5, <1>7, <1>8, <1>11, <1>12, <1>13, <1>14, <1>15,
     <1>16, <1>17 DEF Next, ListenerStep, WorkerStep

\* Every charge in the journal is for an event that Fixture's outbox published.
THEOREM OnlyPublishedIsCharged == Spec => []ChargesWerePublished
<1>1. Init => DeliveredInv
  BY EmptyRecords DEF Init, NoJob, Workers, DeliveredInv, ChargesWerePublished
<1>2. DeliveredInv => ChargesWerePublished
  BY DEF DeliveredInv
<1> QED
  BY <1>1, <1>2, InitTypeInv, NextTypeInv, InitRequestsInv, NextRequestsInv, NextLoopInv,
     NextDeliveredInv, PTL DEF Spec

\* Without administrators the journal holds charges and nothing else.
LEMMA OnlyCharges ==
    ASSUME Admins = {}
    PROVE  Spec => [](\A x \in journal : x.action = "SETTLE_PICK")
<1> DEFINE Charges == \A x \in journal : x.action = "SETTLE_PICK"
<1>1. Init => Charges
  BY DEF Init
<1>2. ASSUME TypeInv, LoopInv, Charges, [Next]_vars PROVE Charges'
  <2>1. ASSUME NEW w \in Workers, Commits(w) PROVE Charges'
    <3>1. w \in Consumers /\ tx[w].step # "idle"
      BY <2>1 DEF Workers, Commits, Persist
    <3>2. tx[w].cmd.action = "SETTLE_PICK"
      <4>1. tx[w].cmd = Charge(job[w].event, job[w].next)
        BY <1>2, <3>1 DEF LoopInv, OnLine
      <4> QED
        BY <4>1 DEF Charge, SettleCommand
    <3> QED
      BY <1>2, <2>1, <3>2 DEF Commits, Persist
  <2>2. ASSUME ~\E w \in Workers : Commits(w) PROVE Charges'
    BY <1>2, <2>2, NextEntryStep DEF EntryStep, Kept, Stops, Begins, Ends, Inserts, Posts, Seeks
  <2> QED
    BY <2>1, <2>2
<1> QED
  BY <1>1, <1>2, InitTypeInv, NextTypeInv, InitRequestsInv, NextLoopInv, PTL DEF Spec

=============================================================================
