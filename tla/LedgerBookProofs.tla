--------------------------- MODULE LedgerBookProofs ---------------------------
(***************************************************************************)
(* The journal as a whole: the service implements the atomic ledger, every *)
(* entry has passed the validation, the books balance and a player owes    *)
(* the stakes the events say, for all users, events, settlement lines,     *)
(* manual entries, threads and bounds.                                     *)
(***************************************************************************)
EXTENDS LedgerJournalProofs, Sums

-----------------------------------------------------------------------------
(***************************************************************************)
(* The refinement.  The book is the journal without account rows, and a    *)
(* done event an acknowledged one.  A commit, its answer received or lost, *)
(* is one Write; the acknowledgement of a live delivery is one Finish;     *)
(* every other step, of a statement, a failure or the broker, changes      *)
(* neither.                                                                *)
(***************************************************************************)
BookEntry(x) == [id |-> x.id, key |-> x.key, action |-> x.action, lines |-> LinesOf(x.lines)]

\* The book, entry by entry.
LEMMA BookEntries ==
    /\ Book = {BookEntry(x) : x \in journal}
    /\ \A x : /\ BookEntry(x).id = x.id /\ BookEntry(x).key = x.key
              /\ BookEntry(x).action = x.action /\ BookEntry(x).lines = LinesOf(x.lines)
  BY DEF Book, BookEntry

\* What the service may be asked for is what the abstract ledger may write.
LEMMA AskedIsAllowed ==
    ASSUME TypeInv, NEW x, Asked(CommandOf(x), journal)
    PROVE  \/ Atomic!Settles(BookEntry(x))
           \/ Atomic!IsManual(BookEntry(x))
           \/ Atomic!Reverses(BookEntry(x))
<1>1. /\ CommandOf(x).key = BookEntry(x).key /\ CommandOf(x).action = BookEntry(x).action
      /\ CommandOf(x).lines = BookEntry(x).lines
  BY DEF CommandOf, BookEntry
<1>2. CASE \E e \in Events : \E i \in DOMAIN Settlements[e] :
              Loses(e, i) /\ CommandOf(x) = Charge(e, i)
  <2>1. PICK e \in Events : \E i \in DOMAIN Settlements[e] :
              Loses(e, i) /\ CommandOf(x) = Charge(e, i)
    BY <1>2
  <2>2. PICK i \in DOMAIN Settlements[e] : Loses(e, i) /\ CommandOf(x) = Charge(e, i)
    BY <2>1
  <2> DEFINE line == Settlements[e][i]
  <2>3. /\ line.result = "LOST"
        /\ BookEntry(x).key = <<"settle", e, line.user>>
        /\ BookEntry(x).action = "SETTLE_PICK"
        /\ BookEntry(x).lines = << Atomic!Debit(line.user, line.stake),
                                   Atomic!Credit("POOL", line.stake) >>
    BY <1>1, <2>2 DEF Loses, Charge, SettleCommand, Atomic!Debit, Atomic!Credit
  <2> QED
    BY <2>3 DEF Atomic!Settles
<1>3. CASE CommandOf(x) \in ManualCommands
  <2>1. BookEntry(x).action = "MANUAL_ENTRY"
    BY <1>1, <1>3, LedgerAssumption
  <2> QED
    BY <1>1, <1>3, <2>1 DEF Atomic!IsManual
<1>4. CASE \E z \in journal : CommandOf(x) = ReverseCommand(z)
  <2>1. PICK z \in journal : CommandOf(x) = ReverseCommand(z)
    BY <1>4
  <2>2. z.lines \in Seq(Posting)
    BY DEF TypeInv, TypeOK, EntryRow
  <2>3. \A i \in 1..Len(z.lines) : Flip(z.lines[i]) = Atomic!Opposite(LineOf(z.lines[i]))
    <3> TAKE i \in 1..Len(z.lines)
    <3>1. z.lines[i] \in Posting
      BY <2>2
    <3> QED
      BY <3>1 DEF Posting, Directions, Flip, FlipDirection, LineOf, Atomic!Opposite,
                  Atomic!Debit, Atomic!Credit
  <2>4. BookEntry(x).lines = [i \in DOMAIN LinesOf(z.lines) |->
                                 Atomic!Opposite(LinesOf(z.lines)[i])]
    <3>1. DOMAIN LinesOf(z.lines) = 1..Len(z.lines)
      BY <2>2 DEF LinesOf
    <3>2. \A i \in 1..Len(z.lines) : LinesOf(z.lines)[i] = LineOf(z.lines[i])
      BY <2>2 DEF LinesOf
    <3>3. BookEntry(x).lines = [i \in 1..Len(z.lines) |-> Flip(z.lines[i])]
      BY <1>1, <2>1 DEF ReverseCommand
    <3> QED
      BY <2>3, <3>1, <3>2, <3>3
  <2>5. /\ BookEntry(x).key = <<"reverse", z.id>> /\ BookEntry(x).action = "REVERSE"
    BY <1>1, <2>1 DEF ReverseCommand
  <2>6. BookEntry(z) \in Book
    BY BookEntries
  <2> QED
    BY <2>4, <2>5, <2>6, BookEntries DEF Atomic!Reverses
<1> QED
  BY <1>2, <1>3, <1>4 DEF Asked

\* A commit is one entry of the book.
LEMMA CommitWrites ==
    ASSUME TypeInv, KeysInv, RequestsInv, UNCHANGED acked, NEW w \in Workers, Commits(w)
    PROVE  Atomic!Next
<1>1. PICK x \in EntryRow :
         /\ journal' = journal \cup {x}
         /\ x.id = tx[w].entry /\ CommandOf(x) = tx[w].cmd
         /\ Asked(CommandOf(x), journal)
  BY CommittedEntry DEF RequestsInv
<1>2. Book' = Book \cup {BookEntry(x)}
  BY <1>1 DEF Book, BookEntry
<1>3. x.key = tx[w].cmd.key /\ Holds(w)
  BY <1>1 DEF CommandOf, Commits, Persist, Holds
<1>4. \A y \in journal : y.id # x.id /\ y.key # x.key
  BY <1>1, <1>3 DEF RequestsInv, EntryIds, KeysInv, HeldKeys, KeyExists
<1>5. \A y \in Book : y.id # BookEntry(x).id /\ y.key # BookEntry(x).key
  BY <1>4, BookEntries
<1>6. \/ Atomic!Settles(BookEntry(x))
      \/ Atomic!IsManual(BookEntry(x))
      \/ Atomic!Reverses(BookEntry(x))
  BY <1>1, AskedIsAllowed
<1>7. Atomic!Write(BookEntry(x))
  BY <1>2, <1>5, <1>6 DEF Atomic!Write
<1>8. BookEntry(x) \in Book'
  BY <1>2
<1> QED
  BY <1>7, <1>8 DEF Atomic!Next

\* The acknowledgement of a live delivery finishes its event.
LEMMA AckFinishes ==
    ASSUME TypeInv, LoopInv, LoopInv', NEW c \in Consumers, Ack(c)
    PROVE  Atomic!Next \/ UNCHANGED <<Book, acked>>
<1>1. UNCHANGED journal /\ Book' = Book
  BY DEF Ack, db, Book
<1>2. CASE job[c].live
  <2> DEFINE e == job[c].event
  <2>1. e \in Events /\ acked' = acked \cup {e}
    BY <1>2 DEF Ack, TypeInv, LiveDeliveries
  <2>2. FullyCharged(e)
    BY <1>1, <2>1 DEF LoopInv, FullyCharged
  <2>3. Atomic!Settled(e)
    <3> SUFFICES ASSUME NEW i \in DOMAIN Settlements[e], Settlements[e][i].result = "LOST"
                 PROVE  \E x \in Book : x.key = <<"settle", e, Settlements[e][i].user>>
      BY DEF Atomic!Settled
    <3>1. PICK x \in journal : x.key = Charge(e, i).key
      BY <2>2 DEF FullyCharged, Charged, Loses
    <3>2. x.key = <<"settle", e, Settlements[e][i].user>>
      BY <3>1 DEF Charge, SettleCommand
    <3> QED
      BY <3>2, BookEntries
  <2> QED
    BY <1>1, <2>1, <2>3 DEF Atomic!Next, Atomic!Finish
<1>3. CASE ~job[c].live
  BY <1>1, <1>3 DEF Ack
<1> QED
  BY <1>2, <1>3

\* Every step is a step of the abstract ledger or changes nothing it shows.
LEMMA NextRefines ==
    TypeInv /\ KeysInv /\ RequestsInv /\ LoopInv /\ LoopInv' /\ [Next]_vars
        => [Atomic!Next]_<<Book, acked>>
<1> SUFFICES ASSUME TypeInv, KeysInv, RequestsInv, LoopInv, LoopInv', [Next]_vars
             PROVE  Atomic!Next \/ UNCHANGED <<Book, acked>>
  OBVIOUS
<1> USE DEF db, broker
<1>0. CASE UNCHANGED <<journal, acked>>
  BY <1>0 DEF Book
<1>1. ASSUME NEW w \in Workers, Commit(w) \/ CommitAnswerLost(w)
      PROVE  Atomic!Next
  BY <1>1, CommitWrites DEF Commit, CommitAnswerLost, Commits, Fail, sequences
<1>2. ASSUME NEW c \in Consumers, Ack(c) PROVE Atomic!Next \/ UNCHANGED <<Book, acked>>
  BY <1>2, AckFinishes
<1>3. ASSUME NEW c \in Consumers, SettleLosingPick(c) \/ ConnectionLost(c)
      PROVE  UNCHANGED <<journal, acked>>
  BY <1>3 DEF SettleLosingPick, ConnectionLost
<1>4. ASSUME NEW w \in Workers,
             \/ InsertEntry(w) \/ PostLine(w) \/ OpenAccount(w)
             \/ DeadlockVictim(w) \/ StatementFails(w)
      PROVE  UNCHANGED <<journal, acked>>
  BY <1>4 DEF InsertEntry, PostLine, OpenAccount, DeadlockVictim, StatementFails
<1>5. ASSUME NEW a \in Admins, \/ \E m \in ManualCommands : PostManualEntry(a, m)
                               \/ \E x \in journal : Reverse(a, x)
      PROVE  UNCHANGED <<journal, acked>>
  BY <1>5 DEF PostManualEntry, Reverse
<1>6. ASSUME NEW e \in Events, Publish(e) \/ \E c \in Consumers : Deliver(c, e)
      PROVE  UNCHANGED <<journal, acked>>
  BY <1>6 DEF Publish, Deliver
<1>7. Restart \/ UNCHANGED vars => UNCHANGED <<journal, acked>>
  BY DEF Restart, vars
<1> QED
  BY <1>0, <1>1, <1>2, <1>3, <1>4, <1>5, <1>6, <1>7 DEF Next, ListenerStep, WorkerStep

\* Whatever the interleaving of statements, threads, redeliveries and failures,
\* the service is the atomic ledger seen from outside: one whole entry at a time,
\* each under a new id and key and each as it was asked for, and an event is done
\* only when nothing of it is left to charge.
THEOREM LedgerIsAtomic == Spec => ImplementsAtomicLedger
<1>1. Init => Atomic!Init
  BY DEF Init, Atomic!Init, Book
<1> QED
  BY <1>1, NextRefines, InitTypeInv, NextTypeInv, InitKeysInv, NextKeysInv, InitRequestsInv,
     NextRequestsInv, NextLoopInv, PTL DEF Spec, ImplementsAtomicLedger, Atomic!Spec

-----------------------------------------------------------------------------
(***************************************************************************)
(* Nothing gets into the journal past PostingService.validateBalanced.     *)
(***************************************************************************)
EntriesValidated == \A x \in journal : ValidateBalanced(LinesOf(x.lines))

ValidatedInv ==
    /\ EntriesValidated
    /\ \A w \in Workers : tx[w].step # "idle" => ValidateBalanced(tx[w].cmd.lines)

LEMMA InitValidatedInv == Init => ValidatedInv
<1> SUFFICES ASSUME Init PROVE ValidatedInv
  OBVIOUS
<1>1. journal = {} /\ \A w \in Workers : tx[w].step = "idle"
  BY EmptyRecords DEF Init
<1> QED
  BY <1>1 DEF ValidatedInv, EntriesValidated

LEMMA NextValidatedInv ==
    TypeInv /\ RequestsInv /\ ValidatedInv /\ EntryStep => ValidatedInv'
<1> SUFFICES ASSUME TypeInv, RequestsInv, ValidatedInv, EntryStep PROVE ValidatedInv'
  OBVIOUS
<1>0. ASSUME UNCHANGED journal,
             \A w \in Workers : tx'[w].step # "idle" =>
                ValidateBalanced(tx'[w].cmd.lines)
      PROVE  ValidatedInv'
  BY <1>0 DEF ValidatedInv, EntriesValidated
<1>1. CASE Kept
  BY <1>0, <1>1 DEF Kept, ValidatedInv
<1>2. CASE Stops
  BY <1>0, <1>2, EmptyRecords DEF Stops
<1>3. ASSUME NEW w \in Workers, Begins(w) PROVE ValidatedInv'
  <2>1. PICK cmd : ValidateBalanced(cmd.lines) /\ Begin(w, cmd)
    BY <1>3 DEF Begins
  <2>2. tx'[w].cmd = cmd /\ \A v \in Workers \ {w} : tx'[v] = tx[v]
    BY <2>1 DEF Begin, TypeInv, TypeOK
  <2>3. UNCHANGED journal
    BY <1>3 DEF Begins
  <2> QED
    BY <1>0, <2>1, <2>2, <2>3 DEF ValidatedInv
<1>4. ASSUME NEW w \in Workers, Ends(w) PROVE ValidatedInv'
  <2>1. tx'[w].step = "idle" /\ \A v \in Workers \ {w} : tx'[v] = tx[v]
    BY <1>4, Replaced, EmptyRecords DEF Ends
  <2>2. UNCHANGED journal
    BY <1>4 DEF Ends
  <2> QED
    BY <1>0, <2>1, <2>2 DEF ValidatedInv
<1>5. ASSUME NEW w \in Workers, Inserts(w) \/ Posts(w) \/ Seeks(w) PROVE ValidatedInv'
  <2>1. /\ tx[w].step # "idle" /\ tx'[w].cmd = tx[w].cmd /\ UNCHANGED journal
        /\ \A v \in Workers \ {w} : tx'[v] = tx[v]
    BY <1>5, Advanced DEF Inserts, Posts, Seeks, Holds
  <2> QED
    BY <1>0, <2>1 DEF ValidatedInv
<1>6. ASSUME NEW w \in Workers, Commits(w) PROVE ValidatedInv'
  <2>1. tx'[w].step = "idle" /\ \A v \in Workers \ {w} : tx'[v] = tx[v]
    BY <1>6, Replaced, EmptyRecords DEF Commits
  <2>2. PICK x \in EntryRow : journal' = journal \cup {x} /\ CommandOf(x) = tx[w].cmd
    BY <1>6, CommittedEntry DEF RequestsInv
  <2>3. ValidateBalanced(LinesOf(x.lines))
    <3>1. LinesOf(x.lines) = tx[w].cmd.lines /\ tx[w].step # "idle"
      BY <1>6, <2>2 DEF CommandOf, Commits, Persist
    <3> QED
      BY <3>1 DEF ValidatedInv
  <2> QED
    BY <2>1, <2>2, <2>3 DEF ValidatedInv, EntriesValidated
<1> QED
  BY <1>1, <1>2, <1>3, <1>4, <1>5, <1>6 DEF EntryStep

\* Every entry of the journal has at least two lines, positive amounts and totals
\* the validation found equal, reversals and charges included.
THEOREM EveryEntryValidated == Spec => []EntriesValidated
<1>1. ValidatedInv => EntriesValidated
  BY DEF ValidatedInv
<1> QED
  BY <1>1, InitTypeInv, NextTypeInv, InitRequestsInv, NextRequestsInv, InitValidatedInv,
     NextValidatedInv, NextEntryStep, PTL DEF Spec

-----------------------------------------------------------------------------
(***************************************************************************)
(* The books balance.  Each entry is balanced: a charge debits and credits *)
(* one stake, a reversal swaps the totals of its original, and a manual    *)
(* entry passed the validation, which is exact as long as its totals fit   *)
(* into a long.  Every posting is on one of the accounts, so adding up the *)
(* balances adds up every entry.                                           *)
(***************************************************************************)
\* What validateBalanced needs to be exact: the totals of a manual entry do not
\* wrap around.
ManualTotalsFit ==
    \A m \in ManualCommands, direction \in Directions : Total(m.lines, direction) <= MaxLong

EntriesBalanced == \A x \in journal : Balanced(LinesOf(x.lines))

\* The lines of an entry, without the account rows.
LEMMA LinesOfEntry ==
    ASSUME NEW x \in EntryRow
    PROVE  /\ LinesOf(x.lines) \in Seq(Line)
           /\ Len(LinesOf(x.lines)) = Len(x.lines)
           /\ DOMAIN LinesOf(x.lines) = 1..Len(x.lines)
           /\ DOMAIN x.lines = 1..Len(x.lines) /\ Len(x.lines) \in Nat
           /\ \A i \in 1..Len(x.lines) :
                 LinesOf(x.lines)[i] = LineOf(x.lines[i]) /\ x.lines[i] \in Posting
<1>1. x.lines \in Seq(Posting)
  BY DEF EntryRow
<1>2. \A p \in Posting : LineOf(p) \in Line
  BY DEF Posting, AccountRow, LineOf, Line
<1>3. LinesOf(x.lines) = [i \in 1..Len(x.lines) |-> LineOf(x.lines[i])]
  BY <1>1 DEF LinesOf
<1> QED
  BY <1>1, <1>2, <1>3

\* A charge moves the stake out and in.
LEMMA ChargeTotals ==
    ASSUME NEW e \in Events, NEW i \in DOMAIN Settlements[e]
    PROVE  /\ Charge(e, i).lines \in Seq(Line)
           /\ DOMAIN Charge(e, i).lines = {1, 2} /\ Len(Charge(e, i).lines) = 2
           /\ \A k \in {1, 2} : Charge(e, i).lines[k].amount = Settlements[e][i].stake
           /\ \A direction \in Directions :
                 Total(Charge(e, i).lines, direction) = Settlements[e][i].stake
<1> DEFINE stake == Settlements[e][i].stake
           lines == Charge(e, i).lines
<1>1. Settlements[e][i] \in SettlementLine
  BY LedgerAssumption
<1>2. Charge(e, i) \in Command
  BY <1>1, SettleCommandType DEF Charge
<1>3. /\ lines \in Seq(Line) /\ DOMAIN lines = {1, 2} /\ Len(lines) = 2 /\ stake \in Int
      /\ lines[1].amount = stake /\ lines[1].direction = "DEBIT"
      /\ lines[2].amount = stake /\ lines[2].direction = "CREDIT"
  BY <1>1, <1>2 DEF Charge, SettleCommand, Command, SettlementLine
<1> HIDE DEF lines, stake
<1>4. Side(lines, "DEBIT") = {1} /\ Side(lines, "CREDIT") = {2}
  BY <1>3 DEF Side
<1>5. AmountsOf(lines)[1] = stake /\ AmountsOf(lines)[2] = stake
  BY <1>3 DEF AmountsOf
<1>6. SumOver(AmountsOf(lines), {1}) = stake /\ SumOver(AmountsOf(lines), {2}) = stake
  BY <1>3, <1>5, SumSingle
<1>7. Total(lines, "DEBIT") = stake /\ Total(lines, "CREDIT") = stake
  BY <1>3, <1>4, <1>6, TotalIsSum
<1> QED
  BY <1>3, <1>7 DEF lines, stake, Directions

LEMMA ChargeBalanced ==
    ASSUME NEW e \in Events, NEW i \in DOMAIN Settlements[e]
    PROVE  Balanced(Charge(e, i).lines)
  BY ChargeTotals DEF Balanced, Directions

\* The validation lets every charge of a positive stake that fits into a long
\* pass: a settlement event is never dead-lettered because of it.
THEOREM ChargesPassValidation ==
    ASSUME NEW e \in Events, NEW i \in DOMAIN Settlements[e],
           Settlements[e][i].stake \in 1..MaxLong
    PROVE  ValidateBalanced(Charge(e, i).lines)
<1> DEFINE lines == Charge(e, i).lines
<1>1. /\ lines \in Seq(Line) /\ DOMAIN lines = {1, 2} /\ Len(lines) = 2
      /\ \A k \in {1, 2} : lines[k].amount \in Nat /\ lines[k].amount > 0
      /\ Total(lines, "DEBIT") = Total(lines, "CREDIT")
      /\ \A direction \in Directions : Total(lines, direction) <= MaxLong
  BY ChargeTotals, MaxLongAssumption DEF Directions
<1> HIDE DEF lines
<1>2. \A direction \in Directions : LongTotal(lines, direction) = Total(lines, direction)
  <2>1. \A k \in DOMAIN lines : lines[k].amount \in Nat
    BY <1>1
  <2> QED
    BY <1>1, <2>1, LongTotalFits
<1>3. LongTotal(lines, "DEBIT") = LongTotal(lines, "CREDIT")
  BY <1>1, <1>2 DEF Directions
<1>4. ValidateBalanced(lines)
  BY <1>1, <1>3 DEF ValidateBalanced
<1> QED
  BY <1>4 DEF lines

\* A manual entry whose totals fit is balanced when it is accepted.
LEMMA AcceptedBalanced ==
    ASSUME NEW lines \in Seq(Line), ValidateBalanced(lines),
           \A direction \in Directions : Total(lines, direction) <= MaxLong
    PROVE  Balanced(lines)
<1>1. \A i \in DOMAIN lines : lines[i].amount \in Nat
  <2>1. \A i \in DOMAIN lines : lines[i] \in Line /\ lines[i].amount > 0
    BY DEF ValidateBalanced
  <2> QED
    BY <2>1 DEF Line
<1>2. Total(lines, "DEBIT") <= MaxLong /\ Total(lines, "CREDIT") <= MaxLong
  BY DEF Directions
<1>3. LongTotal(lines, "DEBIT") = Total(lines, "DEBIT")
  BY <1>1, <1>2, LongTotalFits
<1>4. LongTotal(lines, "CREDIT") = Total(lines, "CREDIT")
  BY <1>1, <1>2, LongTotalFits
<1> QED
  BY <1>3, <1>4 DEF Balanced, ValidateBalanced

\* The reversal of a balanced entry is balanced.
LEMMA ReversalBalanced ==
    ASSUME NEW x \in EntryRow, Balanced(LinesOf(x.lines))
    PROVE  Balanced(ReverseCommand(x).lines)
<1> DEFINE lines == LinesOf(x.lines)
           flipped == ReverseCommand(x).lines
<1>1. /\ lines \in Seq(Line) /\ DOMAIN lines = 1..Len(x.lines)
      /\ flipped \in Seq(Line) /\ DOMAIN flipped = 1..Len(x.lines)
      /\ \A i \in 1..Len(x.lines) : flipped[i] = Flip(x.lines[i])
  <2>1. ReverseCommand(x) \in Command
    BY ReverseCommandType
  <2>2. flipped = [i \in 1..Len(x.lines) |-> Flip(x.lines[i])]
    BY DEF ReverseCommand
  <2> QED
    BY <2>1, <2>2, LinesOfEntry DEF Command
<1>2. ASSUME NEW i \in 1..Len(x.lines)
      PROVE  /\ flipped[i].amount = lines[i].amount
             /\ lines[i].amount \in Int
             /\ flipped[i].direction = "CREDIT" <=> lines[i].direction = "DEBIT"
             /\ flipped[i].direction = "DEBIT" <=> lines[i].direction = "CREDIT"
  <2>1. x.lines[i] \in Posting /\ lines[i] = LineOf(x.lines[i])
    BY LinesOfEntry
  <2>2. flipped[i] = Flip(x.lines[i])
    BY <1>1
  <2> HIDE DEF flipped, lines
  <2> QED
    BY <2>1, <2>2 DEF Flip, FlipDirection, LineOf, Posting, Directions
<1> HIDE DEF lines, flipped
<1>3. /\ Side(flipped, "CREDIT") = Side(lines, "DEBIT")
      /\ Side(flipped, "DEBIT") = Side(lines, "CREDIT")
  BY <1>1, <1>2 DEF Side
<1>4. ASSUME NEW direction
      PROVE  SumOver(AmountsOf(flipped), Side(lines, direction))
               = SumOver(AmountsOf(lines), Side(lines, direction))
  <2>1. IsFiniteSet(Side(lines, direction))
    BY <1>1, Positions
  <2>2. \A i \in Side(lines, direction) : AmountsOf(flipped)[i] = AmountsOf(lines)[i]
    BY <1>1, <1>2 DEF Side, AmountsOf
  <2> QED
    BY <2>1, <2>2, SumSame
<1>5. /\ Total(flipped, "CREDIT") = Total(lines, "DEBIT")
      /\ Total(flipped, "DEBIT") = Total(lines, "CREDIT")
  BY <1>1, <1>3, <1>4, TotalIsSum
<1> QED
  BY <1>5 DEF Balanced, lines, flipped

\* Every step keeps the entries balanced.
LEMMA NextEntriesBalanced ==
    ManualTotalsFit /\ TypeInv /\ RequestsInv /\ ValidatedInv /\ EntriesBalanced /\ EntryStep
        => EntriesBalanced'
<1> SUFFICES ASSUME ManualTotalsFit, TypeInv, RequestsInv, ValidatedInv, EntriesBalanced,
                    EntryStep
             PROVE  EntriesBalanced'
  OBVIOUS
<1>1. ASSUME NEW w \in Workers, Commits(w) PROVE EntriesBalanced'
  <2>1. PICK x \in EntryRow :
           /\ journal' = journal \cup {x}
           /\ CommandOf(x) = tx[w].cmd
           /\ Asked(CommandOf(x), journal)
    BY <1>1, CommittedEntry DEF RequestsInv
  <2>2. /\ LinesOf(x.lines) = CommandOf(x).lines
        /\ LinesOf(x.lines) = tx[w].cmd.lines /\ tx[w].step # "idle"
    BY <1>1, <2>1 DEF CommandOf, Commits, Persist
  <2>3. Balanced(LinesOf(x.lines))
    <3>1. CASE \E e \in Events : \E i \in DOMAIN Settlements[e] : CommandOf(x) = Charge(e, i)
      BY <2>2, <3>1, ChargeBalanced
    <3>2. CASE CommandOf(x) \in ManualCommands
      <4>1. \A direction \in Directions : Total(LinesOf(x.lines), direction) <= MaxLong
        BY <2>2, <3>2 DEF ManualTotalsFit
      <4>2. ValidateBalanced(LinesOf(x.lines))
        BY <2>2 DEF ValidatedInv
      <4> QED
        BY <4>1, <4>2, LinesOfEntry, AcceptedBalanced
    <3>3. CASE \E z \in journal : CommandOf(x) = ReverseCommand(z)
      <4>1. PICK z \in journal : CommandOf(x) = ReverseCommand(z)
        BY <3>3
      <4>2. z \in EntryRow /\ Balanced(LinesOf(z.lines))
        BY DEF TypeInv, TypeOK, EntriesBalanced
      <4> QED
        BY <2>2, <4>1, <4>2, ReversalBalanced
    <3> QED
      BY <2>1, <3>1, <3>2, <3>3 DEF Asked
  <2> QED
    BY <2>1, <2>3 DEF EntriesBalanced
<1>2. CASE UNCHANGED journal
  BY <1>2 DEF EntriesBalanced
<1> QED
  BY <1>1, <1>2 DEF EntryStep, Kept, Stops, Begins, Ends, Inserts, Posts, Seeks

-----------------------------------------------------------------------------
\* The signed amounts of an entry, and the lines of it on an account.
SignedOf(x) == [i \in DOMAIN x.lines |-> Signed(x.lines[i])]
On(a, x) == {i \in DOMAIN x.lines : x.lines[i].account.id = a.id}

LEMMA SignedInt ==
    ASSUME NEW x \in EntryRow
    PROVE  /\ IsFiniteSet(DOMAIN x.lines)
           /\ \A i \in DOMAIN x.lines : SignedOf(x)[i] \in Int
           /\ \A a : On(a, x) \subseteq DOMAIN x.lines /\ IsFiniteSet(On(a, x))
<1>1. x.lines \in Seq(Posting) /\ IsFiniteSet(DOMAIN x.lines)
  BY Positions DEF EntryRow
<1>2. \A p \in Posting : Signed(p) \in Int
  BY DEF Posting, Signed
<1>3. \A i \in DOMAIN x.lines : SignedOf(x)[i] \in Int
  BY <1>1, <1>2 DEF SignedOf
<1>4. \A a : On(a, x) \subseteq DOMAIN x.lines
  BY DEF On
<1> QED
  BY <1>1, <1>3, <1>4, FS_Subset

\* What an entry does to an account is the sum of its signed amounts there.
LEMMA EffectIsSum ==
    ASSUME NEW x \in EntryRow, NEW a
    PROVE  EffectOn(a, x) = SumOver(SignedOf(x), On(a, x)) /\ EffectOn(a, x) \in Int
<1> DEFINE S == On(a, x)
           F == SignedOf(x)
           Eq(g) == g = [s \in SUBSET S |->
                            IF s = {} THEN 0
                            ELSE Signed(x.lines[CHOOSE i \in s : TRUE])
                                   + g[s \ {CHOOSE i \in s : TRUE}]]
<1>1. ASSUME NEW g PROVE IsSum(g, F, S) <=> Eq(g)
  <2>1. ASSUME NEW s \in SUBSET S, s # {}
        PROVE  F[First(s)] + g[s \ {First(s)}]
                 = Signed(x.lines[CHOOSE i \in s : TRUE]) + g[s \ {CHOOSE i \in s : TRUE}]
    <3>1. First(s) \in DOMAIN x.lines
      BY <2>1, FirstMember, SignedInt
    <3>2. F[First(s)] = Signed(x.lines[First(s)])
      BY <3>1 DEF SignedOf
    <3> QED
      BY <3>2 DEF First
  <2>2. [s \in SUBSET S |-> IF s = {} THEN 0 ELSE F[First(s)] + g[s \ {First(s)}]]
          = [s \in SUBSET S |->
               IF s = {} THEN 0
               ELSE Signed(x.lines[CHOOSE i \in s : TRUE]) + g[s \ {CHOOSE i \in s : TRUE}]]
    BY <2>1
  <2> QED
    BY <2>2 DEF IsSum
<1>2. EffectOn(a, x) = (CHOOSE g : Eq(g))[S]
  BY DEF EffectOn, On, SetsExt!MapThenSumSet, SetsExt!MapThenFoldSet
<1>3. IsFiniteSet(S) /\ \A i \in S : F[i] \in Int
  BY SignedInt
<1>4. IsSum(CHOOSE g : Eq(g), F, S)
  <2> HIDE DEF Eq, F, S
  <2>1. \E g : Eq(g)
    BY <1>1, <1>3, SumExists
  <2> QED
    BY <1>1, <2>1
<1> HIDE DEF Eq, F, S
<1>5. SumOver(F, S) = (CHOOSE g : Eq(g))[S]
  BY <1>3, <1>4, SumIs
<1>6. SumOver(F, S) \in Int
  BY <1>3, SumType
<1> QED
  BY <1>2, <1>5, <1>6 DEF F, S

\* The balance of an account is the sum of the effects of the entries.
LEMMA BalanceIsSum ==
    ASSUME journal \subseteq EntryRow, IsFiniteSet(journal), NEW a
    PROVE  /\ BalanceOf(a) = SumOver([x \in journal |-> EffectOn(a, x)], journal)
           /\ BalanceOf(a) \in Int
<1> DEFINE F == [x \in journal |-> EffectOn(a, x)]
           Eq(g) == g = [s \in SUBSET journal |->
                            IF s = {} THEN 0
                            ELSE EffectOn(a, CHOOSE x \in s : TRUE)
                                   + g[s \ {CHOOSE x \in s : TRUE}]]
<1>1. ASSUME NEW g PROVE IsSum(g, F, journal) <=> Eq(g)
  <2>1. ASSUME NEW s \in SUBSET journal, s # {}
        PROVE  F[First(s)] + g[s \ {First(s)}]
                 = EffectOn(a, CHOOSE x \in s : TRUE) + g[s \ {CHOOSE x \in s : TRUE}]
    <3>1. First(s) \in journal
      BY <2>1, FirstMember
    <3>2. F[First(s)] = EffectOn(a, First(s))
      BY <3>1
    <3> QED
      BY <3>2 DEF First
  <2>2. [s \in SUBSET journal |-> IF s = {} THEN 0 ELSE F[First(s)] + g[s \ {First(s)}]]
          = [s \in SUBSET journal |->
               IF s = {} THEN 0
               ELSE EffectOn(a, CHOOSE x \in s : TRUE) + g[s \ {CHOOSE x \in s : TRUE}]]
    BY <2>1
  <2> QED
    BY <2>2 DEF IsSum
<1>2. BalanceOf(a) = (CHOOSE g : Eq(g))[journal]
  BY DEF BalanceOf, SetsExt!MapThenSumSet, SetsExt!MapThenFoldSet
<1>3. \A x \in journal : F[x] \in Int
  BY EffectIsSum
<1>4. IsSum(CHOOSE g : Eq(g), F, journal)
  <2> HIDE DEF Eq, F
  <2>1. \E g : Eq(g)
    BY <1>1, SumExists
  <2> QED
    BY <1>1, <2>1
<1> HIDE DEF Eq, F
<1>5. SumOver(F, journal) = (CHOOSE g : Eq(g))[journal]
  BY <1>4, SumIs
<1>6. SumOver(F, journal) \in Int
  BY <1>3, SumType
<1> QED
  BY <1>2, <1>5, <1>6 DEF F

\* Rows told apart by ids below a bound are finitely many.
LEMMA FiniteByIds ==
    ASSUME NEW S, NEW n \in Nat, \A x \in S : x.id \in Nat /\ x.id < n,
           \A x, y \in S : x.id = y.id => x = y
    PROVE  IsFiniteSet(S)
<1> DEFINE f == [x \in S |-> x.id]
<1>1. f \in Injection(S, 0..n)
  BY DEF Injection, IsInjective
<1>2. IsFiniteSet(0..n)
  BY FS_Interval
<1> QED
  BY <1>1, <1>2, FS_Injection

LEMMA FiniteTables ==
    ASSUME TypeInv, AccountsInv, EntryIds
    PROVE  IsFiniteSet(accounts) /\ IsFiniteSet(journal)
<1>1. /\ nextAccount \in Nat /\ nextEntry \in Nat
      /\ \A a \in accounts : a.id \in Nat
      /\ \A x \in journal : x.id \in Nat
  BY DEF TypeInv, TypeOK, AccountRow, EntryRow
<1>2. /\ \A a \in accounts : a.id < nextAccount
      /\ \A a, b \in accounts : a.id = b.id => a = b
  BY DEF AccountsInv, OneAccountPerOwner
<1> QED
  BY <1>1, <1>2, FiniteByIds DEF EntryIds

\* The signed amounts of a balanced entry add up to nothing.
LEMMA SignedTotal ==
    ASSUME NEW x \in EntryRow, Balanced(LinesOf(x.lines))
    PROVE  SumOver(SignedOf(x), DOMAIN x.lines) = 0
<1> DEFINE lines == LinesOf(x.lines)
           D == Side(lines, "DEBIT")
           C == Side(lines, "CREDIT")
           A == AmountsOf(lines)
           F == SignedOf(x)
<1>1. lines \in Seq(Line) /\ DOMAIN lines = DOMAIN x.lines
  BY LinesOfEntry
<1>2. ASSUME NEW i \in DOMAIN x.lines
      PROVE  /\ A[i] \in Int
             /\ lines[i].direction \in {"DEBIT", "CREDIT"}
             /\ F[i] = IF lines[i].direction = "CREDIT" THEN A[i] ELSE -A[i]
  <2>1. x.lines[i] \in Posting /\ lines[i] = LineOf(x.lines[i]) /\ i \in DOMAIN lines
    BY <1>1, LinesOfEntry
  <2>2. /\ x.lines[i].amount \in Int /\ x.lines[i].direction \in {"DEBIT", "CREDIT"}
        /\ lines[i].amount = x.lines[i].amount /\ lines[i].direction = x.lines[i].direction
    BY <2>1 DEF Posting, Directions, LineOf
  <2>3. A[i] = lines[i].amount /\ F[i] = Signed(x.lines[i])
    BY <2>1 DEF AmountsOf, SignedOf
  <2> HIDE DEF lines, A, F
  <2> QED
    BY <2>2, <2>3 DEF Signed
<1>3. /\ D \cup C = DOMAIN x.lines /\ D \cap C = {}
      /\ \A i \in C : i \in DOMAIN x.lines /\ lines[i].direction = "CREDIT"
      /\ \A i \in D : i \in DOMAIN x.lines /\ lines[i].direction # "CREDIT"
  <2> HIDE DEF lines, A, F
  <2> QED
    BY <1>1, <1>2 DEF Side
<1>4. IsFiniteSet(D) /\ IsFiniteSet(C)
  BY <1>1, Positions
<1>5. Total(lines, "DEBIT") = SumOver(A, D) /\ Total(lines, "CREDIT") = SumOver(A, C)
  BY <1>1, TotalIsSum
<1>6. \A i \in D \cup C : F[i] \in Int
  BY <1>3, SignedInt
<1> HIDE DEF lines, A, F, D, C
<1>7. SumOver(F, D \cup C) = SumOver(F, D) + SumOver(F, C)
  BY <1>3, <1>4, <1>6, SumUnion
<1>8. SumOver(F, C) = SumOver(A, C)
  BY <1>2, <1>3, <1>4, SumSame
<1>9. SumOver(F, D) = -SumOver(A, D)
  <2>1. \A i \in D : A[i] \in Int /\ F[i] = -A[i]
    BY <1>2, <1>3
  <2> QED
    BY <1>4, <2>1, SumNegated
<1>10. SumOver(A, D) = SumOver(A, C) /\ SumOver(A, D) \in Int
  <2>1. \A i \in D : A[i] \in Int
    BY <1>2, <1>3
  <2>2. SumOver(A, D) \in Int
    BY <1>4, <2>1, SumType
  <2> QED
    BY <1>5, <2>2 DEF Balanced, lines
<1>11. \A n \in Int : -n + n = 0
  OBVIOUS
<1>12. SumOver(F, D \cup C) = -SumOver(A, D) + SumOver(A, D)
  BY <1>7, <1>8, <1>9, <1>10
<1>13. SumOver(F, DOMAIN x.lines) = 0
  BY <1>3, <1>10, <1>11, <1>12
<1> QED
  BY <1>13 DEF F

\* The effects of an entry on all accounts add up to its signed amounts: each
\* posting is on one account.
LEMMA EffectsOfEntry ==
    ASSUME NEW x \in EntryRow, IsFiniteSet(accounts),
           \A a, b \in accounts : a.id = b.id => a = b,
           \A i \in DOMAIN x.lines : x.lines[i].account \in accounts
    PROVE  SumOver([a \in accounts |-> EffectOn(a, x)], accounts)
             = SumOver(SignedOf(x), DOMAIN x.lines)
<1> DEFINE class == [i \in DOMAIN x.lines |-> x.lines[i].account]
           G == [a \in accounts |-> EffectOn(a, x)]
<1>1. ASSUME NEW a \in accounts
      PROVE  G[a] = SumOver(SignedOf(x), OfClass(DOMAIN x.lines, class, a))
  <2>1. OfClass(DOMAIN x.lines, class, a) = On(a, x)
    BY DEF On, OfClass
  <2>2. G[a] = EffectOn(a, x)
    OBVIOUS
  <2> QED
    BY <2>1, <2>2, EffectIsSum
<1>2. \A i \in DOMAIN x.lines : class[i] \in accounts
  OBVIOUS
<1>3. IsFiniteSet(DOMAIN x.lines) /\ \A i \in DOMAIN x.lines : SignedOf(x)[i] \in Int
  BY SignedInt
<1> DEFINE F == SignedOf(x)
           S == DOMAIN x.lines
<1>4. IsFiniteSet(S) /\ (\A i \in S : F[i] \in Int) /\ \A i \in S : class[i] \in accounts
  BY <1>2, <1>3
<1>5. \A a \in accounts : G[a] = SumOver(F, OfClass(S, class, a))
  BY <1>1
<1> HIDE DEF class, G, F, S
<1>6. SumOver(G, accounts) = SumOver(F, S)
  BY <1>4, <1>5, SumByClass
<1> QED
  BY <1>6 DEF F, G, S

\* The balances add up to a sum over the accounts.
LEMMA BooksAreSum ==
    ASSUME journal \subseteq EntryRow, IsFiniteSet(journal), IsFiniteSet(accounts)
    PROVE  BooksBalance <=> SumOver([a \in accounts |-> BalanceOf(a)], accounts) = 0
<1> DEFINE F == [a \in accounts |-> BalanceOf(a)]
           Eq(g) == g = [s \in SUBSET accounts |->
                            IF s = {} THEN 0
                            ELSE BalanceOf(CHOOSE x \in s : TRUE)
                                   + g[s \ {CHOOSE x \in s : TRUE}]]
<1>1. ASSUME NEW g PROVE IsSum(g, F, accounts) <=> Eq(g)
  <2>1. ASSUME NEW s \in SUBSET accounts, s # {}
        PROVE  F[First(s)] + g[s \ {First(s)}]
                 = BalanceOf(CHOOSE x \in s : TRUE) + g[s \ {CHOOSE x \in s : TRUE}]
    <3>1. First(s) \in accounts
      BY <2>1, FirstMember
    <3>2. F[First(s)] = BalanceOf(First(s))
      BY <3>1
    <3> QED
      BY <3>2 DEF First
  <2>2. [s \in SUBSET accounts |-> IF s = {} THEN 0 ELSE F[First(s)] + g[s \ {First(s)}]]
          = [s \in SUBSET accounts |->
               IF s = {} THEN 0
               ELSE BalanceOf(CHOOSE x \in s : TRUE) + g[s \ {CHOOSE x \in s : TRUE}]]
    BY <2>1
  <2> QED
    BY <2>2 DEF IsSum
<1>2. BooksBalance <=> (CHOOSE g : Eq(g))[accounts] = 0
  BY DEF BooksBalance, SetsExt!MapThenSumSet, SetsExt!MapThenFoldSet
<1>4. IsSum(CHOOSE g : Eq(g), F, accounts)
  <2> HIDE DEF Eq, F
  <2>1. \E g : Eq(g)
    BY <1>1, SumExists
  <2> QED
    BY <1>1, <2>1
<1> HIDE DEF Eq, F
<1>5. SumOver(F, accounts) = (CHOOSE g : Eq(g))[accounts]
  BY <1>4, SumIs
<1> QED
  BY <1>2, <1>5 DEF F

\* Balanced entries on accounts that exist leave balanced books.
LEMMA BalancedEntriesBalanceBooks ==
    ASSUME TypeInv, AccountsInv, EntryIds, CommittedRequests, EntriesBalanced
    PROVE  BooksBalance
<1> DEFINE F == [a \in accounts |-> [x \in journal |-> EffectOn(a, x)]]
           Column == [x \in journal |-> SumOver([a \in accounts |-> F[a][x]], accounts)]
<1>1. /\ journal \subseteq EntryRow /\ IsFiniteSet(journal) /\ IsFiniteSet(accounts)
      /\ \A a, b \in accounts : a.id = b.id => a = b
  BY FiniteTables DEF TypeInv, TypeOK, AccountsInv, OneAccountPerOwner
<1>2. \A a \in accounts : \A x \in journal : F[a][x] = EffectOn(a, x) /\ F[a][x] \in Int
  BY <1>1, EffectIsSum
<1>3. [a \in accounts |-> BalanceOf(a)] = [a \in accounts |-> SumOver(F[a], journal)]
  <2>1. ASSUME NEW a \in accounts PROVE BalanceOf(a) = SumOver(F[a], journal)
    BY <1>1, BalanceIsSum
  <2> QED
    BY <2>1
<1>4. ASSUME NEW x \in journal PROVE Column[x] = 0
  <2>1. x \in EntryRow /\ Balanced(LinesOf(x.lines))
    BY <1>1 DEF EntriesBalanced
  <2>2. \A i \in DOMAIN x.lines : x.lines[i].account \in accounts
    BY <2>1, LinesOfEntry DEF CommittedRequests
  <2>3. SumOver([a \in accounts |-> EffectOn(a, x)], accounts) = 0
    BY <1>1, <2>1, <2>2, EffectsOfEntry, SignedTotal
  <2>4. [a \in accounts |-> F[a][x]] = [a \in accounts |-> EffectOn(a, x)]
    BY <1>2
  <2> HIDE DEF F
  <2> QED
    BY <2>3, <2>4
<1>5. SumOver([a \in accounts |-> SumOver(F[a], journal)], accounts) = SumOver(Column, journal)
  <2> HIDE DEF F
  <2> QED
    BY <1>1, <1>2, SumExchange
<1>6. SumOver(Column, journal) = 0
  <2> HIDE DEF Column, F
  <2> QED
    BY <1>1, <1>4, SumZero
<1> HIDE DEF F, Column
<1> QED
  BY <1>1, <1>3, <1>5, <1>6, BooksAreSum

\* The balances of all accounts add up to nothing in every reachable state,
\* provided that no administrator submits an entry whose totals wrap around:
\* rollbacks, retries, races, restarts and reversals make no money and lose none.
THEOREM MoneyIsConserved ==
    ASSUME ManualTotalsFit
    PROVE  Spec => []BooksBalance
<1>1. Init => EntriesBalanced
  BY DEF Init, EntriesBalanced
<1>2. TypeInv /\ RequestsInv /\ ValidatedInv /\ EntriesBalanced /\ EntryStep
        => EntriesBalanced'
  BY NextEntriesBalanced
<1>3. TypeInv /\ AccountsInv /\ RequestsInv /\ EntriesBalanced => BooksBalance
  BY BalancedEntriesBalanceBooks DEF RequestsInv
<1> QED
  BY <1>1, <1>2, <1>3, InitTypeInv, NextTypeInv, InitRequestsInv, NextRequestsInv,
     InitAccountsInv, NextAccountsInv, InitValidatedInv, NextValidatedInv, NextEntryStep,
     PTL DEF Spec

-----------------------------------------------------------------------------
(***************************************************************************)
(* What a player owes.  Without administrators every entry charges a line  *)
(* of an event; it takes the stake from the one account of the line's user *)
(* and nothing from any other player's.  An event holds at most one line   *)
(* of a user and a line is charged once, so what the entries of an event   *)
(* took from a player is nothing or the stake lost in it: at most the      *)
(* stake, event by event, over what was published, and exactly the stake   *)
(* over what was acknowledged.                                             *)
(***************************************************************************)
\* The stakes of an event, and its losing lines of one user.
StakesOf(e) == [i \in DOMAIN Settlements[e] |-> Settlements[e][i].stake]
LosingLines(user, e) ==
    {i \in DOMAIN Settlements[e] :
        Settlements[e][i].user = user /\ Settlements[e][i].result = "LOST"}

\* LostStake is the sum of the stakes of the user's losing lines.
LEMMA LostStakeIsSum ==
    ASSUME NEW e \in Events, NEW user
    PROVE  LostStake(user, e) = SumOver(StakesOf(e), LosingLines(user, e))
<1> DEFINE S == LosingLines(user, e)
           F == StakesOf(e)
           Eq(g) == g = [s \in SUBSET S |->
                            IF s = {} THEN 0
                            ELSE Settlements[e][CHOOSE i \in s : TRUE].stake
                                   + g[s \ {CHOOSE i \in s : TRUE}]]
<1>1. ASSUME NEW g PROVE IsSum(g, F, S) <=> Eq(g)
  <2>1. ASSUME NEW s \in SUBSET S, s # {}
        PROVE  F[First(s)] + g[s \ {First(s)}]
                 = Settlements[e][CHOOSE i \in s : TRUE].stake
                     + g[s \ {CHOOSE i \in s : TRUE}]
    <3>1. First(s) \in DOMAIN Settlements[e]
      BY <2>1, FirstMember DEF LosingLines
    <3>2. F[First(s)] = Settlements[e][First(s)].stake
      BY <3>1 DEF StakesOf
    <3> QED
      BY <3>2 DEF First
  <2>2. [s \in SUBSET S |-> IF s = {} THEN 0 ELSE F[First(s)] + g[s \ {First(s)}]]
          = [s \in SUBSET S |->
               IF s = {} THEN 0
               ELSE Settlements[e][CHOOSE i \in s : TRUE].stake
                      + g[s \ {CHOOSE i \in s : TRUE}]]
    BY <2>1
  <2> QED
    BY <2>2 DEF IsSum
<1>2. LostStake(user, e) = (CHOOSE g : Eq(g))[S]
  BY DEF LostStake, LosingLines, SetsExt!MapThenSumSet, SetsExt!MapThenFoldSet
<1>3. IsFiniteSet(S)
  <2>1. Settlements[e] \in Seq(SettlementLine)
    BY LedgerAssumption
  <2>2. S \in SUBSET DOMAIN Settlements[e]
    BY DEF LosingLines
  <2> QED
    BY <2>1, <2>2, Positions, FS_Subset
<1>4. IsSum(CHOOSE g : Eq(g), F, S)
  <2> HIDE DEF Eq, F, S
  <2>1. \E g : Eq(g)
    BY <1>1, <1>3, SumExists
  <2> QED
    BY <1>1, <2>1
<1> HIDE DEF Eq, F, S
<1>5. SumOver(F, S) = (CHOOSE g : Eq(g))[S]
  BY <1>3, <1>4, SumIs
<1> QED
  BY <1>2, <1>5 DEF F, S

\* A user has at most one line in an event: the stake lost is that line's.
LEMMA LostStakeIs ==
    ASSUME NEW e \in Events, NEW user
    PROVE  /\ LostStake(user, e) \in Int
           /\ \A i : Loses(e, i) /\ Settlements[e][i].user = user =>
                 LostStake(user, e) = Settlements[e][i].stake
           /\ (~\E i : Loses(e, i) /\ Settlements[e][i].user = user) =>
                 LostStake(user, e) = 0
<1>1. ASSUME NEW i, Loses(e, i), Settlements[e][i].user = user
      PROVE  LostStake(user, e) = Settlements[e][i].stake /\ LostStake(user, e) \in Int
  <2>1. LosingLines(user, e) = {i}
    BY <1>1, OneLinePerUser DEF LosingLines, Loses
  <2>2. StakesOf(e)[i] = Settlements[e][i].stake
    BY <1>1 DEF StakesOf, Loses
  <2>3. Settlements[e][i].stake \in Int
    <3>1. i \in DOMAIN Settlements[e] /\ Settlements[e] \in Seq(SettlementLine)
      BY <1>1, LedgerAssumption DEF Loses
    <3>2. Settlements[e][i] \in SettlementLine
      BY <3>1
    <3> QED
      BY <3>2 DEF SettlementLine
  <2>4. SumOver(StakesOf(e), {i}) = StakesOf(e)[i]
    BY <2>2, <2>3, SumSingle
  <2> QED
    BY <2>1, <2>2, <2>3, <2>4, LostStakeIsSum
<1>2. ASSUME ~\E i : Loses(e, i) /\ Settlements[e][i].user = user
      PROVE  LostStake(user, e) = 0
  <2>1. LosingLines(user, e) = {}
    BY <1>2 DEF LosingLines, Loses
  <2> QED
    BY <2>1, LostStakeIsSum, SumOfNone
<1> QED
  BY <1>1, <1>2

\* LostStakes adds up the stakes lost, event by event.
LEMMA LostStakesIsSum ==
    ASSUME NEW events \in SUBSET Events, IsFiniteSet(events), NEW user
    PROVE  LostStakes(user, events)
             = SumOver([e \in events |-> LostStake(user, e)], events)
<1> DEFINE F == [e \in events |-> LostStake(user, e)]
           Eq(g) == g = [s \in SUBSET events |->
                            IF s = {} THEN 0
                            ELSE LostStake(user, CHOOSE e \in s : TRUE)
                                   + g[s \ {CHOOSE e \in s : TRUE}]]
<1>1. ASSUME NEW g PROVE IsSum(g, F, events) <=> Eq(g)
  <2>1. ASSUME NEW s \in SUBSET events, s # {}
        PROVE  F[First(s)] + g[s \ {First(s)}]
                 = LostStake(user, CHOOSE e \in s : TRUE) + g[s \ {CHOOSE e \in s : TRUE}]
    <3>1. First(s) \in events
      BY <2>1, FirstMember
    <3>2. F[First(s)] = LostStake(user, First(s))
      BY <3>1
    <3> QED
      BY <3>2 DEF First
  <2>2. [s \in SUBSET events |-> IF s = {} THEN 0 ELSE F[First(s)] + g[s \ {First(s)}]]
          = [s \in SUBSET events |->
               IF s = {} THEN 0
               ELSE LostStake(user, CHOOSE e \in s : TRUE)
                      + g[s \ {CHOOSE e \in s : TRUE}]]
    BY <2>1
  <2> QED
    BY <2>2 DEF IsSum
<1>2. LostStakes(user, events) = (CHOOSE g : Eq(g))[events]
  BY DEF LostStakes, SetsExt!MapThenSumSet, SetsExt!MapThenFoldSet
<1>4. IsSum(CHOOSE g : Eq(g), F, events)
  <2> HIDE DEF Eq, F
  <2>1. \E g : Eq(g)
    BY <1>1, SumExists
  <2> QED
    BY <1>1, <2>1
<1> HIDE DEF Eq, F
<1>5. SumOver(F, events) = (CHOOSE g : Eq(g))[events]
  BY <1>4, SumIs
<1> QED
  BY <1>2, <1>5 DEF F

\* What is acknowledged was published, and that is finitely many events.
Published == {e \in Events : sent[e] > 0}

PublishedInv == IsFiniteSet(Published) /\ acked \subseteq Published

LEMMA InitPublishedInv == Init => PublishedInv
<1> SUFFICES ASSUME Init PROVE PublishedInv
  OBVIOUS
<1>1. Published = {} /\ acked = {}
  BY DEF Init, Published
<1> QED
  BY <1>1, FS_EmptySet DEF PublishedInv

LEMMA NextPublishedInv ==
    TypeInv /\ DeliveredInv /\ PublishedInv /\ [Next]_vars => PublishedInv'
<1> SUFFICES ASSUME TypeInv, DeliveredInv, PublishedInv, [Next]_vars PROVE PublishedInv'
  OBVIOUS
<1>1. ASSUME NEW e \in Events, Publish(e) PROVE PublishedInv'
  <2>1. Published' \in SUBSET (Published \cup {e}) /\ acked' = acked /\ sent \in [Events -> Nat]
    BY <1>1 DEF Publish, Published, TypeInv, TypeOK
  <2>2. \A f \in Published : f \in Published'
    BY <1>1, <2>1 DEF Publish, Published
  <2>3. IsFiniteSet(Published')
    BY <2>1, FS_AddElement, FS_Subset DEF PublishedInv
  <2> QED
    BY <2>1, <2>2, <2>3 DEF PublishedInv
<1>2. ASSUME NEW c \in Consumers, Ack(c) PROVE PublishedInv'
  <2>1. job[c].event # NoEvent /\ job[c].event \in Events \cup {NoEvent}
    BY <1>2 DEF Ack, TypeInv, TypeOK, Delivery
  <2>2. job[c].event \in Published
    BY <2>1 DEF DeliveredInv, Published
  <2>3. Published' = Published /\ acked' \subseteq acked \cup {job[c].event}
    BY <1>2 DEF Ack, Published
  <2> QED
    BY <2>2, <2>3 DEF PublishedInv
<1>3. ASSUME UNCHANGED <<sent, acked>> PROVE PublishedInv'
  BY <1>3 DEF PublishedInv, Published
<1> QED
  BY <1>1, <1>2, <1>3 DEF Next, vars, broker, Deliver, ListenerStep, SettleLosingPick,
     ConnectionLost, PostManualEntry, Reverse, WorkerStep, InsertEntry, PostLine, OpenAccount,
     Commit, DeadlockVictim, StatementFails, CommitAnswerLost, Restart

\* Only charges in the journal.
OnlyChargesInv == \A x \in journal : x.action = "SETTLE_PICK"

\* Stakes are not negative: a group's entry fee and a settlement line's stake are
\* amounts of money.
StakesCount == \A e \in Events : \A i \in DOMAIN Settlements[e] : Settlements[e][i].stake >= 0

\* A charge takes the stake from the player's account and touches no other
\* player's.
LEMMA ChargeEffect ==
    ASSUME TypeInv, AccountsInv, RequestsInv, OnlyChargesInv,
           NEW x \in journal, NEW a \in accounts, a.owner \in Users
    PROVE  \E e \in Events : \E i \in DOMAIN Settlements[e] :
              /\ Loses(e, i) /\ x.key = Charge(e, i).key
              /\ x.key[2] = e /\ x.key[3] = Settlements[e][i].user
              /\ EffectOn(a, x) = IF Settlements[e][i].user = a.owner
                                  THEN -Settlements[e][i].stake ELSE 0
<1>1. PICK e \in Events : \E i \in DOMAIN Settlements[e] :
              Loses(e, i) /\ CommandOf(x) = Charge(e, i)
  <2>1. CommandOf(x).action = "SETTLE_PICK" /\ Asked(CommandOf(x), journal)
    BY DEF CommandOf, OnlyChargesInv, RequestsInv, CommittedRequests
  <2>2. \A m \in ManualCommands : m.action # "SETTLE_PICK"
    BY LedgerAssumption
  <2>3. \A z : ReverseCommand(z).action # "SETTLE_PICK"
    BY DEF ReverseCommand
  <2> QED
    BY <2>1, <2>2, <2>3 DEF Asked
<1>2. PICK i \in DOMAIN Settlements[e] : Loses(e, i) /\ CommandOf(x) = Charge(e, i)
  BY <1>1
<1> DEFINE line == Settlements[e][i]
<1>3. line.user \in Users /\ line.stake \in Int
  <2>1. line \in SettlementLine
    BY LedgerAssumption
  <2> QED
    BY <2>1 DEF SettlementLine
<1> HIDE DEF line
<1>4. /\ x.key = <<"settle", e, line.user>>
      /\ LinesOf(x.lines) =
            << [owner |-> line.user, amount |-> line.stake, direction |-> "DEBIT"],
               [owner |-> "POOL", amount |-> line.stake, direction |-> "CREDIT"] >>
  BY <1>2 DEF CommandOf, Charge, SettleCommand, line
<1>5. x \in EntryRow
  BY DEF TypeInv, TypeOK
<1>6. /\ DOMAIN x.lines = {1, 2}
      /\ LineOf(x.lines[1]) =
            [owner |-> line.user, amount |-> line.stake, direction |-> "DEBIT"]
      /\ LineOf(x.lines[2]) =
            [owner |-> "POOL", amount |-> line.stake, direction |-> "CREDIT"]
  <2>1. Len(LinesOf(x.lines)) = 2 /\ Len(x.lines) = 2
    BY <1>4, <1>5, LinesOfEntry
  <2>2. DOMAIN x.lines = 1..2
    BY <1>5, <2>1, LinesOfEntry
  <2>3. 1 \in 1..Len(x.lines) /\ 2 \in 1..Len(x.lines)
    BY <2>1
  <2>4. /\ LinesOf(x.lines)[1] = LineOf(x.lines[1])
        /\ LinesOf(x.lines)[2] = LineOf(x.lines[2])
    BY <1>5, <2>3, LinesOfEntry
  <2> QED
    BY <1>4, <2>2, <2>4
<1>7. /\ x.lines[1].account \in accounts /\ x.lines[2].account \in accounts
      /\ x.lines[1].account.owner = line.user /\ x.lines[2].account.owner = "POOL"
      /\ Signed(x.lines[1]) = -line.stake
  <2>1. 1 \in 1..Len(x.lines) /\ 2 \in 1..Len(x.lines)
    BY <1>5, <1>6, LinesOfEntry
  <2>2. x.lines[1].account \in accounts /\ x.lines[2].account \in accounts
    BY <2>1 DEF RequestsInv, CommittedRequests
  <2> QED
    BY <1>6, <2>2 DEF LineOf, Signed
<1>8. /\ x.lines[1].account.id = a.id <=> line.user = a.owner
      /\ x.lines[2].account.id # a.id
  <2>1. \A b \in accounts : a.owner = b.owner \/ a.id = b.id => a = b
    BY DEF AccountsInv, OneAccountPerOwner
  <2>2. a.owner # "POOL"
    BY LedgerAssumption DEF SystemOwners
  <2> QED
    BY <1>7, <2>1, <2>2
<1>9. EffectOn(a, x) = IF line.user = a.owner THEN -line.stake ELSE 0
  <2>1. EffectOn(a, x) = SumOver(SignedOf(x), On(a, x))
    BY <1>5, EffectIsSum
  <2>2. CASE line.user = a.owner
    <3>1. On(a, x) = {1}
      BY <1>6, <1>8, <2>2 DEF On
    <3>2. SignedOf(x)[1] = -line.stake /\ -line.stake \in Int
      BY <1>3, <1>6, <1>7 DEF SignedOf
    <3>3. SumOver(SignedOf(x), {1}) = -line.stake
      BY <3>2, SumSingle
    <3> QED
      BY <2>1, <2>2, <3>1, <3>3
  <2>3. CASE line.user # a.owner
    <3>1. On(a, x) = {}
      BY <1>6, <1>8, <2>3 DEF On
    <3> QED
      BY <2>1, <2>3, <3>1, SumOfNone
  <2> QED
    BY <2>2, <2>3
<1>10. x.key = Charge(e, i).key
  BY <1>2 DEF CommandOf
<1> QED
  BY <1>2, <1>4, <1>9, <1>10 DEF line

\* What the entries of one event took from a player.
ClassOf == [x \in journal |-> x.key[2]]
TakenFrom(a) == [x \in journal |-> -EffectOn(a, x)]

LEMMA TakenByEvent ==
    ASSUME TypeInv, AccountsInv, RequestsInv, OnlyChargesInv, KeysUnique, LoopInv, StakesCount,
           NEW a \in accounts, a.owner \in Users, NEW e \in Events
    PROVE  LET taken == SumOver(TakenFrom(a), OfClass(journal, ClassOf, e)) IN
              /\ taken \in Nat /\ LostStake(a.owner, e) \in Nat
              /\ taken <= LostStake(a.owner, e)
              /\ e \in acked => taken = LostStake(a.owner, e)
<1> DEFINE C == OfClass(journal, ClassOf, e)
           G == TakenFrom(a)
           u == a.owner
<1>1. /\ C \in SUBSET journal /\ IsFiniteSet(C)
      /\ \A x \in C : x.key[2] = e
  <2>1. C \in SUBSET journal /\ \A x \in C : x.key[2] = e
    BY DEF OfClass, ClassOf
  <2>2. IsFiniteSet(journal)
    BY FiniteTables DEF RequestsInv
  <2> QED
    BY <2>1, <2>2, FS_Subset
<1>2. LostStake(u, e) \in Nat
  <2>1. CASE \E i : Loses(e, i) /\ Settlements[e][i].user = u
    <3>1. PICK i : Loses(e, i) /\ Settlements[e][i].user = u
      BY <2>1
    <3>2. LostStake(u, e) \in Int /\ LostStake(u, e) = Settlements[e][i].stake
      BY <3>1, LostStakeIs
    <3>3. LostStake(u, e) >= 0
      BY <3>1, <3>2 DEF StakesCount, Loses
    <3> QED
      BY <3>2, <3>3
  <2>2. CASE ~\E i : Loses(e, i) /\ Settlements[e][i].user = u
    BY <2>2, LostStakeIs
  <2> QED
    BY <2>1, <2>2
<1>3. ASSUME NEW x \in C
      PROVE  \E i \in DOMAIN Settlements[e] :
                /\ Loses(e, i) /\ x.key = <<"settle", e, Settlements[e][i].user>>
                /\ G[x] = IF Settlements[e][i].user = u THEN Settlements[e][i].stake ELSE 0
  <2>1. x \in journal /\ x.key[2] = e
    BY <1>1
  <2>2. \E i \in DOMAIN Settlements[e] :
              /\ Loses(e, i) /\ x.key = Charge(e, i).key
              /\ EffectOn(a, x) = IF Settlements[e][i].user = a.owner
                                  THEN -Settlements[e][i].stake ELSE 0
    BY <2>1, ChargeEffect
  <2>3. PICK i \in DOMAIN Settlements[e] :
              /\ Loses(e, i) /\ x.key = Charge(e, i).key
              /\ EffectOn(a, x) = IF Settlements[e][i].user = a.owner
                                  THEN -Settlements[e][i].stake ELSE 0
    BY <2>2
  <2>4. x.key = <<"settle", e, Settlements[e][i].user>>
    BY <2>3 DEF Charge, SettleCommand
  <2>5. G[x] = -EffectOn(a, x)
    BY <2>1 DEF TakenFrom
  <2>6. Settlements[e][i].stake \in Int
    <3>1. Settlements[e][i] \in SettlementLine
      BY LedgerAssumption
    <3> QED
      BY <3>1 DEF SettlementLine
  <2>7. G[x] = IF Settlements[e][i].user = u THEN Settlements[e][i].stake ELSE 0
    BY <2>3, <2>5, <2>6
  <2> QED
    BY <2>3, <2>4, <2>7
<1> DEFINE OfUser(x) == x.key = <<"settle", e, u>>
<1>4. ASSUME NEW x \in C, ~OfUser(x) PROVE G[x] = 0
  BY <1>3, <1>4
<1>5. ASSUME NEW x \in C, OfUser(x) PROVE G[x] = LostStake(u, e)
  <2>1. PICK i \in DOMAIN Settlements[e] :
                /\ Loses(e, i) /\ x.key = <<"settle", e, Settlements[e][i].user>>
                /\ G[x] = IF Settlements[e][i].user = u THEN Settlements[e][i].stake ELSE 0
    BY <1>3
  <2>2. Settlements[e][i].user = u
    BY <1>5, <2>1
  <2> QED
    BY <2>1, <2>2, LostStakeIs
<1>6. ASSUME NEW x \in C, OfUser(x), NEW y \in C \ {x} PROVE ~OfUser(y)
  BY <1>1, <1>6 DEF KeysUnique
<1> HIDE DEF C, G
<1>7. CASE \E x \in C : OfUser(x)
  <2>1. PICK x \in C : OfUser(x)
    BY <1>7
  <2>2. \A y \in C \ {x} : G[y] = 0
    BY <1>4, <1>6, <2>1
  <2>3. G[x] = LostStake(u, e) /\ G[x] \in Int
    BY <1>2, <1>5, <2>1
  <2>4. SumOver(G, C) = G[x]
    BY <1>1, <2>2, <2>3, SumOne
  <2> QED
    BY <1>2, <2>3, <2>4 DEF C, G
<1>8. CASE ~\E x \in C : OfUser(x)
  <2>1. SumOver(G, C) = 0
    BY <1>1, <1>4, <1>8, SumZero
  <2>2. ASSUME e \in acked PROVE LostStake(u, e) = 0
    <3>1. ASSUME NEW i, Loses(e, i), Settlements[e][i].user = u PROVE FALSE
      <4>1. PICK x \in journal : x.key = Charge(e, i).key
        BY <2>2, <3>1 DEF LoopInv, FullyCharged, Charged, Loses
      <4>2. OfUser(x)
        BY <3>1, <4>1 DEF Charge, SettleCommand
      <4>3. x \in C
        BY <4>2 DEF C, OfClass, ClassOf
      <4> QED
        BY <1>8, <4>2, <4>3
    <3> QED
      BY <3>1, LostStakeIs
  <2> QED
    BY <1>2, <2>1, <2>2 DEF C, G
<1> QED
  BY <1>7, <1>8

\* Event by event over the journal.
LEMMA LossesAreOwed ==
    ASSUME TypeInv, AccountsInv, RequestsInv, OnlyChargesInv, KeysUnique, LoopInv, StakesCount,
           ChargesWerePublished, PublishedInv, NEW a \in accounts, a.owner \in Users
    PROVE  /\ -BalanceOf(a) >= LostStakes(a.owner, acked)
           /\ -BalanceOf(a) <= LostStakes(a.owner, Published)
<1> DEFINE G == TakenFrom(a)
           P == Published
           H == [e \in P |-> SumOver(G, OfClass(journal, ClassOf, e))]
           L == [e \in P |-> LostStake(a.owner, e)]
           A == [e \in acked |-> LostStake(a.owner, e)]
           E == [x \in journal |-> EffectOn(a, x)]
<1>1. /\ journal \subseteq EntryRow /\ IsFiniteSet(journal)
      /\ P \in SUBSET Events /\ IsFiniteSet(P) /\ acked \in SUBSET P /\ IsFiniteSet(acked)
  <2>1. P \in SUBSET Events /\ IsFiniteSet(P) /\ acked \in SUBSET P
    BY DEF PublishedInv, Published
  <2>2. IsFiniteSet(acked)
    BY <2>1, FS_Subset
  <2> QED
    BY <2>1, <2>2, FiniteTables DEF TypeInv, TypeOK, RequestsInv
<1>2. \A x \in journal : E[x] \in Int /\ G[x] = -E[x] /\ G[x] \in Int
  <2>1. ASSUME NEW x \in journal PROVE EffectOn(a, x) \in Int
    BY <1>1, EffectIsSum
  <2> QED
    BY <2>1 DEF TakenFrom
<1>3. \A x \in journal : ClassOf[x] \in P
  <2>1. ASSUME NEW x \in journal PROVE x.key[2] \in P
    <3>1. x.key[2] \in Events
      BY ChargeEffect
    <3> QED
      BY <3>1 DEF ChargesWerePublished, OnlyChargesInv, Published
  <2> QED
    BY <2>1 DEF ClassOf
<1>4. \A e \in P : H[e] \in Nat /\ L[e] \in Nat /\ H[e] <= L[e] /\ (e \in acked => H[e] = L[e])
  <2>1. ASSUME NEW e \in P
        PROVE  H[e] \in Nat /\ L[e] \in Nat /\ H[e] <= L[e] /\ (e \in acked => H[e] = L[e])
    <3>1. e \in Events
      BY <1>1
    <3>2. H[e] = SumOver(G, OfClass(journal, ClassOf, e)) /\ L[e] = LostStake(a.owner, e)
      OBVIOUS
    <3> HIDE DEF H, L
    <3> QED
      BY <3>1, <3>2, TakenByEvent
  <2> QED
    BY <2>1
<1>5. \A e \in acked : A[e] = L[e]
  BY <1>1
<1>6. -BalanceOf(a) = SumOver(G, journal)
  <2>1. BalanceOf(a) = SumOver(E, journal)
    BY <1>1, BalanceIsSum
  <2> HIDE DEF G, E
  <2> QED
    BY <1>1, <1>2, <2>1, SumNegated
<1>7. LostStakes(a.owner, P) = SumOver(L, P)
  <2> HIDE DEF P
  <2> QED
    BY <1>1, LostStakesIsSum
<1>8. LostStakes(a.owner, acked) = SumOver(A, acked)
  <2>1. acked \in SUBSET Events
    BY <1>1
  <2> QED
    BY <1>1, <2>1, LostStakesIsSum
<1>9. \A e \in P : H[e] = SumOver(G, OfClass(journal, ClassOf, e))
  OBVIOUS
<1> HIDE DEF G, P, H, L, A, E
<1>10. SumOver(H, P) = SumOver(G, journal)
  BY <1>1, <1>2, <1>3, <1>9, SumByClass
<1>11. SumOver(H, P) <= SumOver(L, P)
  <2>1. \A e \in P : H[e] \in Int /\ L[e] \in Int /\ H[e] <= L[e]
    BY <1>4
  <2> QED
    BY <1>1, <2>1, SumAtMost
<1>12. SumOver(A, acked) <= SumOver(H, P)
  <2>1. \A e \in acked : A[e] = H[e]
    BY <1>1, <1>4, <1>5
  <2>2. SumOver(A, acked) = SumOver(H, acked)
    BY <1>1, <2>1, SumSame
  <2>3. SumOver(H, acked) <= SumOver(H, P)
    BY <1>1, <1>4, SumPart
  <2> QED
    BY <2>2, <2>3
<1>13. SumOver(A, acked) \in Int /\ SumOver(H, P) \in Int
  <2>1. \A e \in acked : A[e] \in Int
    BY <1>1, <1>4, <1>5
  <2>2. \A e \in P : H[e] \in Int
    BY <1>4
  <2> QED
    BY <1>1, <2>1, <2>2, SumType
<1> QED
  BY <1>6, <1>7, <1>8, <1>10, <1>11, <1>12, <1>13 DEF P

\* Where no administrator writes entries, a player's balance is minus the stakes
\* lost: at least those of the acknowledged events, at most those of the published
\* ones, whatever is redelivered, retried, raced, lost or restarted.
THEOREM LossesChargedOnce ==
    ASSUME Admins = {}, StakesCount
    PROVE  Spec => []PlayersOweTheirLosses
<1>1. Spec => []OnlyChargesInv
  BY OnlyCharges DEF OnlyChargesInv
<1>2. ASSUME TypeInv, AccountsInv, RequestsInv, OnlyChargesInv, KeysInv, LoopInv, DeliveredInv,
             PublishedInv
      PROVE  PlayersOweTheirLosses
  <2>1. KeysUnique /\ ChargesWerePublished
    BY <1>2 DEF KeysInv, DeliveredInv
  <2>2. ASSUME NEW a \in accounts, a.owner \in Users
        PROVE  /\ -BalanceOf(a) >= LostStakes(a.owner, acked)
               /\ -BalanceOf(a) <= LostStakes(a.owner, {e \in Events : sent[e] > 0})
    <3>1. {e \in Events : sent[e] > 0} = Published
      BY DEF Published
    <3> QED
      BY <1>2, <2>1, <2>2, <3>1, LossesAreOwed
  <2> QED
    BY <2>2 DEF PlayersOweTheirLosses
<1>3. Init => DeliveredInv
  BY EmptyRecords DEF Init, NoJob, Workers, DeliveredInv, ChargesWerePublished
<1> QED
  BY <1>1, <1>2, <1>3, InitTypeInv, NextTypeInv, InitRequestsInv, NextRequestsInv,
     InitAccountsInv, NextAccountsInv, InitKeysInv, NextKeysInv, NextLoopInv,
     NextDeliveredInv, InitPublishedInv, NextPublishedInv, NextEntryStep, PTL DEF Spec

=============================================================================
