---------------------------- MODULE AtomicLedger ----------------------------
(***************************************************************************)
(* What the ledger promises to the rest of the system, without threads,    *)
(* transactions, account rows or queues: a book of entries in which each  *)
(* idempotency key is used once, each entry moves the money its request    *)
(* asked for, at once or not at all, and an event is done only when all    *)
(* its losing lines are in the book.                                       *)
(***************************************************************************)
EXTENDS Integers, Sequences

CONSTANTS
    Users, Events, Settlements,
    ManualCommands    \* entries an administrator may submit: [key, action, lines]

VARIABLES
    book,    \* entries: [id, key, action, lines], lines name owners
    done     \* events settled and out of the queue

Init == book = {} /\ done = {}

Debit(owner, amount) == [owner |-> owner, amount |-> amount, direction |-> "DEBIT"]
Credit(owner, amount) == [owner |-> owner, amount |-> amount, direction |-> "CREDIT"]

Opposite(line) ==
    IF line.direction = "DEBIT" THEN Credit(line.owner, line.amount)
                                ELSE Debit(line.owner, line.amount)

\* x charges a losing line: the player owes the stake to the pool.
Settles(x) ==
    \E e \in Events : \E i \in DOMAIN Settlements[e] :
        LET line == Settlements[e][i] IN
        /\ line.result = "LOST"
        /\ x.key = <<"settle", e, line.user>>
        /\ x.action = "SETTLE_PICK"
        /\ x.lines = << Debit(line.user, line.stake), Credit("POOL", line.stake) >>

\* x is an entry an administrator asked for.
IsManual(x) ==
    \E m \in ManualCommands :
        x.key = m.key /\ x.action = "MANUAL_ENTRY" /\ x.lines = m.lines

\* x corrects an entry of the book.
Reverses(x) ==
    \E original \in book :
        /\ x.key = <<"reverse", original.id>>
        /\ x.action = "REVERSE"
        /\ x.lines = [i \in DOMAIN original.lines |-> Opposite(original.lines[i])]

\* One entry is added whole, under an id and a key that no entry has.
Write(x) ==
    /\ \A y \in book : y.id # x.id /\ y.key # x.key
    /\ Settles(x) \/ IsManual(x) \/ Reverses(x)
    /\ book' = book \cup {x}
    /\ UNCHANGED done

Settled(e) ==
    \A i \in DOMAIN Settlements[e] :
        Settlements[e][i].result = "LOST" =>
            \E x \in book : x.key = <<"settle", e, Settlements[e][i].user>>

\* An event is finished with once nothing of it is left to charge.
Finish(e) ==
    /\ Settled(e)
    /\ done' = done \cup {e}
    /\ UNCHANGED book

Next ==
    \/ \E x \in book' : Write(x)
    \/ \E e \in Events : Finish(e)

Spec == Init /\ [][Next]_<<book, done>>

=============================================================================
