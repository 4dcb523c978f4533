--------------------------- MODULE MCJournalEntry ---------------------------
(***************************************************************************)
(* PostingService.validateBalanced against its reference, over every       *)
(* sequence of at most MaxLines lines: a request is built line by line.    *)
(***************************************************************************)
EXTENDS JournalEntry

CONSTANT MaxLines    \* bound: lines of a request

VARIABLE lines

Amounts == 0..MaxLong

Init == lines = <<>>

AddLine(amount, direction) ==
    /\ Len(lines) < MaxLines
    /\ lines' = Append(lines, [amount |-> amount, direction |-> direction])

Next == \E amount \in Amounts, direction \in Directions : AddLine(amount, direction)

Spec == Init /\ [][Next]_lines

\* Lines that PostingService could post: two of them, with positive amounts.
WellFormed == Len(lines) >= 2 /\ \A i \in DOMAIN lines : lines[i].amount > 0

\* As long as each of the two totals fits into a long, validateBalanced accepts
\* exactly the requests with at least two lines, positive amounts and equal totals.
ValidatesBalance ==
    (\A direction \in Directions : Total(lines, direction) <= MaxLong) =>
        (ValidateBalanced(lines) <=> WellFormed /\ Balanced(lines))

\* Whatever the totals are, validateBalanced never refuses a balanced request, and
\* what it accepts is off balance by a multiple of 2^64 if it is off at all: the
\* wrap-around of the two totals, line after line, loses nothing else.
OffByWholeLongs ==
    ValidateBalanced(lines) <=>
        /\ WellFormed
        /\ (Total(lines, "DEBIT") - Total(lines, "CREDIT")) % LongRange = 0

\* An accepted entry, one with wrapped totals included, can be reversed: the
\* flipped lines are accepted in turn (LedgerService.reverse posts through the
\* same validation), and flipping them again gives the entry back.
Flipped(ls) == [i \in DOMAIN ls |-> [ls[i] EXCEPT !.direction = FlipDirection(@)]]

ReversalAccepted ==
    ValidateBalanced(lines) =>
        ValidateBalanced(Flipped(lines)) /\ Flipped(Flipped(lines)) = lines

=============================================================================
