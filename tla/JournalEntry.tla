---------------------------- MODULE JournalEntry ----------------------------
(***************************************************************************)
(* One double-entry journal entry as PostingService sees it before it      *)
(* touches the database: a sequence of posting lines, the validation that  *)
(* must reject an unbalanced sequence, and the flip a reversal is built    *)
(* from.  Amounts are Java longs: sums wrap around modulo 2^64.  The width *)
(* is the parameter MaxLong (2^63 - 1 in the code), so that a model can    *)
(* reach the wrap-around with small amounts.                               *)
(***************************************************************************)
EXTENDS Integers, Sequences

SetsExt == INSTANCE FiniteSetsExt

CONSTANT MaxLong    \* Long.MAX_VALUE

ASSUME MaxLongAssumption == MaxLong \in Nat \ {0}

Directions == {"DEBIT", "CREDIT"}

LongRange == 2 * (MaxLong + 1)    \* how many longs there are: 2^64

\* Defect: the totals are kept in an int, which has half the bits.
WrapNarrow(x) == ((x + LongRange \div 4) % (LongRange \div 2)) - LongRange \div 4

\* Two's-complement addition keeps the low bits: the value of x as a long.
Wrap(x) == ((x + MaxLong + 1) % LongRange) - MaxLong - 1

\* What the validation loop accumulates for one direction, line after
\* line: a long.
LongTotal(lines, direction) ==
    LET sum[n \in 0..Len(lines)] ==
            IF n = 0 THEN 0
            ELSE IF lines[n].direction = direction THEN Wrap(sum[n - 1] + lines[n].amount)
            ELSE sum[n - 1]
    IN  sum[Len(lines)]

\* The amount of money the lines move in one direction: an integer.
Total(lines, direction) ==
    SetsExt!MapThenSumSet(LAMBDA i : lines[i].amount,
                  {i \in DOMAIN lines : lines[i].direction = direction})

\* Defect: zero amounts pass.
ValidateAllowingZero(lines) ==
    /\ Len(lines) >= 2
    /\ \A i \in DOMAIN lines : lines[i].amount >= 0
    /\ LongTotal(lines, "DEBIT") = LongTotal(lines, "CREDIT")

\* PostingService.validateBalanced: TRUE iff it returns without throwing
\* UnbalancedEntryException.
ValidateBalanced(lines) ==
    /\ Len(lines) >= 2
    /\ \A i \in DOMAIN lines : lines[i].amount > 0
    /\ LongTotal(lines, "DEBIT") = LongTotal(lines, "CREDIT")

\* What validateBalanced stands for: the lines of an entry move as much money
\* out of accounts as into accounts.
Balanced(lines) == Total(lines, "DEBIT") = Total(lines, "CREDIT")

\* Defect: credits are not flipped.
FlipDebitsOnly(direction) == "CREDIT"

FlipDirection(direction) == IF direction = "DEBIT" THEN "CREDIT" ELSE "DEBIT"

=============================================================================
