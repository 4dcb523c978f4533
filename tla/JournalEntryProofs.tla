------------------------- MODULE JournalEntryProofs -------------------------
(***************************************************************************)
(* Theorems about the validation of a journal entry, for requests of any   *)
(* length and longs of any width.                                          *)
(***************************************************************************)
EXTENDS MCJournalEntry, Sums

\* A request is a sequence of lines.
Request == [amount : Amounts, direction : Directions]

LinesType == lines \in Seq(Request)

LEMMA InitLinesType == Init => LinesType
  BY DEF Init, LinesType

LEMMA NextLinesType == LinesType /\ [Next]_lines => LinesType'
<1> SUFFICES ASSUME LinesType, [Next]_lines PROVE LinesType'
  OBVIOUS
<1>1. CASE UNCHANGED lines
  BY <1>1 DEF LinesType
<1>2. ASSUME NEW amount \in Amounts, NEW direction \in Directions,
             AddLine(amount, direction)
      PROVE  LinesType'
  <2>1. [amount |-> amount, direction |-> direction] \in Request
    BY DEF Request
  <2> QED
    BY <1>2, <2>1 DEF AddLine, LinesType
<1> QED
  BY <1>1, <1>2 DEF Next

LEMMA RequestsTyped == Spec => []LinesType
<1> QED
  BY InitLinesType, NextLinesType, PTL DEF Spec

\* What is known of the lines of a request.
LEMMA RequestLines ==
    ASSUME LinesType
    PROVE  \A i \in DOMAIN lines :
              /\ i \in 1..Len(lines)
              /\ lines[i] \in Request
              /\ lines[i].amount \in Nat
              /\ lines[i].direction \in {"DEBIT", "CREDIT"}
<1>1. ASSUME NEW line \in Request
      PROVE  line.amount \in Nat /\ line.direction \in {"DEBIT", "CREDIT"}
  BY MaxLongAssumption DEF Request, Amounts, Directions
<1>2. \A i \in DOMAIN lines : i \in 1..Len(lines) /\ lines[i] \in Request
  BY DEF LinesType
<1> QED
  BY <1>1, <1>2

-----------------------------------------------------------------------------
\* What validateBalanced compares.
LEMMA Comparison ==
    ASSUME LinesType
    PROVE  /\ \A direction \in Directions :
                  /\ Total(lines, direction) \in Nat
                  /\ LongTotal(lines, direction) = Wrap(Total(lines, direction))
           /\ ValidateBalanced(lines) <=>
                  WellFormed /\ Wrap(Total(lines, "DEBIT")) = Wrap(Total(lines, "CREDIT"))
<1>1. lines \in Seq(Request) /\ \A i \in DOMAIN lines : lines[i].amount \in Nat
  BY RequestLines DEF LinesType
<1>2. \A direction \in Directions :
         /\ Total(lines, direction) \in Nat
         /\ LongTotal(lines, direction) = Wrap(Total(lines, direction))
  BY <1>1, TotalNat, LongTotalWraps
<1>3. "DEBIT" \in Directions /\ "CREDIT" \in Directions
  BY DEF Directions
<1> QED
  BY <1>2, <1>3 DEF ValidateBalanced, WellFormed

\* PostingService.validateBalanced accepts exactly the balanced requests, as long
\* as each total fits into a long (ValidatesBalance), however many lines they have.
LEMMA TypedValidatesBalance == LinesType => ValidatesBalance
<1> SUFFICES ASSUME LinesType,
                    \A direction \in Directions : Total(lines, direction) <= MaxLong
             PROVE  ValidateBalanced(lines) <=> WellFormed /\ Balanced(lines)
  BY DEF ValidatesBalance
<1>1. \A direction \in Directions : Wrap(Total(lines, direction)) = Total(lines, direction)
  <2>1. \A direction \in Directions : Total(lines, direction) \in 0..MaxLong
    BY Comparison, MaxLongAssumption
  <2> QED
    BY <2>1, FitsInLong
<1>2. "DEBIT" \in Directions /\ "CREDIT" \in Directions
  BY DEF Directions
<1> QED
  BY <1>1, <1>2, Comparison DEF Balanced

\* Whatever the totals are, PostingService.validateBalanced compares them modulo the
\* range of a long (OffByWholeLongs): wrapping around line after line is wrapping
\* around once.
LEMMA TypedOffByWholeLongs == LinesType => OffByWholeLongs
<1> SUFFICES ASSUME LinesType PROVE OffByWholeLongs
  OBVIOUS
<1>1. Total(lines, "DEBIT") \in Int /\ Total(lines, "CREDIT") \in Int
  BY Comparison DEF Directions
<1> QED
  BY <1>1, Comparison, WrapCongruent DEF OffByWholeLongs

\* Whatever request is made, of any length: as long as each total fits into a long,
\* PostingService.validateBalanced accepts it exactly when it has two lines, amounts
\* above zero and as much money going out of accounts as into accounts.
THEOREM ValidationIsExact == Spec => []ValidatesBalance
  BY RequestsTyped, TypedValidatesBalance, PTL

\* Whatever request is made, of any length and with any totals: what
\* PostingService.validateBalanced accepts has two lines, amounts above zero and
\* totals that differ by a multiple of 2^64, and all such requests are accepted.
THEOREM ValidationIsModular == Spec => []OffByWholeLongs
  BY RequestsTyped, TypedOffByWholeLongs, PTL

\* LedgerService.reverse can always reverse what was accepted, wrapped totals
\* included, and a reversal of the reversal is the entry again (ReversalAccepted).
LEMMA TypedReversalAccepted == LinesType => ReversalAccepted
<1> SUFFICES ASSUME LinesType, ValidateBalanced(lines)
             PROVE  ValidateBalanced(Flipped(lines)) /\ Flipped(Flipped(lines)) = lines
  BY DEF ReversalAccepted
<1> DEFINE flipped == Flipped(lines)
<1>1. /\ lines \in Seq(Request) /\ Len(lines) \in Nat
      /\ DOMAIN lines = 1..Len(lines)
      /\ \A i \in 1..Len(lines) :
            /\ lines[i] \in Request
            /\ lines[i].amount \in Nat
            /\ lines[i].direction \in {"DEBIT", "CREDIT"}
  BY RequestLines, Positions DEF LinesType
<1>2. ASSUME NEW i \in 1..Len(lines)
      PROVE  /\ flipped[i] = [lines[i] EXCEPT !.direction = FlipDirection(lines[i].direction)]
             /\ flipped[i] \in Request
             /\ flipped[i].amount = lines[i].amount
             /\ flipped[i].direction = FlipDirection(lines[i].direction)
  BY <1>1 DEF Flipped, Request, Directions, FlipDirection
<1>3. flipped \in Seq(Request) /\ Len(flipped) = Len(lines) /\ DOMAIN flipped = 1..Len(lines)
  <2>1. flipped = [i \in 1..Len(lines) |-> flipped[i]]
    BY <1>1 DEF Flipped
  <2> HIDE DEF flipped
  <2> QED
    BY <1>1, <1>2, <2>1
<1>4. \A i \in 1..Len(lines) :
         /\ flipped[i].direction = "CREDIT" <=> lines[i].direction = "DEBIT"
         /\ flipped[i].direction = "DEBIT" <=> lines[i].direction = "CREDIT"
  BY <1>1, <1>2 DEF FlipDirection
<1>5. ValidateBalanced(flipped)
  <2> HIDE DEF flipped
  <2>1. LongTotal(flipped, "CREDIT") = LongTotal(lines, "DEBIT")
    BY <1>1, <1>2, <1>3, <1>4, LongTotalSwapped
  <2>2. LongTotal(flipped, "DEBIT") = LongTotal(lines, "CREDIT")
    BY <1>1, <1>2, <1>3, <1>4, LongTotalSwapped
  <2> QED
    BY <1>1, <1>2, <1>3, <2>1, <2>2 DEF ValidateBalanced
<1>6. Flipped(flipped) = lines
  <2>1. ASSUME NEW i \in 1..Len(lines) PROVE Flipped(flipped)[i] = lines[i]
    <3>1. Flipped(flipped)[i] = [flipped[i] EXCEPT !.direction = FlipDirection(flipped[i].direction)]
      <4> HIDE DEF flipped
      <4> QED
        BY <1>3 DEF Flipped
    <3> HIDE DEF flipped
    <3>2. FlipDirection(flipped[i].direction) = lines[i].direction
      BY <1>1, <1>2 DEF FlipDirection
    <3>3. lines[i] \in Request
      BY <1>1
    <3>4. Flipped(flipped)[i]
            = [[lines[i] EXCEPT !.direction = FlipDirection(lines[i].direction)]
                  EXCEPT !.direction = lines[i].direction]
      BY <1>2, <3>1, <3>2
    <3>5. \A line \in Request :
             [[line EXCEPT !.direction = FlipDirection(line.direction)]
                 EXCEPT !.direction = line.direction] = line
      BY DEF Request
    <3> QED
      BY <3>3, <3>4, <3>5
  <2>2. Flipped(flipped) = [i \in 1..Len(lines) |-> Flipped(flipped)[i]]
    <3> HIDE DEF flipped
    <3> QED
      BY <1>3 DEF Flipped
  <2>3. lines = [i \in 1..Len(lines) |-> lines[i]]
    BY <1>1
  <2> QED
    BY <2>1, <2>2, <2>3
<1> QED
  BY <1>5, <1>6

\* Whatever request was accepted, of any length and with wrapped totals or without:
\* PostingService.validateBalanced accepts its reversal, and that of the reversal.
THEOREM ReversalsPassValidation == Spec => []ReversalAccepted
  BY RequestsTyped, TypedReversalAccepted, PTL

=============================================================================
