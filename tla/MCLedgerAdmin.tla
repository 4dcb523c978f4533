---------------------------- MODULE MCLedgerAdmin ----------------------------
(***************************************************************************)
(* Two administrators and the listener share the tables: manual entries    *)
(* that open the same players' accounts in opposite orders, one of them    *)
(* under the key that the charge of the event needs, one under that of the *)
(* first entry's reversal; reversals of settlements, of manual entries and *)
(* of reversals.                                                           *)
(***************************************************************************)
EXTENDS Ledger, TLC

CONSTANTS u1, u2, e1, c1, a1, a2

MCUsers == {u1, u2}
MCEvents == {e1}
MCConsumers == {c1}
MCAdmins == {a1, a2}
MCSettlements == e1 :> << [user |-> u1, result |-> "LOST", stake |-> 2] >>

Transfer(key, from, to) ==
    [key    |-> key,
     action |-> "MANUAL_ENTRY",
     lines  |-> << [owner |-> from, amount |-> 1, direction |-> "DEBIT"],
                   [owner |-> to, amount |-> 1, direction |-> "CREDIT"] >>]

MCManualCommands ==
    {Transfer(<<"manual">>, u1, u2),
     Transfer(<<"reverse", 1>>, u1, u2), Transfer(<<"settle", e1, u1>>, u2, u1)}

AdminSymmetry == Permutations(MCAdmins)

=============================================================================
