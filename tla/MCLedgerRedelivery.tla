------------------------- MODULE MCLedgerRedelivery -------------------------
(***************************************************************************)
(* The listener alone: two threads, two events that share a losing player, *)
(* redeliveries, retries, orphaned threads and restarts.                   *)
(***************************************************************************)
EXTENDS Ledger, TLC

CONSTANTS u1, u2, e1, e2, c1, c2

MCUsers == {u1, u2}
MCEvents == {e1, e2}
MCConsumers == {c1, c2}
MCAdmins == {}
MCManualCommands == {}
MCSettlements ==
    e1 :> << [user |-> u1, result |-> "LOST", stake |-> 1],
             [user |-> u2, result |-> "LOST", stake |-> 2] >>
    @@ e2 :> << [user |-> u2, result |-> "WON", stake |-> 1],
                [user |-> u1, result |-> "LOST", stake |-> 3] >>

ThreadSymmetry == Permutations(MCConsumers)

=============================================================================
