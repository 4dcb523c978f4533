-------------------------------- MODULE MCSaga --------------------------------
(***************************************************************************)
(* Small instances of the whole system.  The home team wins, so a player   *)
(* without a prediction loses.                                             *)
(***************************************************************************)
EXTENDS Saga, TLC

CONSTANTS u1, u2, g1, g2, m1, r1, a1, c1

HomeWin == {[home |-> 1, away |-> 0]}

=============================================================================
