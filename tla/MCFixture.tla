------------------------------ MODULE MCFixture ------------------------------
(***************************************************************************)
(* Two groups predict the same match and share a player; a second player   *)
(* made no prediction.                                                     *)
(***************************************************************************)
EXTENDS Fixture, TLC

CONSTANTS m1, u1, u2, l1, l2, g1, g2, a1, a2

Pick(user, predicted, stake) == [user |-> user, predicted |-> predicted, stake |-> stake]

MCLocked ==
    l1 :> [match |-> m1, group |-> g1, picks |-> {Pick(u1, "HOME", 1), Pick(u2, Null, 1)}]
    @@ l2 :> [match |-> m1, group |-> g2, picks |-> {Pick(u1, "AWAY", 2)}]

HomeWinOrDraw == {[home |-> 1, away |-> 0], [home |-> 0, away |-> 0]}

AdminSymmetry == Permutations({a1, a2})

=============================================================================
