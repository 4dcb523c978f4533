---------------------------- MODULE MCPrediction ----------------------------
(***************************************************************************)
(* Names for small instances: up to two players, groups and matches.       *)
(***************************************************************************)
EXTENDS Prediction, TLC

CONSTANTS u1, u2, g1, g2, m1, m2, r1, a1

\* Players are interchangeable.
PlayerSymmetry == Permutations({u1, u2})

=============================================================================
