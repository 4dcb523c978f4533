----------------------------- MODULE CommonPool -----------------------------
(***************************************************************************)
(* What the three services promise together: picks are locked and          *)
(* announced, a match gets one result, and a player whose locked pick lost *)
(* owes the common pool one stake for the match (docs/adr/0009).           *)
(***************************************************************************)
EXTENDS Integers

CONSTANTS Users, Matches, Outcomes, Null, Stake

VARIABLES
    locked,    \* announced picks: [match, user, predicted]
    result,    \* the outcome of each match, Null while unknown
    owed       \* owed[m][u]: what player u has been charged for match m

LockedPick == [match : Matches, user : Users, predicted : Outcomes \cup {Null}]

Init ==
    /\ locked = {}
    /\ result = [m \in Matches |-> Null]
    /\ owed = [m \in Matches |-> [u \in Users |-> 0]]

Announce ==
    /\ locked \subseteq locked' /\ locked' \subseteq LockedPick
    /\ UNCHANGED <<result, owed>>

Settle(m, outcome) ==
    /\ result[m] = Null
    /\ result' = [result EXCEPT ![m] = outcome]
    /\ UNCHANGED <<locked, owed>>

Lost(m, u) ==
    \E pick \in locked : pick.match = m /\ pick.user = u /\ pick.predicted # result[m]

Charge(m, u) ==
    /\ result[m] # Null
    /\ Lost(m, u)
    /\ owed[m][u] = 0
    /\ owed' = [owed EXCEPT ![m][u] = Stake]
    /\ UNCHANGED <<locked, result>>

Next ==
    \/ Announce
    \/ \E m \in Matches, outcome \in Outcomes : Settle(m, outcome)
    \/ \E m \in Matches, u \in Users : Charge(m, u)

Spec == Init /\ [][Next]_<<locked, result, owed>>

=============================================================================
