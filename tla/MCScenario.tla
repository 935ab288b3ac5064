------------------------------ MODULE MCScenario ------------------------------
(* What the scenarios of the request-handler components share: the rows a   *)
(* scenario starts from decide which component can move.                    *)
EXTENDS Database

CONSTANTS s1, s2   \* two sessions: the requests of a scenario may overlap

New(kind, n) == [d \in {<<kind, k>> : k \in 1..n} |-> NoRow]
Zero(keys) == [k \in keys |-> 0]
Idling(sessions) == [s \in sessions |-> Idle]

T == INSTANCE TLC
Symmetry == T!Permutations({s1, s2})
=============================================================================
