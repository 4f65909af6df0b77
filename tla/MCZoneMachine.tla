---------------------------- MODULE MCZoneMachine ---------------------------
(* Values of the constants of ZoneMachine for TLC. *)
EXTENDS ZoneProperties, TLC

CONSTANTS k1, l1, l2, l3, l4

\* Frames of 1, 2 and 6 minutes; every level is near every zone.
Frame126 == [M1 |-> 1, M5 |-> 2, M15 |-> 6]

\* Levels are interchangeable.
Symmetry == Permutations(Levels)

\* The frames of the code.
Frame1515 == [M1 |-> 1, M5 |-> 5, M15 |-> 15]
AllNear == [k \in Keys |-> Levels]
=============================================================================
