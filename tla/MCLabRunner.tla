---------------------------- MODULE MCLabRunner ----------------------------
(* Instances of LabProperties for TLC. *)
EXTENDS LabProperties, TLC

CONSTANTS s1, s2

OneStrategy == {s1}
OneRoster == {{s1}}
CapTwo == [s \in {s1} |-> 2]
CapOne == [s \in {s1} |-> 1]

\* legs that all expire on the entry day, and a front and a back leg
Shapes == {{0}, {0, 1}}
=============================================================================
