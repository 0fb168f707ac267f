--------------------------- MODULE MCEventStatus ---------------------------
(* Instances of EventStatus for TLC: an application and a dependency, one or *)
(* both of them built, and the single chart of another environment.         *)
EXTENDS EventStatus, TLC

CONSTANTS a, b, c

TwoNodes == {a, b}
OneBuilt == {a}
OtherNode == {c}

=============================================================================
