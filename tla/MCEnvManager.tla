--------------------------- MODULE MCEnvManager ---------------------------
(* Instances of EnvManager for TLC: two to four calls of any kind.         *)
EXTENDS EnvManager, TLC

CONSTANTS a, b, c, d

TwoOps == {a, b}
ThreeOps == {a, b, c}
FourOps == {a, b, c, d}

NoFailure == {}
EveryFailure == FailureKinds
OperationErrors == {"config", "charts", "install"}

OpSymmetry == Permutations(Ops)

=============================================================================
