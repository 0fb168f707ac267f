------------------------ MODULE MCPreemptiveLocker ------------------------
(* Instances of PreemptiveLocker for TLC: one unit of time is 5 seconds, so  *)
(* that the durations of the configurations are the defaults of locker.go.   *)
EXTENDS PreemptiveLocker, TLC

CONSTANTS a, b, c

TwoLockers == {a, b}
ThreeLockers == {a, b, c}
NoDirect == {}
OneReaper == {c}

EveryFault == FaultKinds
NoFault == {}
AfterListen == FaultKinds \ {"db"}

LockerSymmetry == Permutations({a, b})

=============================================================================
