------------------------------ MODULE MCFleet ------------------------------
EXTENDS Fleet

CONSTANTS a, b

TwoPrs == {a, b}

\* Which pull request is the first makes no difference.
AFirst == creates = 0 => pc'[b] = "idle"
MCSpec == Init /\ [][Next /\ AFirst]_vars /\ Fairness
=============================================================================
