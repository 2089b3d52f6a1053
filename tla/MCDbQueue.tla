----------------------------- MODULE MCDbQueue -----------------------------
(* Small instances of the database-queue deployment.                       *)
EXTENDS DbQueue, TLC

CONSTANTS a1, a2, w1, w2, t1, posting

OneApp     == {a1}
TwoApps    == {a1, a2}
OneJobOf   == [a \in OneApp |-> posting]
SameJobOf  == [a \in TwoApps |-> posting]
LegacyRow  == {a1}
OneWorker  == {w1}
TwoWorkers == {w1, w2}
OneTab     == {t1}
RerunStatus    == {"withdrawn", "queued"}
Withdraw   == {"withdrawn"}

Symmetric == Permutations(TwoWorkers)
=============================================================================
