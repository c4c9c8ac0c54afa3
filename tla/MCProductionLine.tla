---- MODULE MCProductionLine ----
(***************************************************************************)
(* ProductionLine for TLC.  The configurations choose from these sets.     *)
(***************************************************************************)
EXTENDS ProductionLine

CONSTANTS h1, h2, c1, c2, k1, w1, w2, r0, r1, r2

OneHandler == {h1}
TwoHandlers == {h1, h2}
OneCalculator == {c1}
TwoCalculators == {c1, c2}
OneWorkerHandler == {k1}
NoWorker == {}
OneWorker == {w1}
TwoWorkers == {w1, w2}

(* r0 asks about nothing, r1 about one number and r2 about two.            *)
AllRequests == {r0, r1, r2}
Calculations == {r1, r2}
BigRequest == {r2}

NumbersOf(R) == [r \in R |-> CASE r = r0 -> 0 [] r = r1 -> 1 [] r = r2 -> 2]
NumbersOfAll == NumbersOf(AllRequests)
NumbersOfCalculations == NumbersOf(Calculations)
NumbersOfBig == NumbersOf(BigRequest)

====
