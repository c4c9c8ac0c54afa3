---- MODULE MCWorkerNode ----
(***************************************************************************)
(* WorkerNode for TLC.                                                     *)
(***************************************************************************)
EXTENDS WorkerNode

CONSTANTS c1, c2, u1, u2, u3, u4, u5

TwoCalculators == {c1, c2}
FourUnits == {u1, u2, u3, u4}
FiveUnits == FourUnits \cup {u5}

====
