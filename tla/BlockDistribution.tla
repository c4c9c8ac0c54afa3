---- MODULE BlockDistribution ----
(***************************************************************************)
(* The distribution by blocks of a simulation's bodies among its           *)
(* processes: Util::calculateStart() and Util::calculateFinish().  The     *)
(* remainder of the division goes to the processes of the lowest ranks.    *)
(***************************************************************************)
EXTENDS Integers

(* Faulty variant: the remainder is not distributed.                       *)
StartWithoutResidue(rank, work, workers) == rank * (work \div workers)

\* The first index of a process, from 0.
CalculateStart(rank, work, workers) ==
    LET residue == work % workers
        added == IF rank < residue THEN rank ELSE residue
    IN  rank * (work \div workers) + added

\* The index after its last.
CalculateFinish(rank, work, workers) == CalculateStart(rank + 1, work, workers)

Block(rank, work, workers) ==
    CalculateStart(rank, work, workers) .. CalculateFinish(rank, work, workers) - 1

====
