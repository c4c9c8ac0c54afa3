---- MODULE NBodyProofs ----
(***************************************************************************)
(* What holds of a simulation with any number of bodies and processes: the *)
(* blocks of the processes are the universe; a job reports only about      *)
(* universes that every process could load; the collective calls match;    *)
(* every process keeps the bodies of its block, whatever collides; the     *)
(* file of final states is written whole and in order; the distances that  *)
(* are reported are those of each pair of active bodies, once; the count   *)
(* of active bodies is right; and every active body is pulled by every     *)
(* other one, once, before it moves.                                       *)
(***************************************************************************)
EXTENDS NBody, TLAPS, WellFoundedInduction, FiniteSetTheorems, SequenceTheorems

---------------------------------------------------------------------------
(* Distribution by blocks *)

(* What division with remainder is.                                        *)
LEMMA Division ==
    ASSUME NEW a \in Nat, NEW b \in Nat \ {0}
    PROVE  /\ a \div b \in Nat
           /\ a % b \in 0 .. b - 1
           /\ a = b * (a \div b) + (a % b)
    OBVIOUS

(* Multiplication keeps the order of natural numbers.                      *)
LEMMA TimesMonotonic ==
    ASSUME NEW a \in Nat, NEW b \in Nat, NEW c \in Nat, a <= b
    PROVE  a * c <= b * c
<1>1. (b - a) * c >= 0
    OBVIOUS
<1>2. (b - a) * c = b * c - a * c
    OBVIOUS
<1> QED
    BY <1>1, <1>2

(* The indexes are natural numbers; the first process starts at 0, and the *)
(* last one finishes at the end.                                           *)
LEMMA BlockEnds ==
    ASSUME NEW work \in Nat, NEW workers \in Nat \ {0}
    PROVE  /\ \A rank \in Nat : CalculateStart(rank, work, workers) \in Nat
           /\ CalculateStart(0, work, workers) = 0
           /\ CalculateStart(workers, work, workers) = work
<1> DEFINE q == work \div workers
           m == work % workers
<1>1. q \in Nat /\ m \in Nat /\ m < workers /\ work = workers * q + m
    BY Division
<1>2. \A rank \in Nat : rank * q \in Nat
    BY <1>1
<1>3. \A rank \in Nat : CalculateStart(rank, work, workers)
                           = rank * q + (IF rank < m THEN rank ELSE m)
    BY DEF CalculateStart
<1> HIDE DEF q, m
<1>4. 0 * q = 0
    BY <1>1
<1> QED
    BY <1>1, <1>2, <1>3, <1>4

(* A block has a body for its rank among the remainder, beside its share.  *)
LEMMA BlockSize ==
    ASSUME NEW work \in Nat, NEW workers \in Nat \ {0}, NEW rank \in Nat
    PROVE  CalculateFinish(rank, work, workers) - CalculateStart(rank, work, workers)
             = (work \div workers) + (IF rank < work % workers THEN 1 ELSE 0)
<1> DEFINE q == work \div workers
           m == work % workers
<1>1. q \in Nat /\ m \in Nat
    BY Division
<1>2. /\ CalculateStart(rank, work, workers) = rank * q + (IF rank < m THEN rank ELSE m)
      /\ CalculateFinish(rank, work, workers)
           = (rank + 1) * q + (IF rank + 1 < m THEN rank + 1 ELSE m)
    BY DEF CalculateStart, CalculateFinish
<1> HIDE DEF q, m
<1>3. (rank + 1) * q = rank * q + q /\ rank * q \in Nat
    BY <1>1
<1>4. CalculateFinish(rank, work, workers) - CalculateStart(rank, work, workers)
        = q + (IF rank < m THEN 1 ELSE 0)
    BY <1>1, <1>2, <1>3
<1> QED
    BY <1>4 DEF q, m

(* Where there are as many bodies as processes nobody is left without: the *)
(* blocks follow each other, in the order of the ranks, and none is empty. *)
THEOREM BlocksNotEmpty ==
    ASSUME NEW work \in Nat, NEW workers \in Nat \ {0}, workers <= work,
           NEW rank \in 0 .. workers - 1
    PROVE  CalculateStart(rank, work, workers) < CalculateFinish(rank, work, workers)
<1> DEFINE q == work \div workers
<1>1. q \in Nat /\ work % workers \in 0 .. workers - 1 /\ work = workers * q + (work % workers)
    BY Division
<1>2. q # 0
  <2>1. SUFFICES ASSUME q = 0 PROVE FALSE
      OBVIOUS
  <2>2. workers * q = 0
      BY <2>1
  <2> QED
      BY <1>1, <2>2
<1>3. CalculateStart(rank, work, workers) \in Nat /\ CalculateFinish(rank, work, workers) \in Nat
    BY BlockEnds, rank \in Nat, rank + 1 \in Nat DEF CalculateFinish
<1>4. CalculateFinish(rank, work, workers) - CalculateStart(rank, work, workers)
        = q + (IF rank < work % workers THEN 1 ELSE 0)
    BY BlockSize, rank \in Nat
<1> HIDE DEF q
<1> QED
    BY <1>1, <1>2, <1>3, <1>4

(* Every body is in the block of a process.                                *)
THEOREM BlocksCover ==
    ASSUME NEW work \in Nat, NEW workers \in Nat \ {0}, NEW body \in 0 .. work - 1
    PROVE  \E rank \in 0 .. workers - 1 : body \in Block(rank, work, workers)
<1> DEFINE q == work \div workers
           m == work % workers
<1>1. q \in Nat /\ m \in 0 .. workers - 1 /\ work = workers * q + m
    BY Division
<1>2. \A rank \in Nat : /\ CalculateStart(rank, work, workers)
                               = rank * q + (IF rank < m THEN rank ELSE m)
                         /\ CalculateFinish(rank, work, workers)
                               = (rank + 1) * q + (IF rank + 1 < m THEN rank + 1 ELSE m)
    BY DEF CalculateStart, CalculateFinish
<1>3. \A rank \in Nat : /\ rank * q \in Nat
                         /\ (rank + 1) * q = rank * q + q
                         /\ rank * (q + 1) = rank * q + rank
    BY <1>1
<1> HIDE DEF q, m
<1>4. CASE body < m * (q + 1)
  <2>1. PICK rank \in Nat : (q + 1) * rank <= body /\ body < (q + 1) * rank + (q + 1)
    <3> DEFINE k == body \div (q + 1)
               t == body % (q + 1)
    <3>1. q + 1 \in Nat \ {0} /\ body \in Nat
        BY <1>1
    <3>2. k \in Nat /\ t \in 0 .. (q + 1) - 1 /\ body = (q + 1) * k + t
        BY <3>1, Division
    <3> HIDE DEF k, t
    <3>3. (q + 1) * k \in Nat
        BY <3>1, <3>2
    <3>4. (q + 1) * k <= body /\ body < (q + 1) * k + (q + 1)
        BY <3>1, <3>2, <3>3
    <3> QED
        BY <3>2, <3>4
  <2>2. (q + 1) * rank = rank * q + rank
      BY <1>1, <2>1
  <2>3. rank < m
    <3>1. SUFFICES ASSUME m <= rank PROVE FALSE
        BY <1>1, <2>1
    <3>2. m * (q + 1) <= rank * (q + 1)
        BY <1>1, <2>1, <3>1, TimesMonotonic, m \in Nat, q + 1 \in Nat
    <3> QED
        BY <1>1, <1>3, <1>4, <2>1, <2>2, <3>2
  <2>4. body \in Block(rank, work, workers)
      BY <1>1, <1>2, <1>3, <2>1, <2>2, <2>3 DEF Block
  <2> QED
      BY <1>1, <2>1, <2>3, <2>4
<1>5. CASE m * (q + 1) <= body
  <2> DEFINE rest == body - m * (q + 1)
             rank == m + (rest \div q)
  <2>1. m * (q + 1) = m * q + m /\ m * q \in Nat
      BY <1>1, <1>3
  <2>2. rest \in Nat /\ body = m * q + m + rest
      BY <1>1, <1>5, <2>1
  <2>3. (workers - m) * q = workers * q - m * q
      BY <1>1
  <2>4. rest < (workers - m) * q
      BY <1>1, <2>2, <2>3
  <2>5. q # 0
    <3>1. SUFFICES ASSUME q = 0 PROVE FALSE
        OBVIOUS
    <3>2. (workers - m) * q = 0
        BY <1>1, <3>1
    <3> QED
        BY <2>2, <2>4, <3>2
  <2> HIDE DEF rest
  <2>6. PICK k \in Nat : k = rest \div q /\ q * k <= rest /\ rest < q * k + q
      BY <1>1, <2>2, <2>5, Division
  <2>7. k < workers - m
    <3>1. SUFFICES ASSUME workers - m <= k PROVE FALSE
        BY <1>1, <2>6
    <3>2. (workers - m) * q <= k * q
        BY <1>1, <2>6, <3>1, TimesMonotonic, workers - m \in Nat
    <3>3. k * q = q * k
        BY <1>1, <2>6
    <3> QED
        BY <1>1, <2>2, <2>3, <2>4, <2>6, <3>2, <3>3
  <2>8. rank = m + k /\ rank \in 0 .. workers - 1
      BY <1>1, <2>6, <2>7
  <2> HIDE DEF rank
  <2>9. rank * q = m * q + k * q /\ k * q = q * k
      BY <1>1, <2>6, <2>8
  <2>10. body \in Block(rank, work, workers)
      BY <1>1, <1>2, <1>3, <2>1, <2>2, <2>6, <2>8, <2>9 DEF Block
  <2> QED
      BY <2>8, <2>10
<1> QED
    BY <1>1, <1>4, <1>5

(* The blocks are disjoint, and in the order of the ranks.                 *)
THEOREM BlocksInOrder ==
    ASSUME NEW work \in Nat, NEW workers \in Nat \ {0},
           NEW rank \in Nat, NEW other \in Nat, rank < other
    PROVE  CalculateFinish(rank, work, workers) <= CalculateStart(other, work, workers)
<1> DEFINE q == work \div workers
           m == work % workers
<1>1. q \in Nat /\ m \in Nat
    BY Division
<1>2. /\ CalculateFinish(rank, work, workers)
            = (rank + 1) * q + (IF rank + 1 < m THEN rank + 1 ELSE m)
      /\ CalculateStart(other, work, workers) = other * q + (IF other < m THEN other ELSE m)
    BY DEF CalculateStart, CalculateFinish
<1> HIDE DEF q, m
<1>3. (rank + 1) * q <= other * q
    BY <1>1, TimesMonotonic, rank + 1 \in Nat, rank + 1 <= other
<1>4. (rank + 1) * q \in Nat /\ other * q \in Nat
    BY <1>1
<1> QED
    BY <1>1, <1>2, <1>3, <1>4

---------------------------------------------------------------------------
(* Only whole universes are reported *)

Reporting == {"distances", "undefined", "distanceTurn", "statistic", "reducing", "done"}

Started(r) == pc[r] \notin {"start", "failed"}

(* The calls of each process are a sequence, whatever it hands over.       *)
CallsAreSequences ==
    /\ DOMAIN calls = Ranks
    /\ \A r \in Ranks : calls[r] \in Seq(Range(calls[r]))

(* A process that has not started has called nothing; who has passed a     *)
(* barrier knows that everybody has called something, and so has started,  *)
(* and who has started has read its lines.                                 *)
StartInv ==
    /\ given.universe \in Universes
    /\ pc \in [Ranks -> PCs]
    /\ CallsAreSequences
    /\ \A r \in Ranks :
          /\ ~Started(r) => calls[r] = << >>
          /\ Started(r) => BadLine \notin Range(OwnLines(r))
          /\ pc[r] = "barrier" => calls[r] # << >>
          /\ pc[r] \in Reporting => \A q \in Ranks : calls[q] # << >>

(* A call is added at the end of a process's calls.                        *)
LEMMA CallAdds ==
    ASSUME CallsAreSequences, NEW r \in Ranks, NEW call,
           calls' = [calls EXCEPT ![r] = Append(@, call)]
    PROVE  /\ CallsAreSequences'
           /\ calls'[r] # << >>
           /\ \A q \in Ranks \ {r} : calls'[q] = calls[q]
<1> DEFINE s == calls[r]
           T == Range(s) \cup {call}
<1>1. s \in Seq(Range(s)) /\ DOMAIN calls = Ranks
    BY DEF CallsAreSequences
<1>2. s \in Seq(T)
    BY <1>1
<1>3. calls'[r] = Append(s, call) /\ DOMAIN calls' = Ranks
    BY <1>1
<1>4. /\ Append(s, call) \in Seq(T)
      /\ Append(s, call) # << >>
      /\ Range(Append(s, call)) = T
    BY <1>1, <1>2 DEF Range
<1>5. \A q \in Ranks \ {r} : calls'[q] = calls[q]
    BY <1>1
<1> QED
    BY <1>1, <1>3, <1>4, <1>5 DEF CallsAreSequences

(* What a step of one process has to keep.                                 *)
LEMMA StartInvKept ==
    ASSUME StartInv, NEW r \in Ranks,
           UNCHANGED given, CallsAreSequences',
           \A q \in Ranks \ {r} : pc'[q] = pc[q] /\ calls'[q] = calls[q],
           pc' \in [Ranks -> PCs],
           calls[r] # << >> => calls'[r] # << >>,
           ~Started(r)' => calls'[r] = << >>,
           Started(r)' => BadLine \notin Range(OwnLines(r)),
           pc'[r] = "barrier" => calls'[r] # << >>,
           pc'[r] \in Reporting => \A q \in Ranks : calls[q] # << >>
    PROVE  StartInv'
<1>1. \A q \in Ranks : OwnLines(q)' = OwnLines(q)
    BY DEF OwnLines, Lines
<1>2. \A q \in Ranks : calls[q] # << >> => calls'[q] # << >>
    OBVIOUS
<1>3. given'.universe \in Universes
    BY DEF StartInv
<1>4. ASSUME NEW p \in Ranks
      PROVE  /\ ~Started(p)' => calls'[p] = << >>
             /\ Started(p)' => BadLine \notin Range(OwnLines(p)')
             /\ pc'[p] = "barrier" => calls'[p] # << >>
             /\ pc'[p] \in Reporting => \A q \in Ranks : calls'[q] # << >>
  <2>1. CASE p = r
      BY <1>1, <1>2, <2>1
  <2>2. CASE p # r
      BY <1>1, <1>2, <2>2 DEF StartInv, Started
  <2> QED
      BY <2>1, <2>2
<1> QED
    BY <1>3, <1>4 DEF StartInv

(* A step with a call, and a step without one, of a process that has       *)
(* started: it does not report before it has met everybody.                *)
LEMMA StepWithCall ==
    ASSUME StartInv, NEW r \in Ranks, Started(r), NEW call, NEW next \in PCs,
           UNCHANGED given,
           calls' = [calls EXCEPT ![r] = Append(@, call)],
           pc' = [pc EXCEPT ![r] = next],
           next \notin {"start", "failed"},
           next \in Reporting => pc[r] \in Reporting
    PROVE  StartInv'
<1>1. CallsAreSequences' /\ calls'[r] # << >> /\ \A q \in Ranks \ {r} : calls'[q] = calls[q]
    BY CallAdds DEF StartInv
<1>2. /\ pc' \in [Ranks -> PCs] /\ pc'[r] = next
      /\ \A q \in Ranks \ {r} : pc'[q] = pc[q]
    BY DEF StartInv
<1>3. pc'[r] \in Reporting => \A q \in Ranks : calls[q] # << >>
    BY <1>2 DEF StartInv
<1>4. BadLine \notin Range(OwnLines(r))
    BY DEF StartInv
<1>5. Started(r)'
    BY <1>2 DEF Started
<1> QED
    BY <1>1, <1>2, <1>3, <1>4, <1>5, StartInvKept

LEMMA StepWithoutCall ==
    ASSUME StartInv, NEW r \in Ranks, Started(r), NEW next \in PCs,
           UNCHANGED <<given, calls>>,
           pc' = [pc EXCEPT ![r] = next],
           next \notin {"start", "failed", "barrier"},
           next \in Reporting => \A q \in Ranks : calls[q] # << >>
    PROVE  StartInv'
<1>1. CallsAreSequences'
    BY DEF StartInv, CallsAreSequences
<1>2. /\ pc' \in [Ranks -> PCs] /\ pc'[r] = next
      /\ \A q \in Ranks \ {r} : pc'[q] = pc[q]
    BY DEF StartInv
<1>3. BadLine \notin Range(OwnLines(r))
    BY DEF StartInv
<1>4. Started(r)'
    BY <1>2 DEF Started
<1> QED
    BY <1>1, <1>2, <1>3, <1>4, StartInvKept

(* Who leaves a barrier or a reduction knows that everybody has called.    *)
LEMMA MetEverybody ==
    ASSUME StartInv, NEW r \in Ranks, calls[r] # << >>, EverybodyCame(r)
    PROVE  \A q \in Ranks : calls[q] # << >>
<1>1. \A q \in Ranks : calls[q] \in Seq(Range(calls[q]))
    BY DEF StartInv, CallsAreSequences
<1>2. Len(calls[r]) > 0
    BY <1>1
<1>3. ASSUME NEW q \in Ranks PROVE calls[q] # << >>
    BY <1>1, <1>2, <1>3 DEF EverybodyCame
<1> QED
    BY <1>3

(* The turns of a loop over ranks stay in it or end it.                    *)
LEMMA TurnNext ==
    ASSUME StartInv, NEW r \in Ranks, NEW next \in PCs, NextTurn(r, next)
    PROVE  \E place \in {pc[r], next} : pc' = [pc EXCEPT ![r] = place]
<1>1. pc = [pc EXCEPT ![r] = pc[r]]
    BY DEF StartInv
<1> QED
    BY <1>1 DEF NextTurn

LEMMA StartInvInitial == Init => StartInv
<1> SUFFICES ASSUME Init PROVE StartInv
    OBVIOUS
<1>1. \A r \in Ranks : pc[r] = "start" /\ calls[r] = << >>
    BY DEF Init
<1>2. CallsAreSequences
    BY DEF Init, CallsAreSequences
<1>3. given.universe \in Universes /\ pc \in [Ranks -> PCs]
    BY DEF Init, PCs
<1> QED
    BY <1>1, <1>2, <1>3 DEF StartInv, Started, Reporting

LEMMA StartInvStep == StartInv /\ [Next]_vars => StartInv'
<1> SUFFICES ASSUME StartInv, [Next]_vars PROVE StartInv'
    OBVIOUS
<1>1. CASE UNCHANGED vars
    BY <1>1 DEF StartInv, vars, CallsAreSequences, Started, OwnLines, Lines
<1>2. CASE Next
  <2>1. PICK r \in Ranks : Process(r)
      BY <1>2 DEF Next
  <2>2. \A now, active : LoopTest(now, active) \in {"collide", "save"}
      BY DEF LoopTest
  <2>3. CASE Start(r)
    <3>1. PICK next \in {"collide", "save"} : pc' = [pc EXCEPT ![r] = next]
        BY <2>2, <2>3 DEF Start, GoTo
    <3>2. UNCHANGED <<given, calls>> /\ BadLine \notin Range(OwnLines(r))
        BY <2>3 DEF Start, CanStart
    <3>3. CallsAreSequences'
        BY <3>2 DEF StartInv, CallsAreSequences
    <3>4. /\ pc' \in [Ranks -> PCs] /\ pc'[r] = next /\ Started(r)'
          /\ \A q \in Ranks \ {r} : pc'[q] = pc[q]
        BY <3>1 DEF StartInv, PCs, Started
    <3> QED
        BY <3>2, <3>3, <3>4, StartInvKept DEF Reporting
  <2>4. CASE StartFails(r)
    <3>1. pc' = [pc EXCEPT ![r] = "failed"] /\ pc[r] = "start" /\ UNCHANGED <<given, calls>>
        BY <2>4 DEF StartFails, GoTo
    <3>2. CallsAreSequences' /\ calls'[r] = << >>
        BY <3>1 DEF StartInv, CallsAreSequences, Started
    <3>3. /\ pc' \in [Ranks -> PCs] /\ pc'[r] = "failed" /\ ~Started(r)'
          /\ \A q \in Ranks \ {r} : pc'[q] = pc[q]
        BY <3>1 DEF StartInv, PCs, Started
    <3> QED
        BY <3>1, <3>2, <3>3, StartInvKept DEF Reporting
  <2>5. CASE LocalCollisions(r)
    <3>1. PICK next \in {"collideTurn"} : pc' = [pc EXCEPT ![r] = next]
        BY <2>2, <2>5 DEF LocalCollisions, GoTo
    <3>2. Started(r) /\ UNCHANGED <<given, calls>>
        BY <2>5 DEF LocalCollisions, Started
    <3> QED
        BY <3>1, <3>2, StepWithoutCall DEF PCs, Reporting
  <2>6. CASE CollisionTurn(r)
    <3>1. Started(r)
        BY <2>6 DEF CollisionTurn, Started
    <3>2. PICK call : calls' = [calls EXCEPT ![r] = Append(@, call)]
        BY <2>6 DEF CollisionTurn, Call
    <3>3. PICK next \in {pc[r], "accelerate"} : pc' = [pc EXCEPT ![r] = next]
        BY <2>6, TurnNext DEF CollisionTurn, PCs
    <3>4. next \in {"collideTurn", "accelerate"} /\ UNCHANGED given
        BY <2>6, <3>3 DEF CollisionTurn
    <3> QED
        BY <2>6, <3>1, <3>2, <3>3, <3>4, StepWithCall DEF CollisionTurn, PCs, Reporting
  <2>7. CASE LocalAccelerations(r)
    <3>1. PICK next \in {"accelerateTurn"} : pc' = [pc EXCEPT ![r] = next]
        BY <2>2, <2>7 DEF LocalAccelerations, GoTo
    <3>2. Started(r) /\ UNCHANGED <<given, calls>>
        BY <2>7 DEF LocalAccelerations, Started
    <3> QED
        BY <3>1, <3>2, StepWithoutCall DEF PCs, Reporting
  <2>8. CASE AccelerationTurn(r)
    <3>1. Started(r)
        BY <2>8 DEF AccelerationTurn, Started
    <3>2. PICK call : calls' = [calls EXCEPT ![r] = Append(@, call)]
        BY <2>8 DEF AccelerationTurn, Call
    <3>3. PICK next \in {pc[r], "move"} : pc' = [pc EXCEPT ![r] = next]
        BY <2>8, TurnNext DEF AccelerationTurn, PCs
    <3>4. next \in {"accelerateTurn", "move"} /\ UNCHANGED given
        BY <2>8, <3>3 DEF AccelerationTurn
    <3> QED
        BY <2>8, <3>1, <3>2, <3>3, <3>4, StepWithCall DEF AccelerationTurn, PCs, Reporting
  <2>9. CASE Move(r)
    <3>1. Started(r) /\ pc' = [pc EXCEPT ![r] = "count"] /\ UNCHANGED given
        BY <2>9 DEF Move, Started, GoTo
    <3>2. PICK call : calls' = [calls EXCEPT ![r] = Append(@, call)]
        BY <2>9 DEF Move, Call
    <3> QED
        BY <2>9, <3>1, <3>2, StepWithCall DEF Move, PCs, Reporting
  <2>10. CASE CountBodies(r)
    <3>1. PICK next \in {"collide", "save"} : pc' = [pc EXCEPT ![r] = next]
        BY <2>2, <2>10 DEF CountBodies, GoTo
    <3>2. Started(r) /\ UNCHANGED <<given, calls>>
        BY <2>10 DEF CountBodies, Started
    <3> QED
        BY <3>1, <3>2, StepWithoutCall DEF PCs, Reporting
  <2>11. CASE SaveTurn(r)
    <3>1. Started(r) /\ pc' = [pc EXCEPT ![r] = "barrier"] /\ UNCHANGED given
        BY <2>11 DEF SaveTurn, Started, GoTo
    <3>2. PICK call : calls' = [calls EXCEPT ![r] = Append(@, call)]
        BY <2>11 DEF SaveTurn, Call
    <3> QED
        BY <2>11, <3>1, <3>2, StepWithCall DEF SaveTurn, PCs, Reporting
  <2>12. CASE LeaveBarrier(r)
    <3>1. PICK next \in {"save", "distances"} : pc' = [pc EXCEPT ![r] = next]
        BY <2>2, <2>12 DEF LeaveBarrier, GoTo
    <3>2. Started(r) /\ UNCHANGED <<given, calls>>
        BY <2>12 DEF LeaveBarrier, Started
    <3>3. \A q \in Ranks : calls[q] # << >>
        BY <2>12, MetEverybody DEF LeaveBarrier, StartInv
    <3> QED
        BY <3>1, <3>2, <3>3, StepWithoutCall DEF PCs
  <2>13. CASE OwnDistances(r)
    <3>1. PICK next \in {"undefined", "distanceTurn"} : pc' = [pc EXCEPT ![r] = next]
        BY <2>2, <2>13 DEF OwnDistances, GoTo
    <3>2. Started(r) /\ UNCHANGED <<given, calls>>
        BY <2>13 DEF OwnDistances, Started
    <3>3. \A q \in Ranks : calls[q] # << >>
        BY <2>13 DEF OwnDistances, StartInv, Reporting
    <3> QED
        BY <3>1, <3>2, <3>3, StepWithoutCall DEF PCs
  <2>14. CASE DistanceTurn(r)
    <3>1. Started(r)
        BY <2>14 DEF DistanceTurn, Started
    <3>2. PICK call : calls' = [calls EXCEPT ![r] = Append(@, call)]
        BY <2>14 DEF DistanceTurn, Call
    <3>3. PICK next \in {pc[r], "statistic"} : pc' = [pc EXCEPT ![r] = next]
        BY <2>14, TurnNext DEF DistanceTurn, PCs
    <3>4. next \in {"distanceTurn", "statistic"} /\ UNCHANGED given
        BY <2>14, <3>3 DEF DistanceTurn
    <3> QED
        BY <2>14, <3>1, <3>2, <3>3, <3>4, StepWithCall DEF DistanceTurn, PCs, Reporting
  <2>15. CASE LeaveOutStatistic(r)
    <3>1. PICK next \in {"done", "statistic"} : pc' = [pc EXCEPT ![r] = next]
        BY <2>2, <2>15 DEF LeaveOutStatistic, GoTo, NextStatistic
    <3>2. Started(r) /\ UNCHANGED <<given, calls>>
        BY <2>15 DEF LeaveOutStatistic, Started
    <3>3. \A q \in Ranks : calls[q] # << >>
        BY <2>15 DEF LeaveOutStatistic, StartInv, Reporting
    <3> QED
        BY <3>1, <3>2, <3>3, StepWithoutCall DEF PCs
  <2>16. CASE EnterStatistic(r)
    <3>1. Started(r) /\ pc' = [pc EXCEPT ![r] = "reducing"] /\ UNCHANGED given
        BY <2>16 DEF EnterStatistic, Started, GoTo
    <3>2. PICK call : calls' = [calls EXCEPT ![r] = Append(@, call)]
        BY <2>16 DEF EnterStatistic, Call
    <3> QED
        BY <2>16, <3>1, <3>2, StepWithCall DEF EnterStatistic, PCs, Reporting
  <2>17. CASE LeaveStatistic(r)
    <3>1. PICK next \in {"done", "statistic"} : pc' = [pc EXCEPT ![r] = next]
        BY <2>2, <2>17 DEF LeaveStatistic, GoTo, NextStatistic
    <3>2. Started(r) /\ UNCHANGED <<given, calls>>
        BY <2>17 DEF LeaveStatistic, Started
    <3>3. \A q \in Ranks : calls[q] # << >>
        BY <2>17 DEF LeaveStatistic, StartInv, Reporting
    <3> QED
        BY <3>1, <3>2, <3>3, StepWithoutCall DEF PCs
  <2> QED
      BY <2>1, <2>3, <2>4, <2>5, <2>6, <2>7, <2>8, <2>9, <2>10, <2>11, <2>12, <2>13, <2>14,
         <2>15, <2>16, <2>17
      DEF Process
<1> QED
    BY <1>1, <1>2

(* A line of the file is among those that the process of its block reads.  *)
LEMMA LinesRead ==
    ASSUME NEW u, u.lines \in Seq(Range(u.lines)), NEW start \in Nat, NEW finish \in Nat,
           NEW i \in 1 .. Len(u.lines), start < i, i <= finish
    PROVE  u.lines[i] \in Range(Lines(u, start, finish))
<1> DEFINE T == Range(u.lines)
           end == IF finish < Len(u.lines) THEN finish ELSE Len(u.lines)
           s == SubSeq(u.lines, start + 1, end)
<1>1. Len(u.lines) \in Nat /\ end \in Nat /\ i <= end
    OBVIOUS
<1>2. \A k \in start + 1 .. end : u.lines[k] \in T
    BY <1>1
<1> HIDE DEF T, end
<1>3. s \in Seq(T) /\ Len(s) = end - start /\ \A k \in 1 .. end - start : s[k] = u.lines[start + k]
    BY <1>1, <1>2
<1>4. i - start \in 1 .. end - start /\ i - start \in DOMAIN s /\ s[i - start] = u.lines[i]
    BY <1>1, <1>3
<1> QED
    BY <1>4 DEF Lines, Range, end

LEMMA StartInvReports == StartInv => ReportOnlyOfWholeUniverse
<1> DEFINE u == given.universe
<1> SUFFICES ASSUME StartInv, pc[0] = "done", BadLine \in Range(Lines(u, 0, u.count))
             PROVE  FALSE
    BY DEF ReportOnlyOfWholeUniverse
<1>1. Size \in Nat \ {0} /\ u.count \in Nat /\ u.lines \in Seq(Range(u.lines))
    BY NBodyAssumption DEF StartInv
<1>2. \A r \in Ranks : BadLine \notin Range(OwnLines(r))
    BY <1>1 DEF StartInv, Reporting, Ranks
<1>3. PICK i \in 1 .. Len(u.lines) : i <= u.count /\ u.lines[i] = BadLine
  <2> DEFINE end == IF u.count < Len(u.lines) THEN u.count ELSE Len(u.lines)
             s == SubSeq(u.lines, 1, end)
  <2>1. Len(u.lines) \in Nat /\ end \in Nat /\ end <= u.count /\ end <= Len(u.lines)
      BY <1>1
  <2>2. Lines(u, 0, u.count) = s
      BY DEF Lines
  <2> HIDE DEF end
  <2>3. DOMAIN s = 1 .. end /\ \A k \in 1 .. end : s[k] = u.lines[k]
    <3> DEFINE T == Range(u.lines)
    <3>1. \A k \in 1 .. end : u.lines[k] \in T
        BY <1>1, <2>1
    <3> HIDE DEF T
    <3>2. s \in Seq(T) /\ Len(s) = end /\ \A k \in 1 .. end : s[k] = u.lines[k]
        BY <2>1, <3>1
    <3> QED
        BY <2>1, <3>2
  <2>4. PICK k \in DOMAIN s : s[k] = BadLine
      BY <2>2 DEF Range
  <2> HIDE DEF s
  <2>5. k \in 1 .. end /\ u.lines[k] = BadLine
      BY <2>3, <2>4
  <2>6. k \in 1 .. Len(u.lines) /\ k <= u.count
      BY <1>1, <2>1, <2>5
  <2> QED
      BY <2>5, <2>6
<1>4. PICK r \in 0 .. Size - 1 : i - 1 \in Block(r, u.count, Size)
  <2>1. i - 1 \in 0 .. u.count - 1
      BY <1>1, <1>3
  <2> QED
      BY <1>1, <2>1, BlocksCover
<1> DEFINE start == CalculateStart(r, u.count, Size)
           finish == CalculateFinish(r, u.count, Size)
<1>5. start \in Nat /\ finish \in Nat
    BY <1>1, BlockEnds, r \in Nat, r + 1 \in Nat DEF CalculateFinish
<1>6. start < i /\ i <= finish
    BY <1>1, <1>4, <1>5 DEF Block
<1>7. BadLine \in Range(Lines(u, start, finish))
    BY <1>1, <1>3, <1>5, <1>6, LinesRead
<1> QED
    BY <1>2, <1>4, <1>7 DEF OwnLines, Ranks

(* For any number of processes, any universes and however far each process *)
(* is: results are printed only where every line of the universe could be  *)
(* loaded, because who reports has met everybody and the blocks of the     *)
(* processes cover the file.                                               *)
THEOREM ReportsOnlyWholeUniverses == Spec => []ReportOnlyOfWholeUniverse
<1> QED
    BY StartInvInitial, StartInvStep, StartInvReports, PTL DEF Spec

---------------------------------------------------------------------------
(* Collective calls match *)

(* A round of the loop, or what follows the loop, is a plan of calls: each *)
(* process makes them in the same order, from the same places.  few: one   *)
(* body is left, or none.                                                  *)
LoopPlaces == {"collide", "collideTurn", "accelerate", "accelerateTurn", "move", "count"}
CallingPlaces == {"collideTurn", "accelerateTurn", "move", "save", "distanceTurn", "statistic"}

Planned(looping, few, j) ==
    IF looping
    THEN IF j <= Size THEN <<"collideTurn", j - 1>>
         ELSE IF j <= 2 * Size THEN <<"accelerateTurn", j - 1 - Size>>
         ELSE <<"move", 0>>
    ELSE IF j <= Size THEN <<"save", j - 1>>
         ELSE IF j <= 2 * Size THEN <<"distanceTurn", j - 1 - Size>>
         ELSE <<"statistic", IF few THEN 2 * (j - 1 - 2 * Size) ELSE j - 1 - 2 * Size>>

(* How many calls of the plan are made at a place.                         *)
StatisticsMade(few, t) == IF few THEN (t + 1) \div 2 ELSE t

Made(place, t, few) ==
    CASE place = "collideTurn" -> t
      [] place = "accelerate" -> Size
      [] place = "accelerateTurn" -> Size + t
      [] place = "move" -> 2 * Size
      [] place = "count" -> 2 * Size + 1
      [] place = "save" -> t
      [] place = "barrier" -> t + 1
      [] place \in {"distances", "undefined"} -> Size
      [] place = "distanceTurn" -> Size + t
      [] place \in {"statistic", "done"} -> 2 * Size + StatisticsMade(few, t)
      [] place = "reducing" -> 2 * Size + StatisticsMade(few, t) + 1
      [] OTHER -> 0

(* The name and the root of a call follow from its place.                  *)
NameOf(place) ==
    IF place = "save" THEN "barrier"
    ELSE IF place \in {"move", "statistic"} THEN "allReduce"
    ELSE "broadcast"

RootOf(from) == IF NameOf(from[1]) = "broadcast" THEN from[2] ELSE NoRoot

TurnsOf(place) ==
    IF place \in {"collideTurn", "accelerateTurn", "save", "barrier", "distanceTurn"} THEN Ranks
    ELSE IF place \in {"statistic", "reducing"} THEN 0 .. 3
    ELSE IF place = "done" THEN {4}
    ELSE {0}

(* A process that is to start has the round before it that it will enter.  *)
Total(r) == IF Started(r) THEN total[r] ELSE given.universe.count
Few(r) == Total(r) <= 1
InLoop(r) ==
    IF Started(r) THEN pc[r] \in LoopPlaces ELSE LoopTest(0, given.universe.count) = "collide"
CallsMade(r) == Made(pc[r], turn[r], Few(r))
Base(r) == Len(calls[r]) - CallsMade(r)

(* Where each process is in its loops over ranks and over statistics.      *)
TurnInv ==
    /\ turn \in [Ranks -> Nat] /\ DOMAIN total = Ranks /\ DOMAIN time = Ranks
    /\ \A r \in Ranks :
          /\ turn[r] \in TurnsOf(pc[r])
          /\ pc[r] = "reducing" => ~LeavesOut(r, turn[r])

CallsFollowPlan ==
    \A r \in Ranks :
       /\ Base(r) \in Nat
       /\ \A j \in 1 .. CallsMade(r) : calls[r][Base(r) + j].from = Planned(InLoop(r), Few(r), j)

CallsWellMade ==
    \A r \in Ranks : \A k \in DOMAIN calls[r] :
       /\ calls[r][k].call = NameOf(calls[r][k].from[1])
       /\ calls[r][k].root = RootOf(calls[r][k].from)

(* Two processes are in the same round, with the same count of bodies, or  *)
(* one has left the reduction of the count in which the other still is.    *)
SameRound(p, q) ==
    /\ InLoop(p) = InLoop(q) /\ Base(p) = Base(q)
    /\ Total(p) = Total(q) /\ time[p] = time[q]

OneAhead(p, q) ==
    /\ pc[q] = "count" /\ EverybodyCame(q)
    /\ Base(p) = Len(calls[q])
    /\ Total(p) = TotalOf(Reduced(q)) /\ time[p] = time[q] + DeltaTime
    /\ InLoop(p) = (LoopTest(time[p], Total(p)) = "collide")

InStep == \A p, q \in Ranks : SameRound(p, q) \/ OneAhead(p, q) \/ OneAhead(q, p)

PlacesMatch ==
    \A p, q \in Ranks : \A k \in DOMAIN calls[p] \cap DOMAIN calls[q] :
       calls[p][k].from = calls[q][k].from

CallInv == StartInv /\ TurnInv /\ CallsFollowPlan /\ CallsWellMade /\ InStep /\ PlacesMatch

(* What the plan says of each place.                                       *)
LEMMA MadeAt ==
    ASSUME NEW t, NEW few
    PROVE  /\ Made("collideTurn", t, few) = t /\ Made("accelerate", t, few) = Size
           /\ Made("accelerateTurn", t, few) = Size + t /\ Made("move", t, few) = 2 * Size
           /\ Made("count", t, few) = 2 * Size + 1
           /\ Made("save", t, few) = t /\ Made("barrier", t, few) = t + 1
           /\ Made("distances", t, few) = Size /\ Made("undefined", t, few) = Size
           /\ Made("distanceTurn", t, few) = Size + t
           /\ Made("statistic", t, few) = 2 * Size + StatisticsMade(few, t)
           /\ Made("done", t, few) = 2 * Size + StatisticsMade(few, t)
           /\ Made("reducing", t, few) = 2 * Size + StatisticsMade(few, t) + 1
           /\ Made("start", t, few) = 0 /\ Made("failed", t, few) = 0
           /\ Made("collide", t, few) = 0
    BY DEF Made

LEMMA StatisticsCounted ==
    ASSUME NEW few \in BOOLEAN
    PROVE  /\ \A t \in 0 .. 4 : StatisticsMade(few, t) \in 0 .. 4
           /\ StatisticsMade(few, 0) = 0
           /\ \A t \in 0 .. 3 :
                 IF few /\ t % 2 = 1
                 THEN StatisticsMade(few, t + 1) = StatisticsMade(few, t)
                 ELSE /\ StatisticsMade(few, t + 1) = StatisticsMade(few, t) + 1
                      /\ (IF few THEN 2 * StatisticsMade(few, t) ELSE StatisticsMade(few, t)) = t
<1>1. 0 .. 4 = {0, 1, 2, 3, 4} /\ 0 .. 3 = {0, 1, 2, 3}
    OBVIOUS
<1> QED
    BY <1>1 DEF StatisticsMade

LEMMA TurnsType ==
    ASSUME NEW place
    PROVE  TurnsOf(place) \subseteq Nat
    BY NBodyAssumption DEF TurnsOf, Ranks

LEMMA MadeType ==
    ASSUME NEW place \in PCs, NEW t \in TurnsOf(place), NEW few \in BOOLEAN
    PROVE  Made(place, t, few) \in Nat
<1>1. Size \in Nat \ {0}
    BY NBodyAssumption
<1>2. t \in Nat /\ (place \in {"statistic", "done", "reducing"} => t \in 0 .. 4)
    BY <1>1 DEF TurnsOf, Ranks, PCs
<1>3. place \in {"statistic", "done", "reducing"} => StatisticsMade(few, t) \in Nat
    BY <1>2, StatisticsCounted
<1> QED
    BY <1>1, <1>2, <1>3, MadeAt DEF PCs

(* In the loop, who has made all calls of the round is in the reduction.   *)
LEMMA MadeInLoop ==
    ASSUME NEW place \in LoopPlaces, NEW t \in TurnsOf(place), NEW few \in BOOLEAN,
           Made(place, t, few) >= 2 * Size + 1
    PROVE  place = "count"
<1>1. Size \in Nat \ {0}
    BY NBodyAssumption
<1> QED
    BY <1>1, MadeAt DEF LoopPlaces, TurnsOf, Ranks

(* A process makes the call that the plan has next.                        *)
LEMMA PlannedCall ==
    ASSUME NEW place \in CallingPlaces, NEW t \in TurnsOf(place), NEW few \in BOOLEAN,
           place = "statistic" => ~(few /\ t % 2 = 1)
    PROVE  Planned(place \in LoopPlaces, few, Made(place, t, few) + 1) = <<place, t>>
<1>1. Size \in Nat \ {0}
    BY NBodyAssumption
<1>2. CASE place \in {"collideTurn", "accelerateTurn", "save", "distanceTurn"}
  <2>1. t \in 0 .. Size - 1
      BY <1>2 DEF TurnsOf, Ranks
  <2> QED
      BY <1>1, <1>2, <2>1, MadeAt DEF Planned, LoopPlaces
<1>3. CASE place = "move"
    BY <1>1, <1>3, MadeAt DEF Planned, LoopPlaces, TurnsOf
<1>4. CASE place = "statistic"
  <2>1. t \in 0 .. 3
      BY <1>4 DEF TurnsOf
  <2>2. /\ StatisticsMade(few, t) \in 0 .. 4
        /\ (IF few THEN 2 * StatisticsMade(few, t) ELSE StatisticsMade(few, t)) = t
      BY <1>4, <2>1, StatisticsCounted
  <2>3. Made(place, t, few) = 2 * Size + StatisticsMade(few, t)
      BY <1>4, MadeAt
  <2>4. place \notin LoopPlaces
      BY <1>4 DEF LoopPlaces
  <2> QED
      BY <1>1, <1>4, <2>2, <2>3, <2>4 DEF Planned
<1> QED
    BY <1>2, <1>3, <1>4 DEF CallingPlaces

(* What a process hands over is kept, and a call is added to the end.      *)
LEMMA CallsType ==
    ASSUME CallsAreSequences, NEW r \in Ranks
    PROVE  Len(calls[r]) \in Nat /\ DOMAIN calls[r] = 1 .. Len(calls[r])
<1>1. calls[r] \in Seq(Range(calls[r]))
    BY DEF CallsAreSequences
<1> QED
    BY <1>1

LEMMA CallAppended ==
    ASSUME CallsAreSequences, NEW r \in Ranks, NEW call,
           calls' = [calls EXCEPT ![r] = Append(@, call)]
    PROVE  /\ Len(calls'[r]) = Len(calls[r]) + 1 /\ calls'[r][Len(calls[r]) + 1] = call
           /\ \A k \in 1 .. Len(calls[r]) : calls'[r][k] = calls[r][k]
           /\ DOMAIN calls'[r] = 1 .. Len(calls[r]) + 1
           /\ \A q \in Ranks \ {r} : calls'[q] = calls[q]
<1> DEFINE T == Range(calls[r]) \cup {call}
<1>1. calls[r] \in Seq(Range(calls[r])) /\ DOMAIN calls = Ranks
    BY DEF CallsAreSequences
<1>2. calls[r] \in Seq(T) /\ call \in T
    BY <1>1
<1> HIDE DEF T
<1>3. calls'[r] = Append(calls[r], call)
    BY <1>1
<1> QED
    BY <1>1, <1>2, <1>3

LEMMA CountType == StartInv => given.universe.count \in Nat
    BY NBodyAssumption DEF StartInv

(* A process has turns at every place, and counts them.                    *)
LEMMA CallsMadeType ==
    ASSUME CallInv, NEW r \in Ranks
    PROVE  CallsMade(r) \in Nat /\ Base(r) \in Nat /\ Len(calls[r]) = Base(r) + CallsMade(r)
<1>1. pc[r] \in PCs /\ turn[r] \in TurnsOf(pc[r]) /\ Few(r) \in BOOLEAN /\ CallsAreSequences
    BY DEF CallInv, StartInv, TurnInv, Few
<1>2. CallsMade(r) \in Nat
    BY <1>1, MadeType DEF CallsMade
<1>3. Len(calls[r]) \in Nat
    BY <1>1, CallsType
<1> QED
    BY <1>2, <1>3 DEF CallInv, CallsFollowPlan, Base

(* While a process is at its place in the same round, no other one gets    *)
(* out of step with it, whatever calls are added meanwhile.                *)
LEMMA RoundKept ==
    ASSUME CallInv, NEW r \in Ranks, pc[r] # "count", UNCHANGED <<given, time>>,
           \A q \in Ranks \ {r} : pc'[q] = pc[q] /\ turn'[q] = turn[q] /\ total'[q] = total[q]
                                  /\ calls'[q] = calls[q],
           Base(r)' = Base(r), InLoop(r)' = InLoop(r), Total(r)' = Total(r),
           Len(calls'[r]) \in Nat, Len(calls'[r]) >= Len(calls[r]),
           \A k \in 1 .. Len(calls[r]) : calls'[r][k] = calls[r][k]
    PROVE  InStep'
<1>1. \A q \in Ranks : Base(q)' = Base(q) /\ InLoop(q)' = InLoop(q) /\ Total(q)' = Total(q)
  <2>1. ASSUME NEW q \in Ranks, q # r
        PROVE  Base(q)' = Base(q) /\ InLoop(q)' = InLoop(q) /\ Total(q)' = Total(q)
    <3>1. InLoop(q)' = InLoop(q) /\ Total(q)' = Total(q)
        BY <2>1 DEF InLoop, Total, Started, LoopTest
    <3>2. Few(q)' = Few(q)
        BY <3>1 DEF Few
    <3> QED
        BY <2>1, <3>1, <3>2 DEF Base, CallsMade
  <2> QED
      BY <2>1
<1>2. ASSUME NEW p \in Ranks, NEW q \in Ranks, SameRound(p, q) PROVE SameRound(p, q)'
    BY <1>1, <1>2 DEF SameRound
<1>3. ASSUME NEW p \in Ranks, NEW q \in Ranks, OneAhead(p, q) PROVE OneAhead(p, q)'
  <2>1. pc[q] = "count" /\ q # r /\ EverybodyCame(q)
      BY <1>3 DEF OneAhead
  <2>2. pc'[q] = "count" /\ calls'[q] = calls[q]
      BY <2>1
  <2>3. Len(calls[q]) \in Nat /\ Len(calls[q]) >= 1
    <3>1. CallsMade(q) = 2 * Size + 1
        BY <2>1, MadeAt DEF CallsMade
    <3> QED
        BY <3>1, CallsMadeType, NBodyAssumption
  <2>4. \A x \in Ranks : Len(calls'[x]) >= Len(calls[q])
                         /\ calls'[x][Len(calls[q])] = calls[x][Len(calls[q])]
    <3>1. Len(calls[r]) >= Len(calls[q]) /\ Len(calls[r]) \in Nat
        BY <2>1, CallsType DEF EverybodyCame, CallInv, StartInv
    <3>2. Len(calls'[r]) >= Len(calls[q]) /\ calls'[r][Len(calls[q])] = calls[r][Len(calls[q])]
        BY <2>3, <3>1
    <3> QED
        BY <2>1, <3>2 DEF EverybodyCame
  <2>5. EverybodyCame(q)'
      BY <2>2, <2>4 DEF EverybodyCame
  <2>6. Reduced(q)' = Reduced(q)
    <3>1. \A x \in 1 .. Size : x - 1 \in Ranks
        BY NBodyAssumption DEF Ranks
    <3> QED
        BY <2>2, <2>4, <3>1 DEF Reduced
  <2>7. TotalOf(Reduced(q))' = TotalOf(Reduced(q))
      BY <2>6
  <2> QED
      BY <1>1, <1>3, <2>2, <2>5, <2>7 DEF OneAhead, LoopTest
<1> QED
    BY <1>2, <1>3 DEF CallInv, InStep

(* A step without a call.                                                  *)
LEMMA QuietKeeps ==
    ASSUME CallInv, StartInv', NEW r \in Ranks, pc[r] # "count",
           NEW next \in PCs, pc' = [pc EXCEPT ![r] = next],
           NEW t \in TurnsOf(next), turn' = [turn EXCEPT ![r] = t], next # "reducing",
           \A q \in Ranks \ {r} : total'[q] = total[q], DOMAIN total' = Ranks,
           UNCHANGED <<given, time, calls>>,
           Total(r)' = Total(r), InLoop(r)' = InLoop(r),
           Made(next, t, Few(r)) = CallsMade(r)
    PROVE  CallInv'
<1>1. /\ DOMAIN pc = Ranks /\ DOMAIN turn = Ranks
      /\ pc'[r] = next /\ turn'[r] = t
      /\ \A q \in Ranks \ {r} : pc'[q] = pc[q] /\ turn'[q] = turn[q]
    BY DEF CallInv, StartInv, TurnInv
<1>2. TurnInv'
  <2>1. turn' \in [Ranks -> Nat]
      BY TurnsType DEF CallInv, TurnInv
  <2> QED
      BY <1>1, <2>1 DEF CallInv, TurnInv, LeavesOut
<1>3. Few(r)' = Few(r)
    BY DEF Few
<1>4. CallsMade(r)' = CallsMade(r)
    BY <1>1, <1>3 DEF CallsMade
<1>5. Base(r)' = Base(r)
    BY <1>4 DEF Base
<1>6. CallsFollowPlan'
  <2>1. ASSUME NEW q \in Ranks
        PROVE  CallsMade(q)' = CallsMade(q) /\ Base(q)' = Base(q) /\ InLoop(q)' = InLoop(q)
               /\ Few(q)' = Few(q)
    <3>1. CASE q = r
        BY <1>3, <1>4, <1>5, <3>1
    <3>2. CASE q # r
        BY <1>1, <3>2 DEF CallsMade, Base, InLoop, Few, Total, Started, LoopTest
    <3> QED
        BY <3>1, <3>2
  <2> QED
      BY <2>1 DEF CallInv, CallsFollowPlan
<1>7. InStep'
  <2>1. Len(calls'[r]) \in Nat /\ Len(calls'[r]) >= Len(calls[r])
      BY CallsType DEF CallInv, StartInv
  <2> QED
      BY <1>1, <1>5, <2>1, RoundKept
<1>8. CallsWellMade' /\ PlacesMatch'
    BY DEF CallInv, CallsWellMade, PlacesMatch
<1> QED
    BY <1>2, <1>6, <1>7, <1>8 DEF CallInv

(* A step with a call, which is the next one of the plan.  A process of    *)
(* the same round that has made it before made it from the same place; one *)
(* that is a round behind has not come so far, and there is none ahead.    *)
LEMMA CallKeeps ==
    ASSUME CallInv, StartInv', NEW r \in Ranks, pc[r] \in CallingPlaces,
           pc[r] = "statistic" => ~LeavesOut(r, turn[r]),
           NEW name, NEW root, NEW data, Call(r, name, root, data),
           name = NameOf(pc[r]), root = RootOf(<<pc[r], turn[r]>>),
           NEW next \in PCs, pc' = [pc EXCEPT ![r] = next],
           NEW t \in TurnsOf(next), turn' = [turn EXCEPT ![r] = t],
           next = "reducing" => pc[r] = "statistic" /\ t = turn[r],
           next \notin {"start", "failed"},
           next \in LoopPlaces <=> pc[r] \in LoopPlaces,
           UNCHANGED <<given, total, time>>,
           Made(next, t, Few(r)) = CallsMade(r) + 1
    PROVE  CallInv'
<1> DEFINE n == Len(calls[r])
           from == <<pc[r], turn[r]>>
           looping == InLoop(r)
<1>1. /\ DOMAIN pc = Ranks /\ DOMAIN turn = Ranks /\ Started(r)
      /\ pc'[r] = next /\ turn'[r] = t /\ Started(r)'
      /\ \A q \in Ranks \ {r} : pc'[q] = pc[q] /\ turn'[q] = turn[q]
    BY DEF CallInv, StartInv, TurnInv, Started, CallingPlaces
<1>2. /\ Len(calls'[r]) = n + 1 /\ calls'[r][n + 1].from = from
      /\ calls'[r][n + 1].call = name /\ calls'[r][n + 1].root = root
      /\ \A k \in 1 .. n : calls'[r][k] = calls[r][k]
      /\ DOMAIN calls'[r] = 1 .. n + 1 /\ DOMAIN calls[r] = 1 .. n
      /\ \A q \in Ranks \ {r} : calls'[q] = calls[q]
  <2> DEFINE call == [call |-> name, root |-> root, data |-> data, from |-> from]
  <2>1. calls' = [calls EXCEPT ![r] = Append(@, call)]
      BY DEF Call
  <2>2. call.from = from /\ call.call = name /\ call.root = root
      OBVIOUS
  <2> HIDE DEF call, from
  <2>3. CallsAreSequences
      BY DEF CallInv, StartInv
  <2>4. DOMAIN calls[r] = 1 .. n
      BY <2>3, CallsType
  <2> QED
      BY <2>1, <2>2, <2>3, <2>4, CallAppended
<1>3. Total(r)' = Total(r) /\ Few(r)' = Few(r) /\ InLoop(r)' = looping
      /\ looping = (pc[r] \in LoopPlaces)
    BY <1>1 DEF Total, Few, InLoop
<1>4. CallsMade(r)' = CallsMade(r) + 1
    BY <1>1, <1>3 DEF CallsMade
<1>5. CallsMade(r) \in Nat /\ Base(r) \in Nat /\ n = Base(r) + CallsMade(r)
    BY CallsMadeType
<1>6. Base(r)' = Base(r)
    BY <1>2, <1>4, <1>5 DEF Base
<1>7. Planned(looping, Few(r), CallsMade(r) + 1) = from
  <2>1. turn[r] \in TurnsOf(pc[r]) /\ Few(r) \in BOOLEAN
      BY DEF CallInv, TurnInv, Few
  <2>2. pc[r] = "statistic" => ~(Few(r) /\ turn[r] % 2 = 1)
      BY <1>1 DEF LeavesOut, Few, Total
  <2> QED
      BY <1>3, <2>1, <2>2, PlannedCall DEF CallsMade
<1> HIDE DEF from
<1>8. TurnInv'
  <2>1. next = "reducing" => ~LeavesOut(r, t)'
      BY DEF LeavesOut
  <2>2. turn' \in [Ranks -> Nat]
      BY TurnsType DEF CallInv, TurnInv
  <2> QED
      BY <1>1, <2>1, <2>2 DEF CallInv, TurnInv, LeavesOut
<1>9. CallsFollowPlan'
  <2>1. ASSUME NEW q \in Ranks, q # r
        PROVE  /\ CallsMade(q)' = CallsMade(q) /\ Base(q)' = Base(q)
               /\ InLoop(q)' = InLoop(q) /\ Few(q)' = Few(q)
      BY <1>1, <1>2, <2>1 DEF CallsMade, Base, InLoop, Few, Total, Started, LoopTest
  <2>2. ASSUME NEW q \in Ranks, q # r
        PROVE  /\ Base(q)' \in Nat
               /\ \A j \in 1 .. CallsMade(q)' :
                     calls'[q][Base(q)' + j].from = Planned(InLoop(q)', Few(q)', j)
      BY <1>2, <2>1, <2>2 DEF CallInv, CallsFollowPlan
  <2>3. ASSUME NEW j \in 1 .. CallsMade(r) + 1
        PROVE  calls'[r][Base(r) + j].from = Planned(looping, Few(r), j)
    <3>1. CASE j = CallsMade(r) + 1
        BY <1>2, <1>5, <1>7, <3>1
    <3>2. CASE j # CallsMade(r) + 1
      <4>1. j \in 1 .. CallsMade(r) /\ Base(r) + j \in 1 .. n
          BY <1>5, <3>2
      <4> QED
          BY <1>2, <4>1 DEF CallInv, CallsFollowPlan
    <3> QED
        BY <3>1, <3>2
  <2>4. /\ Base(r)' \in Nat
        /\ \A j \in 1 .. CallsMade(r)' :
              calls'[r][Base(r)' + j].from = Planned(InLoop(r)', Few(r)', j)
      BY <1>3, <1>4, <1>5, <1>6, <2>3
  <2> QED
      BY <2>2, <2>4 DEF CallsFollowPlan
<1>10. CallsWellMade'
  <2>1. NameOf(from[1]) = name /\ RootOf(from) = root
      BY DEF from
  <2>2. \A k \in 1 .. n + 1 : k = n + 1 \/ k \in 1 .. n
      BY <1>5
  <2>3. CallsWellMade
      BY DEF CallInv
  <2>4. ASSUME NEW k \in DOMAIN calls'[r]
        PROVE  /\ calls'[r][k].call = NameOf(calls'[r][k].from[1])
               /\ calls'[r][k].root = RootOf(calls'[r][k].from)
    <3>1. CASE k = n + 1
        BY <1>2, <2>1, <3>1
    <3>2. CASE k # n + 1
      <4>1. k \in DOMAIN calls[r] /\ calls'[r][k] = calls[r][k]
          BY <1>2, <2>2, <3>2
      <4> QED
        BY <2>3, <4>1 DEF CallsWellMade
    <3> QED
      BY <3>1, <3>2
  <2>5. ASSUME NEW q \in Ranks, q # r, NEW k \in DOMAIN calls'[q]
        PROVE  /\ calls'[q][k].call = NameOf(calls'[q][k].from[1])
               /\ calls'[q][k].root = RootOf(calls'[q][k].from)
    <3>1. calls'[q] = calls[q]
        BY <1>2, <2>5
    <3> QED
      BY <2>3, <2>5, <3>1 DEF CallsWellMade
  <2> QED
      BY <2>4, <2>5 DEF CallsWellMade
<1>11. InStep'
  <2>1. Len(calls'[r]) \in Nat /\ Len(calls'[r]) >= Len(calls[r]) /\ pc[r] # "count"
      BY <1>2, <1>5 DEF CallingPlaces
  <2> QED
      BY <1>1, <1>2, <1>3, <1>6, <2>1, RoundKept
<1>12. ASSUME NEW q \in Ranks, q # r, n + 1 \in DOMAIN calls[q]
       PROVE  calls[q][n + 1].from = from
  <2>1. Len(calls[q]) >= n + 1 /\ Len(calls[q]) \in Nat
      BY <1>5, <1>12, CallsType DEF CallInv, StartInv
  <2>2. SameRound(r, q)
    <3>1. ~OneAhead(q, r)
        BY DEF OneAhead, CallingPlaces
    <3>2. ~OneAhead(r, q)
        BY <1>5, <2>1 DEF OneAhead
    <3> QED
        BY <3>1, <3>2 DEF CallInv, InStep
  <2>3. InLoop(q) = looping /\ Few(q) = Few(r) /\ Base(q) = Base(r)
      BY <2>2 DEF SameRound, Few
  <2>4. CallsMade(q) \in Nat /\ Len(calls[q]) = Base(q) + CallsMade(q)
      BY CallsMadeType
  <2>5. CallsMade(r) + 1 \in 1 .. CallsMade(q)
      BY <1>5, <2>1, <2>3, <2>4
  <2>6. calls[q][Base(q) + (CallsMade(r) + 1)].from
          = Planned(InLoop(q), Few(q), CallsMade(r) + 1)
      BY <2>5 DEF CallInv, CallsFollowPlan
  <2>7. Base(q) + (CallsMade(r) + 1) = n + 1
      BY <1>5, <2>3
  <2> QED
      BY <1>7, <2>3, <2>6, <2>7
<1>13. PlacesMatch'
  <2>1. ASSUME NEW q \in Ranks, q # r, NEW k \in DOMAIN calls'[r] \cap DOMAIN calls'[q]
        PROVE  calls'[r][k].from = calls'[q][k].from
    <3>1. calls'[q] = calls[q]
        BY <1>2, <2>1
    <3>2. CASE k = n + 1
        BY <1>2, <1>12, <2>1, <3>1, <3>2
    <3>3. CASE k # n + 1
      <4>1. k \in DOMAIN calls[r] \cap DOMAIN calls[q] /\ calls'[r][k] = calls[r][k]
          BY <1>2, <1>5, <3>1, <3>3
      <4> QED
          BY <3>1, <4>1 DEF CallInv, PlacesMatch
    <3> QED
        BY <3>2, <3>3
  <2>2. ASSUME NEW p \in Ranks, NEW q \in Ranks, p # r, q # r,
               NEW k \in DOMAIN calls'[p] \cap DOMAIN calls'[q]
        PROVE  calls'[p][k].from = calls'[q][k].from
      BY <1>2, <2>2 DEF CallInv, PlacesMatch
  <2> QED
      BY <2>1, <2>2 DEF PlacesMatch
<1> QED
    BY <1>8, <1>9, <1>10, <1>11, <1>13 DEF CallInv

(* Who leaves the reduction of the count knows that everybody is in it, or *)
(* has left it: both have the same sum.                                    *)
LEMMA CountKeeps ==
    ASSUME CallInv, StartInv', NEW r \in Ranks, CountBodies(r)
    PROVE  CallInv'
<1> DEFINE next == LoopTest(time'[r], total'[r])
<1>1. /\ pc[r] = "count" /\ EverybodyCame(r) /\ DOMAIN pc = Ranks
      /\ DOMAIN total = Ranks /\ DOMAIN time = Ranks
      /\ turn[r] \in TurnsOf(pc[r]) /\ UNCHANGED <<given, turn, calls>>
    BY DEF CountBodies, CallInv, StartInv, TurnInv
<1>2. /\ total'[r] = TotalOf(Reduced(r)) /\ time'[r] = time[r] + DeltaTime /\ pc'[r] = next
      /\ DOMAIN total' = Ranks /\ DOMAIN time' = Ranks
      /\ \A q \in Ranks \ {r} : pc'[q] = pc[q] /\ total'[q] = total[q] /\ time'[q] = time[q]
    BY <1>1 DEF CountBodies, GoTo
<1>3. next \in {"collide", "save"} /\ (next \in LoopPlaces <=> next = "collide")
    BY DEF LoopTest, LoopPlaces
<1>4. turn[r] = 0 /\ 0 \in TurnsOf("collide") /\ 0 \in TurnsOf("save")
    BY <1>1, NBodyAssumption DEF TurnsOf, Ranks
<1>5. TurnInv'
  <2>1. turn'[r] \in TurnsOf(pc'[r]) /\ pc'[r] # "reducing"
      BY <1>1, <1>2, <1>3, <1>4
  <2> QED
      BY <1>1, <1>2, <2>1 DEF CallInv, TurnInv, LeavesOut
<1>6. /\ Total(r)' = TotalOf(Reduced(r)) /\ InLoop(r)' = (next = "collide")
      /\ CallsMade(r)' = 0 /\ Base(r)' = Len(calls[r]) /\ Len(calls[r]) \in Nat
  <2>1. Started(r)'
      BY <1>2, <1>3 DEF Started
  <2>2. Len(calls[r]) \in Nat
      BY CallsType DEF CallInv, StartInv
  <2>3. CallsMade(r)' = 0
    <3>1. Made(next, 0, Few(r)') = 0
        BY <1>3, MadeAt
    <3> QED
        BY <1>1, <1>2, <1>4, <3>1 DEF CallsMade
  <2> QED
      BY <1>1, <1>2, <1>3, <2>1, <2>2, <2>3 DEF Total, InLoop, Base
<1> HIDE DEF next
<1>7. ASSUME NEW q \in Ranks, q # r
      PROVE  /\ CallsMade(q)' = CallsMade(q) /\ Base(q)' = Base(q)
             /\ InLoop(q)' = InLoop(q) /\ Total(q)' = Total(q) /\ Few(q)' = Few(q)
    BY <1>1, <1>2, <1>7 DEF CallsMade, Base, InLoop, Few, Total, Started, LoopTest
<1>8. CallsFollowPlan'
  <2>1. ASSUME NEW q \in Ranks
        PROVE  /\ Base(q)' \in Nat
               /\ \A j \in 1 .. CallsMade(q)' :
                     calls'[q][Base(q)' + j].from = Planned(InLoop(q)', Few(q)', j)
    <3>1. CASE q = r
        BY <1>6, <3>1
    <3>2. CASE q # r
        BY <1>1, <1>7, <3>2 DEF CallInv, CallsFollowPlan
    <3> QED
        BY <3>1, <3>2
  <2> QED
      BY <2>1 DEF CallsFollowPlan
<1>9. CallsWellMade' /\ PlacesMatch'
    BY <1>1 DEF CallInv, CallsWellMade, PlacesMatch
<1>10. CallsMade(r) = 2 * Size + 1 /\ InLoop(r) /\ Len(calls[r]) = Base(r) + (2 * Size + 1)
       /\ Base(r) \in Nat /\ Size \in Nat \ {0}
  <2>1. CallsMade(r) = 2 * Size + 1 /\ InLoop(r)
      BY <1>1, MadeAt DEF CallsMade, InLoop, Started, LoopPlaces
  <2> QED
      BY <2>1, CallsMadeType, NBodyAssumption
<1>11. ASSUME NEW p \in Ranks, p # r
       PROVE  OneAhead(r, p)' \/ SameRound(p, r)'
  <2>1. ~OneAhead(r, p)
    <3>1. Len(calls[p]) >= Len(calls[r])
        BY <1>1 DEF EverybodyCame
    <3>2. Base(r) # Len(calls[p])
        BY <1>6, <1>10, <3>1
    <3> QED
        BY <3>2 DEF OneAhead
  <2>2. CASE OneAhead(p, r)
    <3>1. /\ Base(p) = Len(calls[r]) /\ Total(p) = TotalOf(Reduced(r))
          /\ time[p] = time[r] + DeltaTime
          /\ InLoop(p) = (LoopTest(time[p], Total(p)) = "collide")
        BY <2>2 DEF OneAhead
    <3>2. LoopTest(time[p], Total(p)) = next
        BY <1>2, <3>1 DEF next
    <3> QED
        BY <1>2, <1>6, <1>7, <1>11, <3>1, <3>2 DEF SameRound
  <2>3. CASE SameRound(r, p)
    <3>1. Base(p) = Base(r) /\ InLoop(p) /\ time[p] = time[r]
        BY <1>10, <2>3 DEF SameRound
    <3>2. /\ CallsMade(p) \in Nat /\ Len(calls[p]) = Base(p) + CallsMade(p)
          /\ Len(calls[p]) >= Len(calls[r])
        BY <1>1, CallsMadeType DEF EverybodyCame
    <3>3. CallsMade(p) >= 2 * Size + 1
        BY <1>10, <3>1, <3>2
    <3>4. pc[p] = "count"
      <4>1. Started(p)
        <5>1. SUFFICES ASSUME ~Started(p) PROVE FALSE
            OBVIOUS
        <5>2. CallsMade(p) = 0
            BY <5>1, MadeAt DEF CallsMade, Started
        <5> QED
            BY <1>10, <3>3, <5>2
      <4>2. pc[p] \in LoopPlaces
          BY <3>1, <4>1 DEF InLoop
      <4>3. turn[p] \in TurnsOf(pc[p]) /\ Few(p) \in BOOLEAN
          BY DEF CallInv, TurnInv, Few
      <4> QED
          BY <3>3, <4>2, <4>3, MadeInLoop DEF CallsMade
    <3>5. Len(calls[p]) = Len(calls[r])
      <4>1. CallsMade(p) = 2 * Size + 1
          BY <3>4, MadeAt DEF CallsMade
      <4> QED
          BY <1>10, <3>1, <3>2, <4>1
    <3>6. Reduced(p) = Reduced(r) /\ EverybodyCame(p)
        BY <1>1, <3>5 DEF Reduced, EverybodyCame
    <3>7. Reduced(p)' = Reduced(p) /\ EverybodyCame(p)'
        BY <1>1, <3>6 DEF Reduced, EverybodyCame
    <3>8. InLoop(r)' = (LoopTest(time'[r], Total(r)') = "collide")
        BY <1>2, <1>6 DEF next
    <3>9. pc'[p] = "count" /\ time'[p] = time[r] /\ calls'[p] = calls[p]
        BY <1>1, <1>2, <1>11, <3>1, <3>4
    <3>10. TotalOf(Reduced(p))' = TotalOf(Reduced(r))
        BY <3>6, <3>7
    <3>11. LoopTest(time[r], Total(r))' = LoopTest(time'[r], Total(r)')
        BY <1>1 DEF LoopTest
    <3> QED
        BY <1>2, <1>6, <3>5, <3>7, <3>8, <3>9, <3>10, <3>11 DEF OneAhead
  <2> QED
      BY <2>1, <2>2, <2>3 DEF CallInv, InStep
<1>12. ASSUME NEW p \in Ranks, NEW q \in Ranks, p # r, q # r
       PROVE  (SameRound(p, q) \/ OneAhead(p, q) \/ OneAhead(q, p))'
  <2>1. SameRound(p, q) => SameRound(p, q)'
      BY <1>2, <1>7, <1>12 DEF SameRound
  <2>2. OneAhead(p, q) => OneAhead(p, q)'
      BY <1>1, <1>2, <1>7, <1>12 DEF OneAhead, EverybodyCame, Reduced, LoopTest
  <2>3. OneAhead(q, p) => OneAhead(q, p)'
      BY <1>1, <1>2, <1>7, <1>12 DEF OneAhead, EverybodyCame, Reduced, LoopTest
  <2> QED
      BY <2>1, <2>2, <2>3 DEF CallInv, InStep
<1>13. InStep'
  <2>1. SameRound(r, r)'
      BY DEF SameRound
  <2>2. ASSUME NEW p \in Ranks, p # r
        PROVE  /\ (SameRound(p, r) \/ OneAhead(p, r) \/ OneAhead(r, p))'
               /\ (SameRound(r, p) \/ OneAhead(r, p) \/ OneAhead(p, r))'
    <3>1. SameRound(p, r)' => SameRound(r, p)'
        BY DEF SameRound
    <3> QED
        BY <1>11, <2>2, <3>1
  <2> QED
      BY <1>12, <2>1, <2>2 DEF InStep
<1> QED
    BY <1>5, <1>8, <1>9, <1>13 DEF CallInv

(* A turn of a loop over ranks, in which its rank broadcasts.              *)
LEMMA TurnKeeps ==
    ASSUME CallInv, StartInv', NEW r \in Ranks, NEW next, NEW data,
           \/ pc[r] = "collideTurn" /\ next = "accelerate"
           \/ pc[r] = "accelerateTurn" /\ next = "move"
           \/ pc[r] = "distanceTurn" /\ next = "statistic",
           Call(r, "broadcast", turn[r], data), NextTurn(r, next),
           UNCHANGED <<given, total, time>>
    PROVE  CallInv'
<1>1. Size \in Nat \ {0} /\ turn[r] \in 0 .. Size - 1 /\ Few(r) \in BOOLEAN
    BY NBodyAssumption DEF CallInv, TurnInv, TurnsOf, Ranks, Few
<1>2. StatisticsMade(Few(r), 0) = 0
    BY <1>1, StatisticsCounted
<1>3. /\ pc[r] \in CallingPlaces /\ pc[r] # "statistic" /\ NameOf(pc[r]) = "broadcast"
      /\ RootOf(<<pc[r], turn[r]>>) = turn[r]
    BY DEF CallingPlaces, NameOf, RootOf
<1>4. PICK place \in {pc[r], next}, t \in {turn[r] + 1, 0} :
            /\ pc' = [pc EXCEPT ![r] = place] /\ turn' = [turn EXCEPT ![r] = t]
            /\ IF turn[r] < Size - 1 THEN place = pc[r] /\ t = turn[r] + 1
               ELSE place = next /\ t = 0
  <2>1. pc = [pc EXCEPT ![r] = pc[r]]
      BY DEF CallInv, StartInv
  <2>2. CASE turn[r] < Size - 1
      BY <2>1, <2>2 DEF NextTurn
  <2>3. CASE ~(turn[r] < Size - 1)
      BY <2>3 DEF NextTurn
  <2> QED
      BY <2>2, <2>3
<1>5. Made(place, t, Few(r)) = CallsMade(r) + 1
  <2>1. CASE turn[r] < Size - 1
      BY <1>1, <1>4, <2>1, MadeAt DEF CallsMade
  <2>2. CASE ~(turn[r] < Size - 1)
    <3>1. turn[r] = Size - 1 /\ place = next /\ t = 0
        BY <1>1, <1>4, <2>2
    <3> QED
        BY <1>1, <1>2, <3>1, MadeAt DEF CallsMade
  <2> QED
      BY <2>1, <2>2
<1>6. /\ place \in PCs /\ place \notin {"start", "failed", "reducing"}
      /\ place \in LoopPlaces <=> pc[r] \in LoopPlaces
    BY <1>4 DEF PCs, LoopPlaces
<1>7. t \in TurnsOf(place)
    BY <1>1, <1>4 DEF TurnsOf, Ranks
<1> QED
    BY <1>3, <1>4, <1>5, <1>6, <1>7, CallKeeps

(* The statistics that the processes leave out are the same for each.      *)
LEMMA StatisticLeft ==
    ASSUME CallInv, NEW r \in Ranks, pc[r] \in {"statistic", "reducing"}, NextStatistic(r)
    PROVE  \E place \in {"statistic", "done"} :
              /\ pc' = [pc EXCEPT ![r] = place] /\ turn' = [turn EXCEPT ![r] = turn[r] + 1]
              /\ turn[r] + 1 \in TurnsOf(place) /\ turn[r] \in 0 .. 3
              /\ \A few : Made(place, turn[r] + 1, few)
                            = 2 * Size + StatisticsMade(few, turn[r] + 1)
<1>1. turn[r] \in 0 .. 3
    BY DEF CallInv, TurnInv, TurnsOf
<1>2. CASE turn[r] = 3
    BY <1>1, <1>2, MadeAt DEF NextStatistic, GoTo, TurnsOf
<1>3. CASE turn[r] # 3
    BY <1>1, <1>3, MadeAt DEF NextStatistic, GoTo, TurnsOf
<1> QED
    BY <1>2, <1>3

LEMMA CallInvInitial == Init => CallInv
<1> SUFFICES ASSUME Init PROVE CallInv
    OBVIOUS
<1>1. StartInv
    BY StartInvInitial
<1>2. /\ \A r \in Ranks : pc[r] = "start" /\ turn[r] = 0 /\ calls[r] = << >> /\ time[r] = 0
      /\ turn \in [Ranks -> Nat] /\ DOMAIN total = Ranks /\ DOMAIN time = Ranks
    BY DEF Init
<1>3. TurnInv
    BY <1>2 DEF TurnInv, TurnsOf
<1>4. \A r \in Ranks : CallsMade(r) = 0 /\ Len(calls[r]) = 0 /\ DOMAIN calls[r] = {}
    BY <1>2, MadeAt DEF CallsMade
<1>5. \A r \in Ranks : Base(r) = 0 /\ ~Started(r)
    BY <1>2, <1>4 DEF Base, Started
<1>6. CallsFollowPlan
    BY <1>4, <1>5 DEF CallsFollowPlan
<1>7. CallsWellMade /\ PlacesMatch
    BY <1>4 DEF CallsWellMade, PlacesMatch
<1>8. InStep
    BY <1>2, <1>5 DEF InStep, SameRound, InLoop, Total
<1> QED
    BY <1>1, <1>3, <1>6, <1>7, <1>8 DEF CallInv

LEMMA CallInvStep == CallInv /\ [Next]_vars => CallInv'
<1> SUFFICES ASSUME CallInv, [Next]_vars PROVE CallInv'
    OBVIOUS
<1>1. StartInv'
    BY StartInvStep DEF CallInv
<1>2. CASE UNCHANGED vars
    BY <1>1, <1>2 DEF vars, CallInv, TurnInv, LeavesOut, CallsFollowPlan, CallsWellMade, InStep,
       PlacesMatch, SameRound, OneAhead, Base, CallsMade, InLoop, Few, Total, Started,
       EverybodyCame, Reduced, LoopTest
<1>3. CASE Next
  <2>1. PICK r \in Ranks : Process(r)
      BY <1>3 DEF Next
  <2>2. /\ turn[r] \in TurnsOf(pc[r]) /\ turn \in [Ranks -> Nat] /\ DOMAIN total = Ranks
        /\ DOMAIN pc = Ranks /\ Few(r) \in BOOLEAN
        /\ Size \in Nat \ {0}
      BY NBodyAssumption DEF CallInv, TurnInv, StartInv, Few
  <2>3. turn = [turn EXCEPT ![r] = turn[r]]
      BY <2>2
  <2>4. CASE Start(r)
    <3>1. /\ pc[r] = "start" /\ pc' = [pc EXCEPT ![r] = LoopTest(0, given.universe.count)]
          /\ UNCHANGED <<given, turn, time, calls>>
          /\ total' = [total EXCEPT ![r] = given.universe.count]
        BY <2>4 DEF Start, GoTo
    <3>2. PICK next \in {"collide", "save"} : next = LoopTest(0, given.universe.count)
        BY DEF LoopTest
    <3>3. Total(r)' = Total(r) /\ InLoop(r)' = InLoop(r)
        BY <2>2, <3>1, <3>2 DEF Total, InLoop, Started, LoopPlaces
    <3>4. next \in PCs /\ next # "reducing" /\ turn[r] \in TurnsOf(next) /\ turn[r] = 0
        BY <2>2, <3>1 DEF PCs, TurnsOf, Ranks
    <3>5. Made(next, turn[r], Few(r)) = CallsMade(r)
        BY <3>1, <3>4, MadeAt DEF CallsMade
    <3> QED
        BY <1>1, <2>2, <2>3, <3>1, <3>2, <3>3, <3>4, <3>5, QuietKeeps
  <2>5. CASE StartFails(r)
    <3>1. /\ pc[r] = "start" /\ pc' = [pc EXCEPT ![r] = "failed"]
          /\ UNCHANGED <<given, turn, time, calls, total>>
        BY <2>5 DEF StartFails, GoTo
    <3>2. Total(r)' = Total(r) /\ InLoop(r)' = InLoop(r)
        BY <2>2, <3>1 DEF Total, InLoop, Started, LoopTest
    <3>3. "failed" \in PCs /\ turn[r] \in TurnsOf("failed")
        BY <2>2, <3>1 DEF PCs, TurnsOf
    <3>4. Made("failed", turn[r], Few(r)) = CallsMade(r)
        BY <3>1, MadeAt DEF CallsMade
    <3> QED
        BY <1>1, <2>2, <2>3, <3>1, <3>2, <3>3, <3>4, QuietKeeps
  <2>6. CASE LocalCollisions(r) \/ LocalAccelerations(r) \/ LeaveBarrier(r) \/ OwnDistances(r)
             \/ LeaveOutStatistic(r) \/ LeaveStatistic(r)
    <3>1. UNCHANGED <<given, time, calls, total>>
        BY <2>6 DEF LocalCollisions, LocalAccelerations, LeaveBarrier, OwnDistances,
           LeaveOutStatistic, LeaveStatistic
    <3>2. SUFFICES \E next \in PCs \ {"reducing", "start", "failed"} : \E t \in TurnsOf(next) :
                       /\ pc' = [pc EXCEPT ![r] = next] /\ turn' = [turn EXCEPT ![r] = t]
                       /\ pc[r] \notin {"count", "start", "failed"}
                       /\ next \in LoopPlaces <=> pc[r] \in LoopPlaces
                       /\ Made(next, t, Few(r)) = CallsMade(r)
      <4>0. PICK next \in PCs \ {"reducing", "start", "failed"} : \E t \in TurnsOf(next) :
                  /\ pc' = [pc EXCEPT ![r] = next] /\ turn' = [turn EXCEPT ![r] = t]
                  /\ pc[r] \notin {"count", "start", "failed"}
                  /\ next \in LoopPlaces <=> pc[r] \in LoopPlaces
                  /\ Made(next, t, Few(r)) = CallsMade(r)
          BY <3>2
      <4>1. PICK t \in TurnsOf(next) :
                  /\ pc' = [pc EXCEPT ![r] = next] /\ turn' = [turn EXCEPT ![r] = t]
                  /\ pc[r] \notin {"count", "start", "failed"}
                  /\ next \in LoopPlaces <=> pc[r] \in LoopPlaces
                  /\ Made(next, t, Few(r)) = CallsMade(r)
          BY <4>0
      <4>2. Total(r)' = Total(r) /\ InLoop(r)' = InLoop(r)
          BY <2>2, <3>1, <4>1 DEF Total, InLoop, Started
      <4> QED
          BY <1>1, <2>2, <3>1, <4>1, <4>2, QuietKeeps
    <3>3. CASE LocalCollisions(r)
      <4>1. pc[r] = "collide" /\ pc' = [pc EXCEPT ![r] = "collideTurn"] /\ turn[r] = 0
            /\ turn' = turn
          BY <2>2, <3>3 DEF LocalCollisions, GoTo, TurnsOf
      <4>2. 0 \in TurnsOf("collideTurn")
          BY <2>2 DEF TurnsOf, Ranks
      <4>3. Made("collideTurn", 0, Few(r)) = CallsMade(r)
          BY <4>1, MadeAt DEF CallsMade
      <4> QED
          BY <2>3, <4>1, <4>2, <4>3 DEF PCs, LoopPlaces
    <3>4. CASE LocalAccelerations(r)
      <4>1. pc[r] = "accelerate" /\ pc' = [pc EXCEPT ![r] = "accelerateTurn"] /\ turn[r] = 0
            /\ turn' = turn
          BY <2>2, <3>4 DEF LocalAccelerations, GoTo, TurnsOf
      <4>2. 0 \in TurnsOf("accelerateTurn")
          BY <2>2 DEF TurnsOf, Ranks
      <4>3. Made("accelerateTurn", 0, Few(r)) = CallsMade(r)
          BY <2>2, <4>1, MadeAt DEF CallsMade
      <4> QED
          BY <2>3, <4>1, <4>2, <4>3 DEF PCs, LoopPlaces
    <3>5. CASE LeaveBarrier(r)
      <4>1. pc[r] = "barrier" /\ turn[r] \in 0 .. Size - 1
          BY <2>2, <3>5 DEF LeaveBarrier, TurnsOf, Ranks
      <4>2. CallsMade(r) = turn[r] + 1
          BY <4>1, MadeAt DEF CallsMade
      <4>3. CASE turn[r] < Size - 1
        <5>1. pc' = [pc EXCEPT ![r] = "save"] /\ turn' = [turn EXCEPT ![r] = turn[r] + 1]
            BY <3>5, <4>3 DEF LeaveBarrier, GoTo
        <5>2. turn[r] + 1 \in TurnsOf("save")
            BY <2>2, <4>1, <4>3 DEF TurnsOf, Ranks
        <5>3. Made("save", turn[r] + 1, Few(r)) = CallsMade(r)
            BY <4>2, MadeAt
        <5> QED
            BY <4>1, <5>1, <5>2, <5>3 DEF PCs, LoopPlaces
      <4>4. CASE ~(turn[r] < Size - 1)
        <5>1. pc' = [pc EXCEPT ![r] = "distances"] /\ turn' = [turn EXCEPT ![r] = 0]
            BY <3>5, <4>4 DEF LeaveBarrier, GoTo
        <5>2. 0 \in TurnsOf("distances") /\ turn[r] + 1 = Size
            BY <2>2, <4>1, <4>4 DEF TurnsOf
        <5>3. Made("distances", 0, Few(r)) = CallsMade(r)
            BY <4>2, <5>2, MadeAt
        <5> QED
            BY <4>1, <5>1, <5>2, <5>3 DEF PCs, LoopPlaces
      <4> QED
          BY <4>3, <4>4
    <3>6. CASE OwnDistances(r)
      <4>1. PICK next \in {"undefined", "distanceTurn"} : pc' = [pc EXCEPT ![r] = next]
          BY <3>6 DEF OwnDistances, GoTo
      <4>2. pc[r] = "distances" /\ turn[r] = 0 /\ turn' = turn
          BY <2>2, <3>6 DEF OwnDistances, TurnsOf
      <4>3. 0 \in TurnsOf(next)
          BY <2>2 DEF TurnsOf, Ranks
      <4>4. Made(next, 0, Few(r)) = CallsMade(r)
          BY <2>2, <4>2, MadeAt DEF CallsMade
      <4> QED
          BY <2>3, <4>1, <4>2, <4>3, <4>4 DEF PCs, LoopPlaces
    <3>7. CASE LeaveOutStatistic(r)
      <4>1. pc[r] = "statistic" /\ NextStatistic(r) /\ Few(r) /\ turn[r] % 2 = 1
          BY <3>7 DEF LeaveOutStatistic, LeavesOut, Few, Total, Started
      <4>2. PICK place \in {"statistic", "done"} :
                  /\ pc' = [pc EXCEPT ![r] = place] /\ turn' = [turn EXCEPT ![r] = turn[r] + 1]
                  /\ turn[r] + 1 \in TurnsOf(place) /\ turn[r] \in 0 .. 3
                  /\ \A few : Made(place, turn[r] + 1, few)
                                = 2 * Size + StatisticsMade(few, turn[r] + 1)
          BY <4>1, StatisticLeft
      <4>3. StatisticsMade(Few(r), turn[r] + 1) = StatisticsMade(Few(r), turn[r])
        <5>1. Few(r) \in BOOLEAN
            BY DEF Few
        <5>2. \A t \in 0 .. 3 : Few(r) /\ t % 2 = 1 =>
                 StatisticsMade(Few(r), t + 1) = StatisticsMade(Few(r), t)
            BY <5>1, StatisticsCounted
        <5> QED
            BY <4>1, <4>2, <5>2
      <4>4. Made(place, turn[r] + 1, Few(r)) = CallsMade(r)
        <5>1. pc[r] = "statistic"
            BY <4>1
        <5>2. CallsMade(r) = 2 * Size + StatisticsMade(Few(r), turn[r])
            BY <5>1, MadeAt DEF CallsMade
        <5> QED
            BY <4>2, <4>3, <5>2
      <4> QED
          BY <4>1, <4>2, <4>4 DEF PCs, LoopPlaces
    <3>8. CASE LeaveStatistic(r)
      <4>1. pc[r] = "reducing" /\ NextStatistic(r) /\ ~(Few(r) /\ turn[r] % 2 = 1)
          BY <3>8 DEF LeaveStatistic, CallInv, TurnInv, LeavesOut, Few, Total, Started
      <4>2. PICK place \in {"statistic", "done"} :
                  /\ pc' = [pc EXCEPT ![r] = place] /\ turn' = [turn EXCEPT ![r] = turn[r] + 1]
                  /\ turn[r] + 1 \in TurnsOf(place) /\ turn[r] \in 0 .. 3
                  /\ \A few : Made(place, turn[r] + 1, few)
                                = 2 * Size + StatisticsMade(few, turn[r] + 1)
          BY <4>1, StatisticLeft
      <4>3. StatisticsMade(Few(r), turn[r] + 1) = StatisticsMade(Few(r), turn[r]) + 1
            /\ StatisticsMade(Few(r), turn[r]) \in 0 .. 4
          BY <2>2, <4>1, <4>2, StatisticsCounted
      <4>4. Made(place, turn[r] + 1, Few(r)) = CallsMade(r)
        <5>1. pc[r] = "reducing"
            BY <4>1
        <5>2. CallsMade(r) = 2 * Size + StatisticsMade(Few(r), turn[r]) + 1
            BY <5>1, MadeAt DEF CallsMade
        <5> QED
            BY <2>2, <4>2, <4>3, <5>2
      <4> QED
          BY <4>1, <4>2, <4>4 DEF PCs, LoopPlaces
    <3> QED
        BY <2>6, <3>3, <3>4, <3>5, <3>6, <3>7, <3>8
  <2>7. CASE CollisionTurn(r) \/ AccelerationTurn(r) \/ DistanceTurn(r)
    <3>1. /\ UNCHANGED <<given, total, time>>
          /\ \E data : Call(r, "broadcast", turn[r], data)
          /\ \/ pc[r] = "collideTurn" /\ NextTurn(r, "accelerate")
             \/ pc[r] = "accelerateTurn" /\ NextTurn(r, "move")
             \/ pc[r] = "distanceTurn" /\ NextTurn(r, "statistic")
        BY <2>7 DEF CollisionTurn, AccelerationTurn, DistanceTurn
    <3> QED
        BY <1>1, <3>1, TurnKeeps
  <2>8. CASE Move(r)
    <3>1. /\ pc[r] = "move" /\ pc' = [pc EXCEPT ![r] = "count"] /\ turn' = turn /\ turn[r] = 0
          /\ UNCHANGED <<given, total, time>>
          /\ Call(r, "allReduce", NoRoot, universe[r].active)
        BY <2>2, <2>8 DEF Move, GoTo, TurnsOf
    <3>2. /\ "allReduce" = NameOf(pc[r]) /\ NoRoot = RootOf(<<pc[r], turn[r]>>)
          /\ 0 \in TurnsOf("count")
        BY <3>1 DEF NameOf, RootOf, TurnsOf
    <3>3. Made("count", 0, Few(r)) = CallsMade(r) + 1
        BY <3>1, MadeAt DEF CallsMade
    <3>4. pc[r] \in CallingPlaces /\ "count" \in PCs /\ pc[r] \in LoopPlaces
          /\ "count" \in LoopPlaces
        BY <3>1 DEF CallingPlaces, PCs, LoopPlaces
    <3> QED
        BY <1>1, <2>3, <3>1, <3>2, <3>3, <3>4, CallKeeps
  <2>9. CASE SaveTurn(r)
    <3>1. /\ pc[r] = "save" /\ pc' = [pc EXCEPT ![r] = "barrier"] /\ turn' = turn
          /\ UNCHANGED <<given, total, time>> /\ Call(r, "barrier", NoRoot, 0)
        BY <2>9 DEF SaveTurn, GoTo
    <3>2. /\ "barrier" = NameOf(pc[r]) /\ NoRoot = RootOf(<<pc[r], turn[r]>>)
          /\ turn[r] \in TurnsOf("barrier")
        BY <2>2, <3>1 DEF NameOf, RootOf, TurnsOf
    <3>3. Made("barrier", turn[r], Few(r)) = CallsMade(r) + 1
        BY <3>1, MadeAt DEF CallsMade
    <3>4. pc[r] \in CallingPlaces /\ "barrier" \in PCs /\ pc[r] \notin LoopPlaces
          /\ "barrier" \notin LoopPlaces
        BY <3>1 DEF CallingPlaces, PCs, LoopPlaces
    <3> QED
        BY <1>1, <2>3, <3>1, <3>2, <3>3, <3>4, CallKeeps
  <2>10. CASE EnterStatistic(r)
    <3>1. /\ pc[r] = "statistic" /\ pc' = [pc EXCEPT ![r] = "reducing"] /\ turn' = turn
          /\ UNCHANGED <<given, total, time>> /\ ~LeavesOut(r, turn[r])
          /\ Call(r, "allReduce", NoRoot, Summed(r, turn[r]))
        BY <2>10 DEF EnterStatistic, GoTo
    <3>2. /\ "allReduce" = NameOf(pc[r]) /\ NoRoot = RootOf(<<pc[r], turn[r]>>)
          /\ turn[r] \in TurnsOf("reducing")
        BY <2>2, <3>1 DEF NameOf, RootOf, TurnsOf
    <3>3. Made("reducing", turn[r], Few(r)) = CallsMade(r) + 1
        BY <3>1, MadeAt DEF CallsMade
    <3>4. pc[r] \in CallingPlaces /\ "reducing" \in PCs /\ pc[r] \notin LoopPlaces
          /\ "reducing" \notin LoopPlaces
        BY <3>1 DEF CallingPlaces, PCs, LoopPlaces
    <3> QED
        BY <1>1, <2>3, <3>1, <3>2, <3>3, <3>4, CallKeeps
  <2>11. CASE CountBodies(r)
      BY <1>1, <2>11, CountKeeps
  <2> QED
      BY <2>1, <2>4, <2>5, <2>6, <2>7, <2>8, <2>9, <2>10, <2>11 DEF Process
<1> QED
    BY <1>2, <1>3

(* The rounds of all processes, whatever their bodies and however far each *)
(* of them is: at most one reduction of the count apart.                   *)
THEOREM RoundsInStep == Spec => []CallInv
<1> QED
    BY CallInvInitial, CallInvStep, PTL DEF Spec

(* The k-th collective call of every process is the same call from the     *)
(* same place of Simulation.cpp: no process reads, or waits for, what      *)
(* another sends for something else.  It holds because the loop's          *)
(* condition is a matter of reduced values alone.                          *)
THEOREM CallsMatch == Spec => []CollectivesMatch
<1>1. CallInv => CollectivesMatch
    BY DEF CallInv, PlacesMatch, CallsWellMade, CollectivesMatch
<1> QED
    BY <1>1, RoundsInStep, PTL

---------------------------------------------------------------------------
(* Folds *)

(* A set of natural numbers that has none unless it has a smaller one has  *)
(* none.                                                                   *)
LEMMA NoLeast ==
    ASSUME NEW T, T \subseteq Nat, \A k \in T : \E j \in T : j < k
    PROVE  T = {}
<1> DEFINE Intervals == {1 .. k : k \in T}
           R == StrictSubsetOrdering(Nat)
           F == FiniteSubsetsOf(Nat)
<1>1. SUFFICES ASSUME T # {} PROVE FALSE
    OBVIOUS
<1>2. IsWellFoundedOn(R, F)
    BY FS_StrictSubsetOrderingWellFounded
<1>3. Intervals \subseteq F /\ Intervals # {}
  <2>1. \A k \in T : IsFiniteSet(1 .. k) /\ 1 .. k \subseteq Nat
      BY FS_Interval
  <2> QED
      BY <1>1, <2>1 DEF FiniteSubsetsOf
<1>4. PICK x \in Intervals : \A y \in Intervals : <<y, x>> \notin R
  <2> HIDE DEF R, F, Intervals
  <2> QED
    BY <1>2, <1>3, WFMin
<1>5. PICK k \in T : x = 1 .. k
    OBVIOUS
<1>6. PICK j \in T : j < k
    OBVIOUS
<1>7. 1 .. j \subseteq 1 .. k /\ k \in 1 .. k /\ k \notin 1 .. j
    BY <1>6
<1>8. <<1 .. j, 1 .. k>> \in R
  <2>1. 1 .. j \subseteq Nat /\ 1 .. k \subseteq Nat
    <3> HIDE DEF Intervals, R, F
    <3>1. \A i : i \in 1 .. j \/ i \in 1 .. k => i \in Nat
        OBVIOUS
    <3> QED
      BY <3>1
  <2>2. \A a, b : k \in b /\ k \notin a => a # b
      OBVIOUS
  <2> QED
      BY <1>7, <2>1, <2>2 DEF StrictSubsetOrdering
<1> QED
    BY <1>4, <1>5, <1>8

(* The pairs of one body with those after it in the same process, and with *)
(* those of another one.                                                   *)
OwnRow(r, actives, i) ==
    LET after == InOrder({j \in actives : j > i /\ i \in actives})
    IN  [k \in DOMAIN after |-> {<<r, i>>, <<r, after[k]>>}]

RemoteRow(others, own) == [k \in DOMAIN others |-> {own, others[k].from}]

(* The folds of the simulation.  A theorem about any operator cannot be    *)
(* used, so each operator that is folded has a name, with a parameter of   *)
(* its own: the sum of MPI, a collision, and the collisions of one body    *)
(* with the others.                                                        *)
Applied(op, par, w, x) ==
    CASE op = "add" -> w + x
      [] op = "collide" -> CollideLocally(w, par, x)
      [] op = "collideAll" ->
             IF IsActive(w.bodies[x])
             THEN CollideWithOthers(w, x, par)
             ELSE w
      [] op = "ownPairs" -> w \o OwnRow(par[1], par[2], x)
      [] op = "remotePairs" -> w \o RemoteRow(par, x)
      [] op = "pull" -> UpdateAcceleration(w, x)
      [] op = "sum" -> w + x.pull

(* A universe of so many bodies, none lost and none added.                 *)
Sound(par, w) ==
    /\ w = [active |-> w.active, bodies |-> w.bodies]
    /\ w.active \in Int
    /\ DOMAIN w.bodies = par /\ w.bodies = [k \in par |-> w.bodies[k]]

(* What each fold keeps.                                                   *)
Kept(op, n, w) == IF op \in {"add", "sum"} THEN w \in Int ELSE Sound(n, w)

(* What a fold of the community modules is on the first indexes of a       *)
(* sequence: a function on sets of indexes, each from the set without its  *)
(* greatest.                                                               *)
FoldStep(op, par, base, seq, g, s) ==
    IF s = {} THEN base ELSE LET x == Max(s) IN Applied(op, par, g[s \ {x}], seq[x])

IsFold(op, par, base, seq, n, g) ==
    g = [s \in SUBSET (1 .. n) |-> FoldStep(op, par, base, seq, g, s)]

(* There is such a function, for a sequence of any length.                 *)
LEMMA FoldExists ==
    ASSUME NEW op, NEW par, NEW base, NEW seq, NEW n \in Nat
    PROVE  \E g : IsFold(op, par, base, seq, n, g)
<1> DEFINE Bad == {k \in Nat : ~\E g : IsFold(op, par, base, seq, k, g)}
<1>1. ASSUME NEW k \in Bad
      PROVE  \E j \in Bad : j < k
  <2>1. CASE k = 0
    <3> DEFINE g == [s \in SUBSET (1 .. k) |-> base]
    <3>1. \A s \in SUBSET (1 .. k) : FoldStep(op, par, base, seq, g, s) = base
        BY <2>1 DEF FoldStep
    <3>2. IsFold(op, par, base, seq, k, g)
        BY <3>1 DEF IsFold
    <3> QED
        BY <3>2
  <2>2. CASE k # 0 /\ k - 1 \notin Bad
    <3>1. PICK h : IsFold(op, par, base, seq, k - 1, h)
        BY <2>2
    <3> DEFINE g == [s \in SUBSET (1 .. k) |->
                        IF k \in s THEN Applied(op, par, h[s \ {k}], seq[k]) ELSE h[s]]
    <3>2. ASSUME NEW s \in SUBSET (1 .. k)
          PROVE  g[s] = FoldStep(op, par, base, seq, g, s)
      <4>1. CASE k \in s
        <5>1. Max(s) = k
          <6>1. \A x \in s : k >= x
              OBVIOUS
          <6>2. \A x \in s : (\A y \in s : x >= y) => x = k
              BY <4>1, <6>1
          <6> QED
              BY <4>1, <6>1, <6>2 DEF Max
        <5>2. s \ {k} \in SUBSET (1 .. k - 1) /\ s \ {k} \in SUBSET (1 .. k)
            BY <2>2
        <5>3. g[s \ {k}] = h[s \ {k}]
            BY <5>2
        <5> QED
            BY <4>1, <5>1, <5>3 DEF FoldStep
      <4>2. CASE k \notin s
        <5>1. s \in SUBSET (1 .. k - 1)
            BY <2>2, <4>2
        <5>2. g[s] = h[s] /\ h[s] = FoldStep(op, par, base, seq, h, s)
            BY <3>1, <4>2, <5>1 DEF IsFold
        <5>3. g[s \ {Max(s)}] = h[s \ {Max(s)}]
            BY <4>2, <5>1
        <5> QED
            BY <5>2, <5>3 DEF FoldStep
      <4> QED
        BY <4>1, <4>2
    <3>3. IsFold(op, par, base, seq, k, g)
        BY <3>2 DEF IsFold
    <3> QED
        BY <3>3
  <2> QED
    BY <2>1, <2>2
<1>2. Bad = {}
  <2>1. Bad \subseteq Nat
      OBVIOUS
  <2> HIDE DEF Bad
  <2> QED
    BY <1>1, <2>1, NoLeast
<1> QED
    BY <1>2

(* What every step of a fold keeps, the fold keeps.                        *)
LEMMA FoldKeeps ==
    ASSUME NEW op, NEW par, NEW base, NEW seq, NEW n \in Nat, NEW g, NEW kept,
           IsFold(op, par, base, seq, n, g),
           Kept(op, kept, base),
           \A w : \A k \in 1 .. n :
              Kept(op, kept, w) => Kept(op, kept, Applied(op, par, w, seq[k]))
    PROVE  Kept(op, kept, g[1 .. n])
<1> DEFINE Bad == {k \in 0 .. n : ~Kept(op, kept, g[1 .. k])}
<1>1. ASSUME NEW k \in Bad
      PROVE  \E j \in Bad : j < k
  <2>1. 1 .. k \in SUBSET (1 .. n) /\ k \in Nat
      OBVIOUS
  <2>2. g[1 .. k] = FoldStep(op, par, base, seq, g, 1 .. k)
    <3> HIDE DEF Bad
    <3> QED
      BY <2>1 DEF IsFold
  <2>3. k # 0
    <3>1. SUFFICES ASSUME k = 0 PROVE FALSE
        OBVIOUS
    <3>2. 1 .. k = {}
        BY <3>1
    <3> QED
        BY <2>2, <3>2 DEF FoldStep
  <2>4. Max(1 .. k) = k
    <3>1. k \in 1 .. k /\ \A x \in 1 .. k : k >= x
        BY <2>1, <2>3
    <3>2. ASSUME NEW x \in 1 .. k, \A y \in 1 .. k : x >= y
          PROVE  x = k
      <4>1. x >= k
          BY <3>1, <3>2
      <4> QED
          BY <2>1, <4>1
    <3> QED
        BY <3>1, <3>2 DEF Max
  <2>5. (1 .. k) \ {k} = 1 .. k - 1 /\ 1 .. k # {}
    <3>1. \A m \in Nat : \A x : x \in 1 .. m /\ x # m <=> x \in 1 .. m - 1
        OBVIOUS
    <3>2. k \in 1 .. k /\ \A x : x \in (1 .. k) \ {k} <=> x \in 1 .. k - 1
        BY <2>1, <2>3, <3>1
    <3> QED
        BY <3>1, <3>2
  <2>6. g[1 .. k] = Applied(op, par, g[1 .. k - 1], seq[k])
      BY <2>2, <2>4, <2>5 DEF FoldStep
  <2>7. ~Kept(op, kept, g[1 .. k - 1])
      BY <2>1, <2>3, <2>6
  <2> QED
      BY <2>1, <2>3, <2>7
<1>2. Bad = {}
  <2>1. Bad \subseteq Nat
      OBVIOUS
  <2> HIDE DEF Bad
  <2> QED
    BY <1>1, <2>1, NoLeast
<1> QED
    BY <1>2

(* MPI_SUM of numbers is a number.                                         *)
LEMMA TotalIsInt ==
    ASSUME NEW n \in Nat, NEW counts, DOMAIN counts = 1 .. n,
           \A k \in 1 .. n : counts[k] \in Int
    PROVE  TotalOf(counts) \in Int
<1> DEFINE P(g) == g = [s \in SUBSET (1 .. n) |->
                          IF s = {} THEN 0 ELSE LET x == Max(s) IN g[s \ {x}] + counts[x]]
           h == CHOOSE g : P(g)
<1>1. TotalOf(counts) = h[1 .. n]
    BY DEF TotalOf, FoldLeft, MapThenFoldSet
<1>2. \A g : P(g) <=> IsFold("add", 0, 0, counts, n, g)
  <2>1. \A g, s : FoldStep("add", 0, 0, counts, g, s)
                    = IF s = {} THEN 0 ELSE LET x == Max(s) IN g[s \ {x}] + counts[x]
      BY DEF FoldStep, Applied
  <2> QED
    BY <2>1 DEF IsFold
<1>3. IsFold("add", 0, 0, counts, n, h)
  <2>1. PICK g : IsFold("add", 0, 0, counts, n, g)
      BY FoldExists
  <2>2. \E a : P(a)
      BY <1>2, <2>1
  <2>3. P(CHOOSE a : P(a))
    <3> HIDE DEF P
    <3> QED
      BY <2>2
  <2> HIDE DEF P
  <2> QED
      BY <1>2, <2>3
<1>5. Kept("add", 0, h[1 .. n])
  <2> HIDE DEF P, h
  <2>1. Kept("add", 0, 0)
      BY DEF Kept
  <2>2. \A w : \A k \in 1 .. n :
           Kept("add", 0, w) => Kept("add", 0, Applied("add", 0, w, counts[k]))
      BY DEF Kept, Applied
  <2> QED
    BY <1>3, <2>1, <2>2, FoldKeeps
<1> QED
    BY <1>1, <1>5 DEF Kept

(* Whatever collides with whatever in a process, it keeps its bodies.      *)
LEMMA CollisionKeeps ==
    ASSUME NEW D, NEW u, Sound(D, u), NEW i, NEW j
    PROVE  Sound(D, CollideLocally(u, i, j))
<1> DEFINE b == u.bodies[i]
           o == u.bodies[j]
           absorbs == [u.bodies EXCEPT ![i] = Absorb(b, o), ![j] = Deactivate(o)]
           absorbed == [u.bodies EXCEPT ![j] = Absorb(o, b), ![i] = Deactivate(b)]
<1>1. u.active - 1 \in Int
    BY DEF Sound
<1>2. /\ DOMAIN absorbs = D /\ absorbs = [k \in D |-> absorbs[k]]
      /\ DOMAIN absorbed = D /\ absorbed = [k \in D |-> absorbed[k]]
    BY DEF Sound
<1>3. \/ CollideLocally(u, i, j) = u
      \/ CollideLocally(u, i, j) = [active |-> u.active - 1, bodies |-> absorbs]
      \/ CollideLocally(u, i, j) = [active |-> u.active - 1, bodies |-> absorbed]
    BY DEF CollideLocally
<1> HIDE DEF absorbs, absorbed
<1> QED
    BY <1>1, <1>2, <1>3 DEF Sound

(* The inner loop of checkCollisions() keeps the bodies.                   *)
LEMMA CollisionsKeep ==
    ASSUME NEW n \in Nat, NEW u, Sound(1 .. n, u), NEW i, NEW indexes, DOMAIN indexes = 1 .. n
    PROVE  Sound(1 .. n, CollideWithOthers(u, i, indexes))
<1> DEFINE D == 1 .. n
           P(g) == g = [s \in SUBSET (1 .. n) |->
                          IF s = {} THEN u
                          ELSE LET x == Max(s) IN CollideLocally(g[s \ {x}], i, indexes[x])]
           h == CHOOSE g : P(g)
<1>1. CollideWithOthers(u, i, indexes) = h[1 .. n]
    BY DEF CollideWithOthers, FoldLeft, MapThenFoldSet
<1>2. \A g : P(g) <=> IsFold("collide", i, u, indexes, n, g)
  <2>1. \A g, s : FoldStep("collide", i, u, indexes, g, s)
                    = IF s = {} THEN u
                      ELSE LET x == Max(s) IN CollideLocally(g[s \ {x}], i, indexes[x])
      BY DEF FoldStep, Applied
  <2> QED
    BY <2>1 DEF IsFold
<1>3. IsFold("collide", i, u, indexes, n, h)
  <2>1. PICK g : IsFold("collide", i, u, indexes, n, g)
      BY FoldExists
  <2>2. \E a : P(a)
      BY <1>2, <2>1
  <2>3. P(CHOOSE a : P(a))
    <3> HIDE DEF P
    <3> QED
      BY <2>2
  <2> HIDE DEF P
  <2> QED
      BY <1>2, <2>3
<1>5. Kept("collide", D, h[1 .. n])
  <2> HIDE DEF P, h
  <2>1. Kept("collide", D, u)
      BY DEF Kept
  <2>2. \A w : \A k \in 1 .. n :
           Kept("collide", D, w) => Kept("collide", D, Applied("collide", i, w, indexes[k]))
      BY CollisionKeeps DEF Kept, Applied
  <2> QED
    BY <1>3, <2>1, <2>2, FoldKeeps
<1> QED
    BY <1>1, <1>5 DEF Kept

(* Universe::checkCollisions() keeps the bodies.                           *)
LEMMA LocalCollisionsKeep ==
    ASSUME NEW n \in Nat, NEW u, Sound(1 .. n, u)
    PROVE  Sound(1 .. n, CheckLocalCollisions(u))
<1> DEFINE D == 1 .. n
           indexes == [i \in D |-> i]
           P(g) == g = [s \in SUBSET (1 .. n) |->
                          IF s = {} THEN u
                          ELSE LET x == Max(s)
                               IN  IF IsActive(g[s \ {x}].bodies[indexes[x]])
                                   THEN CollideWithOthers(g[s \ {x}], indexes[x], indexes)
                                   ELSE g[s \ {x}]]
           h == CHOOSE g : P(g)
<1>1. CheckLocalCollisions(u) = h[1 .. n]
  <2>1. DOMAIN u.bodies = 1 .. n
      BY DEF Sound
  <2> QED
      BY <2>1 DEF CheckLocalCollisions, FoldLeft, MapThenFoldSet
<1>2. \A g : P(g) <=> IsFold("collideAll", indexes, u, indexes, n, g)
  <2>1. \A g, s : FoldStep("collideAll", indexes, u, indexes, g, s)
                    = IF s = {} THEN u
                      ELSE LET x == Max(s)
                           IN  IF IsActive(g[s \ {x}].bodies[indexes[x]])
                               THEN CollideWithOthers(g[s \ {x}], indexes[x], indexes)
                               ELSE g[s \ {x}]
    <3> HIDE DEF indexes
    <3> QED
      BY DEF FoldStep, Applied
  <2> HIDE DEF indexes
  <2> QED
    BY <2>1 DEF IsFold
<1>3. IsFold("collideAll", indexes, u, indexes, n, h)
  <2>1. PICK g : IsFold("collideAll", indexes, u, indexes, n, g)
      BY FoldExists
  <2>2. \E a : P(a)
      BY <1>2, <2>1
  <2>3. P(CHOOSE a : P(a))
    <3> HIDE DEF P
    <3> QED
      BY <2>2
  <2> HIDE DEF P
  <2> QED
      BY <1>2, <2>3
<1>5. Kept("collideAll", D, h[1 .. n])
  <2>1. DOMAIN indexes = 1 .. n
      OBVIOUS
  <2> HIDE DEF P, h, indexes
  <2>2. Kept("collideAll", D, u)
      BY DEF Kept
  <2>3. \A w : \A k \in 1 .. n :
           Kept("collideAll", D, w)
             => Kept("collideAll", D, Applied("collideAll", indexes, w, indexes[k]))
      BY <2>1, CollisionsKeep DEF Kept, Applied
  <2> QED
    BY <1>3, <2>2, <2>3, FoldKeeps
<1> QED
    BY <1>1, <1>5 DEF Kept

---------------------------------------------------------------------------
(* Bodies *)

(* How many bodies the distribution gives a process.                       *)
BlockLength(r) ==
    CalculateFinish(r, given.universe.count, Size) - CalculateStart(r, given.universe.count, Size)

(* A block is within the universe.                                         *)
LEMMA BlockFits ==
    ASSUME NEW work \in Nat, NEW workers \in Nat \ {0}, NEW rank \in 0 .. workers - 1
    PROVE  /\ CalculateStart(rank, work, workers) \in Nat
           /\ CalculateFinish(rank, work, workers) \in Nat
           /\ CalculateStart(rank, work, workers) <= CalculateFinish(rank, work, workers)
           /\ CalculateFinish(rank, work, workers) <= work
<1>1. rank \in Nat /\ rank + 1 \in Nat /\ workers \in Nat /\ rank < workers
    OBVIOUS
<1>2. /\ CalculateStart(rank, work, workers) \in Nat
      /\ CalculateFinish(rank, work, workers) \in Nat
    BY <1>1, BlockEnds DEF CalculateFinish
<1>3. (work \div workers) + (IF rank < work % workers THEN 1 ELSE 0) >= 0
    BY Division
<1>4. CalculateFinish(rank, work, workers) - CalculateStart(rank, work, workers) >= 0
    BY <1>1, <1>3, BlockSize
<1>5. CalculateFinish(rank, work, workers) <= CalculateStart(workers, work, workers)
    BY <1>1, BlocksInOrder
<1>6. CalculateStart(workers, work, workers) = work
    BY BlockEnds
<1> QED
    BY <1>2, <1>4, <1>5, <1>6

(* A process reads at most its block, and all of it if the file is as long *)
(* as it says.                                                             *)
LEMMA OwnLinesFit ==
    ASSUME given.universe \in Universes, NEW r \in Ranks
    PROVE  /\ OwnLines(r) \in Seq(Range(given.universe.lines))
           /\ Len(OwnLines(r)) \in Nat /\ DOMAIN OwnLines(r) = 1 .. Len(OwnLines(r))
           /\ BlockLength(r) \in Nat /\ Len(OwnLines(r)) <= BlockLength(r)
           /\ Cardinality(Block(r, given.universe.count, Size)) = BlockLength(r)
           /\ Len(given.universe.lines) >= given.universe.count
                 => Len(OwnLines(r)) = BlockLength(r)
<1> DEFINE u == given.universe
           start == CalculateStart(r, u.count, Size)
           finish == CalculateFinish(r, u.count, Size)
           end == IF finish < Len(u.lines) THEN finish ELSE Len(u.lines)
           S == Range(u.lines)
<1>1. u.count \in Nat /\ u.lines \in Seq(S) /\ Size \in Nat \ {0} /\ r \in 0 .. Size - 1
    BY NBodyAssumption DEF Ranks
<1>2. start \in Nat /\ finish \in Nat /\ start <= finish /\ finish <= u.count
  <2> HIDE DEF u
  <2> QED
    BY <1>1, BlockFits
<1>6. Len(u.lines) \in Nat /\ end \in Nat /\ end <= Len(u.lines) /\ end <= finish
      /\ \A i \in 1 .. Len(u.lines) : u.lines[i] \in S
    BY <1>1, <1>2 DEF Range
<1>7. OwnLines(r) = SubSeq(u.lines, start + 1, end)
    BY DEF OwnLines, Lines
<1> HIDE DEF u, start, finish, end, S
<1>8. \A i \in start + 1 .. end : u.lines[i] \in S
    BY <1>2, <1>6
<1>9. /\ OwnLines(r) \in Seq(S)
      /\ Len(OwnLines(r)) = IF start + 1 <= end THEN end - (start + 1) + 1 ELSE 0
    BY <1>2, <1>6, <1>7, <1>8, SubSeqProperties
<1>10. BlockLength(r) = finish - start
    BY DEF BlockLength, start, finish, u
<1>11. Cardinality(Block(r, u.count, Size)) = finish - start
  <2>1. Block(r, u.count, Size) = start .. finish - 1
      BY DEF Block, start, finish
  <2>2. finish - 1 \in Int /\ (start > finish - 1 => finish = start)
      BY <1>2
  <2>3. Cardinality(start .. finish - 1) = IF start > finish - 1 THEN 0 ELSE finish - 1 - start + 1
      BY <1>2, <2>2, FS_Interval
  <2> QED
      BY <1>2, <2>1, <2>2, <2>3
<1>12. Len(u.lines) >= u.count => end = finish
    BY <1>1, <1>2, <1>6 DEF end
<1>13. /\ Len(OwnLines(r)) \in Nat /\ DOMAIN OwnLines(r) = 1 .. Len(OwnLines(r))
       /\ Len(OwnLines(r)) <= finish - start
    BY <1>2, <1>6, <1>9
<1>14. BlockLength(r) \in Nat /\ Len(OwnLines(r)) <= BlockLength(r)
    BY <1>2, <1>10, <1>13
<1>15. Len(u.lines) >= u.count => Len(OwnLines(r)) = BlockLength(r)
    BY <1>2, <1>9, <1>10, <1>12
<1>16. Cardinality(Block(r, u.count, Size)) = BlockLength(r)
    BY <1>10, <1>11
<1>17. /\ OwnLines(r) \in Seq(Range(given.universe.lines))
       /\ Len(given.universe.lines) >= given.universe.count => Len(OwnLines(r)) = BlockLength(r)
       /\ Cardinality(Block(r, given.universe.count, Size)) = BlockLength(r)
    BY <1>9, <1>15, <1>16 DEF u, S
<1> QED
    BY <1>13, <1>14, <1>17

(* A process that has started has as many bodies as it read lines, and     *)
(* keeps them: collisions deactivate bodies and remove none.               *)
BodyCount(r) == IF Started(r) THEN Len(OwnLines(r)) ELSE 0

BodiesInv ==
    /\ DOMAIN universe = Ranks
    /\ \A r \in Ranks : Sound(1 .. BodyCount(r), universe[r])

(* Universe::checkCollisions() with the bodies of another process keeps    *)
(* the bodies.                                                             *)
LEMMA RemoteCollisionsKeep ==
    ASSUME NEW n \in Nat, NEW u, Sound(1 .. n, u), NEW others, NEW rank, NEW otherRank
    PROVE  Sound(1 .. n, CheckRemoteCollisions(u, others, rank, otherRank))
<1> DEFINE after == [i \in DOMAIN u.bodies |-> CollideBody(u.bodies[i], others, rank, otherRank)]
           lost == {i \in DOMAIN after : IsActive(u.bodies[i]) /\ ~IsActive(after[i])}
<1>1. DOMAIN u.bodies = 1 .. n /\ u.active \in Int
    BY DEF Sound
<1>2. DOMAIN after = 1 .. n /\ after = [k \in 1 .. n |-> after[k]]
    BY <1>1
<1>3. Cardinality(lost) \in Nat
  <2>1. lost \subseteq 1 .. n
      BY <1>2
  <2>2. IsFiniteSet(1 .. n)
      BY FS_Interval
  <2> HIDE DEF lost, after
  <2>3. IsFiniteSet(lost)
      BY <2>1, <2>2, FS_Subset
  <2> QED
    BY <2>3, FS_CardinalityType
<1>4. CheckRemoteCollisions(u, others, rank, otherRank)
         = [bodies |-> after, active |-> u.active - Cardinality(lost)]
    BY DEF CheckRemoteCollisions
<1> HIDE DEF lost, after
<1> QED
    BY <1>1, <1>2, <1>3, <1>4 DEF Sound

LEMMA BodiesReplaced ==
    ASSUME NEW n, NEW u, Sound(n, u), NEW bodies, bodies = [i \in n |-> bodies[i]]
    PROVE  Sound(n, [u EXCEPT !.bodies = bodies])
<1>1. DOMAIN bodies = n
    OBVIOUS
<1>2. [u EXCEPT !.bodies = bodies] = [active |-> u.active, bodies |-> bodies]
    BY DEF Sound
<1> QED
    BY <1>1, <1>2 DEF Sound

(* A step of a process that keeps its own bodies keeps those of everybody. *)
LEMMA BodiesKept ==
    ASSUME BodiesInv, NEW r \in Ranks, NEW u, UNCHANGED given,
           \A q \in Ranks \ {r} : pc'[q] = pc[q],
           universe' = [universe EXCEPT ![r] = u],
           Sound(1 .. BodyCount(r)', u)
    PROVE  BodiesInv'
<1>1. DOMAIN universe' = Ranks
    BY DEF BodiesInv
<1>2. ASSUME NEW q \in Ranks
      PROVE  Sound(1 .. BodyCount(q)', universe'[q])
  <2>1. CASE q = r
      BY <2>1 DEF BodiesInv
  <2>2. CASE q # r
    <3>1. universe'[q] = universe[q] /\ BodyCount(q)' = BodyCount(q)
        BY <2>2 DEF BodiesInv, BodyCount, Started, OwnLines, Lines
    <3> QED
      BY <3>1 DEF BodiesInv
  <2> QED
    BY <2>1, <2>2
<1> QED
    BY <1>1, <1>2 DEF BodiesInv

LEMMA BodyCountType ==
    ASSUME given.universe \in Universes, NEW r \in Ranks
    PROVE  BodyCount(r) \in Nat
    BY OwnLinesFit DEF BodyCount

(* Every step of Simulation::run() keeps the bodies of every process, once *)
(* they are loaded.                                                        *)
LEMMA BodiesStep ==
    ASSUME StartInv, BodiesInv, NEW r \in Ranks, Process(r)
    PROVE  BodiesInv'
<1> DEFINE n == BodyCount(r)
<1>1. given.universe \in Universes /\ n \in Nat /\ pc \in [Ranks -> PCs]
    BY BodyCountType DEF StartInv
<1>2. DOMAIN universe = Ranks /\ Sound(1 .. n, universe[r])
    BY DEF BodiesInv
<1>3. ASSUME Started(r), UNCHANGED <<given>>, NEW next \in PCs \ {"start", "failed"},
             pc' = [pc EXCEPT ![r] = next], NEW u, Sound(1 .. n, u),
             universe' = [universe EXCEPT ![r] = u]
      PROVE  BodiesInv'
  <2>1. BodyCount(r)' = n /\ \A q \in Ranks \ {r} : pc'[q] = pc[q]
      BY <1>1, <1>3 DEF BodyCount, Started, OwnLines, Lines
  <2> HIDE DEF n
  <2> QED
    BY <1>3, <2>1, BodiesKept
<1>4. ASSUME Started(r), UNCHANGED <<given, universe>>, NEW next \in PCs \ {"start", "failed"},
             pc' = [pc EXCEPT ![r] = next]
      PROVE  BodiesInv'
  <2>1. \A q \in Ranks : BodyCount(q)' = BodyCount(q)
      BY <1>1, <1>4 DEF BodyCount, Started, OwnLines, Lines
  <2> QED
    BY <1>4, <2>1 DEF BodiesInv
<1>5. CASE Start(r)
  <2> DEFINE lines == OwnLines(r)
             bodies == [i \in DOMAIN lines |-> NewBody(lines[i])]
             k == Len(lines)
  <2>1. /\ UNCHANGED given /\ \E next \in PCs \ {"start", "failed"} : pc' = [pc EXCEPT ![r] = next]
        /\ universe' = [universe EXCEPT ![r] = [bodies |-> bodies, active |-> Len(bodies)]]
    <3>1. LoopTest(0, given.universe.count) \in PCs \ {"start", "failed"}
        BY DEF LoopTest, PCs
    <3> QED
      BY <1>5, <3>1 DEF Start, GoTo
  <2>2. k \in Nat /\ DOMAIN lines = 1 .. k
      BY <1>1, OwnLinesFit
  <2>3. DOMAIN bodies = 1 .. k /\ bodies = [i \in 1 .. k |-> bodies[i]]
      BY <2>2
  <2>4. Len(bodies) = k
    <3>1. bodies \in [1 .. k -> Range(bodies)]
        BY <2>3 DEF Range
    <3> HIDE DEF bodies, k
    <3>2. bodies \in Seq(Range(bodies))
        BY <2>2, <3>1
    <3> QED
      BY <2>2, <2>3, <3>2
  <2>5. BodyCount(r)' = k /\ \A q \in Ranks \ {r} : pc'[q] = pc[q]
      BY <1>1, <2>1 DEF BodyCount, Started, OwnLines, Lines
  <2>6. Sound(1 .. k, [bodies |-> bodies, active |-> Len(bodies)])
    <3> HIDE DEF bodies, k
    <3> QED
      BY <2>2, <2>3, <2>4 DEF Sound
  <2> HIDE DEF bodies, k
  <2> QED
    BY <2>1, <2>5, <2>6, BodiesKept
<1>6. CASE StartFails(r)
  <2>1. UNCHANGED <<given, universe>> /\ pc[r] = "start" /\ pc' = [pc EXCEPT ![r] = "failed"]
      BY <1>6 DEF StartFails, GoTo
  <2>2. \A q \in Ranks : BodyCount(q)' = BodyCount(q)
      BY <1>1, <2>1 DEF BodyCount, Started, OwnLines, Lines
  <2> QED
    BY <2>1, <2>2 DEF BodiesInv
<1>7. CASE LocalCollisions(r)
  <2>1. /\ Started(r) /\ UNCHANGED given /\ pc' = [pc EXCEPT ![r] = "collideTurn"]
        /\ universe' = [universe EXCEPT ![r] = CheckLocalCollisions(universe[r])]
      BY <1>7 DEF LocalCollisions, GoTo, Started
  <2>2. Sound(1 .. n, CheckLocalCollisions(universe[r]))
    <3> HIDE DEF n
    <3> QED
      BY <1>1, <1>2, LocalCollisionsKeep
  <2> HIDE DEF n
  <2> QED
    BY <1>3, <2>1, <2>2 DEF PCs
<1>8. CASE CollisionTurn(r)
  <2>1. Started(r) /\ UNCHANGED given /\ NextTurn(r, "accelerate") /\ pc[r] = "collideTurn"
      BY <1>8 DEF CollisionTurn, Started
  <2>2. PICK next \in PCs \ {"start", "failed"} : pc' = [pc EXCEPT ![r] = next]
    <3>1. pc' = pc \/ pc' = [pc EXCEPT ![r] = "accelerate"]
        BY <2>1 DEF NextTurn
    <3>2. pc = [pc EXCEPT ![r] = "collideTurn"]
        BY <1>1, <2>1
    <3> QED
      BY <3>1, <3>2 DEF PCs
  <2>3. \/ universe' = universe
        \/ universe' = [universe EXCEPT ![r] =
              CheckRemoteCollisions(universe[r], Received(r, turn[r]), r, turn[r])]
      BY <1>8 DEF CollisionTurn
  <2>4. Sound(1 .. n, CheckRemoteCollisions(universe[r], Received(r, turn[r]), r, turn[r]))
    <3> HIDE DEF n
    <3> QED
      BY <1>1, <1>2, RemoteCollisionsKeep
  <2> HIDE DEF n
  <2> QED
    BY <1>3, <1>4, <2>1, <2>2, <2>3, <2>4
<1>9. ASSUME Started(r), UNCHANGED given, NEW next \in PCs \ {"start", "failed"},
             pc' = [pc EXCEPT ![r] = next], NEW bodies, bodies = [i \in Indexes(r) |-> bodies[i]],
             universe' = [universe EXCEPT ![r].bodies = bodies]
      PROVE  BodiesInv'
  <2>1. Indexes(r) = 1 .. n
      BY <1>2 DEF Indexes, Sound
  <2>2. Sound(1 .. n, [universe[r] EXCEPT !.bodies = bodies])
    <3> HIDE DEF n
    <3> QED
      BY <1>2, <1>9, <2>1, BodiesReplaced
  <2>3. universe' = [universe EXCEPT ![r] = [universe[r] EXCEPT !.bodies = bodies]]
      BY <1>2, <1>9
  <2> HIDE DEF n
  <2> QED
    BY <1>3, <1>9, <2>2, <2>3
<1>10. CASE LocalAccelerations(r)
  <2>1. /\ Started(r) /\ UNCHANGED given /\ pc' = [pc EXCEPT ![r] = "accelerateTurn"]
        /\ universe' = [universe EXCEPT ![r].bodies = LocallyPulled(r)]
      BY <1>10 DEF LocalAccelerations, GoTo, Started
  <2>2. LocallyPulled(r) = [i \in Indexes(r) |-> LocallyPulled(r)[i]]
      BY DEF LocallyPulled
  <2> QED
    BY <1>9, <2>1, <2>2 DEF PCs
<1>11. CASE AccelerationTurn(r)
  <2>1. Started(r) /\ UNCHANGED given /\ NextTurn(r, "move") /\ pc[r] = "accelerateTurn"
      BY <1>11 DEF AccelerationTurn, Started
  <2>2. PICK next \in PCs \ {"start", "failed"} : pc' = [pc EXCEPT ![r] = next]
    <3>1. pc' = pc \/ pc' = [pc EXCEPT ![r] = "move"]
        BY <2>1 DEF NextTurn
    <3>2. pc = [pc EXCEPT ![r] = "accelerateTurn"]
        BY <1>1, <2>1
    <3> QED
      BY <3>1, <3>2 DEF PCs
  <2> DEFINE pulled == RemotelyPulled(r, Received(r, turn[r]))
  <2>3. \/ universe' = universe
        \/ universe' = [universe EXCEPT ![r].bodies = pulled]
      BY <1>11 DEF AccelerationTurn
  <2>4. pulled = [i \in Indexes(r) |-> pulled[i]]
      BY DEF RemotelyPulled
  <2> HIDE DEF n, pulled
  <2> QED
    BY <1>4, <1>9, <2>1, <2>2, <2>3, <2>4
<1>12. CASE Move(r)
  <2> DEFINE moved == [i \in Indexes(r) |-> Moved(universe[r].bodies[i])]
  <2>1. /\ Started(r) /\ UNCHANGED given /\ pc' = [pc EXCEPT ![r] = "count"]
        /\ universe' = [universe EXCEPT ![r].bodies = moved]
      BY <1>2, <1>12 DEF Move, GoTo, Started
  <2>2. moved = [i \in Indexes(r) |-> moved[i]]
      OBVIOUS
  <2> HIDE DEF n, moved
  <2> QED
    BY <1>9, <2>1, <2>2 DEF PCs
<1>13. ASSUME Started(r), UNCHANGED <<given, universe>>,
              \/ \E next \in PCs \ {"start", "failed"} : GoTo(r, next)
              \/ \E next \in PCs \ {"start", "failed"} : NextTurn(r, next)
       PROVE  BodiesInv'
  <2>1. pc = [pc EXCEPT ![r] = pc[r]] /\ pc[r] \in PCs \ {"start", "failed"}
      BY <1>1, <1>13 DEF Started
  <2>2. PICK next \in PCs \ {"start", "failed"} : pc' = [pc EXCEPT ![r] = next]
      BY <1>13, <2>1 DEF GoTo, NextTurn
  <2> QED
    BY <1>4, <1>13, <2>2
<1>14. CASE CountBodies(r)
  <2>1. LoopTest(time'[r], total'[r]) \in PCs \ {"start", "failed"}
      BY DEF LoopTest, PCs
  <2> QED
    BY <1>13, <1>14, <2>1 DEF CountBodies, Started
<1>15. CASE SaveTurn(r)
    BY <1>13, <1>15 DEF SaveTurn, Started, PCs
<1>16. CASE LeaveBarrier(r)
    BY <1>13, <1>16 DEF LeaveBarrier, Started, PCs
<1>17. CASE OwnDistances(r)
    BY <1>13, <1>17 DEF OwnDistances, Started, PCs
<1>18. CASE DistanceTurn(r)
    BY <1>13, <1>18 DEF DistanceTurn, Started, PCs
<1>19. CASE LeaveOutStatistic(r)
    BY <1>13, <1>19 DEF LeaveOutStatistic, NextStatistic, Started, PCs
<1>20. CASE EnterStatistic(r)
    BY <1>13, <1>20 DEF EnterStatistic, Started, PCs
<1>21. CASE LeaveStatistic(r)
    BY <1>13, <1>21 DEF LeaveStatistic, NextStatistic, Started, PCs
<1> QED
    BY <1>5, <1>6, <1>7, <1>8, <1>10, <1>11, <1>12, <1>14, <1>15, <1>16, <1>17, <1>18, <1>19,
       <1>20, <1>21
    DEF Process

---------------------------------------------------------------------------
(* Times, counts and the report *)

(* The time of a process passes the end by less than a step.               *)
TimesInv ==
    /\ given.maxTime \in Nat
    /\ \A r \in Ranks :
          /\ time[r] \in 0 .. given.maxTime + DeltaTime
          /\ pc[r] = "start" => time[r] = 0
          /\ pc[r] \in LoopPlaces => time[r] < given.maxTime

(* What is handed to the reduction of the count is a number, and so is     *)
(* what comes out of it.                                                   *)
CountsInv ==
    /\ \A r \in Ranks : total[r] \in Int
    /\ \A r \in Ranks : \A k \in DOMAIN calls[r] :
          calls[r][k].from[1] = "move" => calls[r][k].data \in Int

StatisticPlaces == {"statistic", "reducing", "done"}

(* Rank 0 has one statistic for each turn it has had.                      *)
ReportInv ==
    /\ report \in Seq(Range(report))
    /\ Len(report) = IF pc[0] \in StatisticPlaces THEN turn[0] ELSE 0
    /\ crowded \in BOOLEAN

(* Who has started has accepted the number of bodies; who is left with     *)
(* none had no lines to read.                                              *)
LoadedInv ==
    \A r \in Ranks :
       /\ Started(r) => given.universe.count >= Size
       /\ pc[r] = "undefined" => Len(OwnLines(r)) = 0

(* The inductive invariant of a job.                                       *)
NBodyInv == CallInv /\ BodiesInv /\ TimesInv /\ CountsInv /\ ReportInv /\ LoadedInv

(* A turn of a loop over ranks leaves the process there or at the next     *)
(* place.                                                                  *)
LEMMA PlaceNext ==
    ASSUME StartInv, TurnInv, NEW r \in Ranks, NEW next, NextTurn(r, next)
    PROVE  /\ pc'[r] \in {pc[r], next}
           /\ \A q \in Ranks \ {r} : pc'[q] = pc[q] /\ turn'[q] = turn[q]
<1>1. DOMAIN pc = Ranks /\ DOMAIN turn = Ranks
    BY DEF StartInv, TurnInv
<1> QED
    BY <1>1 DEF NextTurn

LEMMA TimesStep ==
    ASSUME CallInv, TimesInv, NEW r \in Ranks, Process(r)
    PROVE  TimesInv'
<1>1. StartInv /\ TurnInv /\ DOMAIN pc = Ranks /\ DOMAIN time = Ranks /\ DeltaTime \in Nat \ {0}
    BY NBodyAssumption DEF CallInv, StartInv, TurnInv
<1>2. ASSUME UNCHANGED <<given, time>>, \A q \in Ranks \ {r} : pc'[q] = pc[q],
             pc'[r] # "start", pc'[r] \in LoopPlaces => pc[r] \in LoopPlaces
      PROVE  TimesInv'
    BY <1>2 DEF TimesInv
<1>3. CASE Start(r)
  <2> DEFINE next == LoopTest(0, given.universe.count)
  <2>1. UNCHANGED <<given, time>> /\ pc' = [pc EXCEPT ![r] = next] /\ time[r] = 0
      BY <1>3 DEF Start, GoTo, TimesInv
  <2>2. next \in {"collide", "save"} /\ (next = "collide" => 0 < given.maxTime)
      BY DEF LoopTest
  <2>3. pc'[r] = next /\ \A q \in Ranks \ {r} : pc'[q] = pc[q]
      BY <1>1, <2>1
  <2> QED
    BY <2>1, <2>2, <2>3 DEF TimesInv, LoopPlaces
<1>4. CASE StartFails(r)
  <2>1. UNCHANGED <<given, time>> /\ pc' = [pc EXCEPT ![r] = "failed"]
      BY <1>4 DEF StartFails, GoTo
  <2> QED
    BY <1>1, <1>2, <2>1 DEF LoopPlaces
<1>5. CASE LocalCollisions(r) \/ LocalAccelerations(r) \/ Move(r)
  <2>1. /\ UNCHANGED <<given, time>> /\ pc[r] \in LoopPlaces
        /\ \E next \in LoopPlaces : pc' = [pc EXCEPT ![r] = next]
      BY <1>5 DEF LocalCollisions, LocalAccelerations, Move, GoTo, LoopPlaces
  <2> QED
    BY <1>1, <1>2, <2>1 DEF LoopPlaces
<1>6. CASE CollisionTurn(r) \/ AccelerationTurn(r)
  <2>1. /\ UNCHANGED <<given, time>> /\ pc[r] \in LoopPlaces
        /\ NextTurn(r, "accelerate") \/ NextTurn(r, "move")
      BY <1>6 DEF CollisionTurn, AccelerationTurn, LoopPlaces
  <2>2. pc'[r] \in LoopPlaces /\ \A q \in Ranks \ {r} : pc'[q] = pc[q]
      BY <1>1, <2>1, PlaceNext DEF LoopPlaces
  <2> QED
    BY <1>2, <2>1, <2>2 DEF LoopPlaces
<1>7. CASE CountBodies(r)
  <2> DEFINE next == LoopTest(time'[r], total'[r])
  <2>1. /\ UNCHANGED given /\ pc[r] = "count" /\ pc' = [pc EXCEPT ![r] = next]
        /\ time' = [time EXCEPT ![r] = @ + DeltaTime]
      BY <1>7 DEF CountBodies, GoTo
  <2>2. /\ pc'[r] = next /\ time'[r] = time[r] + DeltaTime
        /\ \A q \in Ranks \ {r} : pc'[q] = pc[q] /\ time'[q] = time[q]
      BY <1>1, <2>1
  <2>3. next \in {"collide", "save"} /\ (next = "collide" => time'[r] < given.maxTime)
      BY <2>1 DEF LoopTest
  <2>4. time[r] < given.maxTime /\ time[r] \in Nat /\ given.maxTime \in Nat
      BY <2>1 DEF TimesInv, LoopPlaces
  <2>5. time[r] + DeltaTime \in 0 .. given.maxTime + DeltaTime
      BY <1>1, <2>4
  <2> QED
    BY <2>1, <2>2, <2>3, <2>5 DEF TimesInv, LoopPlaces
<1>8. CASE DistanceTurn(r)
  <2>1. UNCHANGED <<given, time>> /\ pc[r] = "distanceTurn" /\ NextTurn(r, "statistic")
      BY <1>8 DEF DistanceTurn
  <2>2. pc'[r] \in {"distanceTurn", "statistic"} /\ \A q \in Ranks \ {r} : pc'[q] = pc[q]
      BY <1>1, <2>1, PlaceNext
  <2> QED
    BY <1>2, <2>1, <2>2 DEF LoopPlaces
<1>9. CASE \/ SaveTurn(r) \/ LeaveBarrier(r) \/ OwnDistances(r)
           \/ LeaveOutStatistic(r) \/ EnterStatistic(r) \/ LeaveStatistic(r)
  <2>1. /\ UNCHANGED <<given, time>>
        /\ \E next \in PCs \ (LoopPlaces \cup {"start"}) : pc' = [pc EXCEPT ![r] = next]
      BY <1>9 DEF SaveTurn, LeaveBarrier, OwnDistances, LeaveOutStatistic, EnterStatistic,
         LeaveStatistic, NextStatistic, GoTo, PCs, LoopPlaces
  <2> QED
    BY <1>1, <1>2, <2>1
<1> QED
    BY <1>3, <1>4, <1>5, <1>6, <1>7, <1>8, <1>9 DEF Process

(* A call that is made brings a number from the place "move".              *)
LEMMA CallBrings ==
    ASSUME CallInv, CountsInv, NEW r \in Ranks, NEW name, NEW root, NEW data,
           Call(r, name, root, data), pc[r] = "move" => data \in Int,
           UNCHANGED total
    PROVE  CountsInv'
<1> DEFINE call == [call |-> name, root |-> root, data |-> data, from |-> <<pc[r], turn[r]>>]
<1>1. CallsAreSequences
    BY DEF CallInv, StartInv
<1>2. Len(calls[r]) \in Nat /\ DOMAIN calls[r] = 1 .. Len(calls[r])
    BY <1>1, CallsType
<1>3. call.from[1] = "move" => call.data \in Int
    OBVIOUS
<1> HIDE DEF call
<1>4. /\ DOMAIN calls'[r] = 1 .. Len(calls[r]) + 1
      /\ calls'[r][Len(calls[r]) + 1] = call
      /\ \A k \in 1 .. Len(calls[r]) : calls'[r][k] = calls[r][k]
      /\ \A q \in Ranks \ {r} : calls'[q] = calls[q]
    BY <1>1, CallAppended DEF Call, call
<1>5. ASSUME NEW k \in DOMAIN calls'[r], calls'[r][k].from[1] = "move"
      PROVE  calls'[r][k].data \in Int
  <2>1. k = Len(calls[r]) + 1 \/ k \in 1 .. Len(calls[r])
      BY <1>2, <1>4
  <2> QED
    BY <1>2, <1>3, <1>4, <1>5, <2>1 DEF CountsInv
<1> QED
    BY <1>4, <1>5 DEF CountsInv

(* Everybody in the reduction of the count hands over a number.            *)
LEMMA CountsReduced ==
    ASSUME CallInv, CountsInv, NEW r \in Ranks, pc[r] = "count", EverybodyCame(r)
    PROVE  TotalOf(Reduced(r)) \in Int
<1> DEFINE m == Len(calls[r])
<1>1. Size \in Nat \ {0} /\ CallsAreSequences
    BY NBodyAssumption DEF CallInv, StartInv
<1>2. CallsMade(r) = 2 * Size + 1 /\ InLoop(r)
    BY MadeAt DEF CallsMade, InLoop, LoopPlaces, Started
<1>3. Base(r) \in Nat /\ m = Base(r) + (2 * Size + 1)
    BY <1>2, CallsMadeType
<1>4. m \in DOMAIN calls[r] /\ calls[r][m].from = Planned(InLoop(r), Few(r), 2 * Size + 1)
  <2>1. 2 * Size + 1 \in 1 .. CallsMade(r)
      BY <1>1, <1>2
  <2>2. calls[r][Base(r) + (2 * Size + 1)].from = Planned(InLoop(r), Few(r), 2 * Size + 1)
      BY <2>1 DEF CallInv, CallsFollowPlan
  <2>3. m \in 1 .. m /\ DOMAIN calls[r] = 1 .. m
      BY <1>1, <1>3, CallsType
  <2> QED
    BY <1>3, <2>2, <2>3
<1>5. calls[r][m].from = <<"move", 0>>
    BY <1>1, <1>2, <1>4 DEF Planned
<1>6. ASSUME NEW q \in Ranks
      PROVE  calls[q][m].data \in Int
  <2>1. m <= Len(calls[q]) /\ Len(calls[q]) \in Nat /\ DOMAIN calls[q] = 1 .. Len(calls[q])
      BY <1>1, CallsType DEF EverybodyCame
  <2>2. m \in DOMAIN calls[q]
      BY <1>1, <1>3, <2>1
  <2>3. calls[q][m].from = calls[r][m].from
      BY <1>4, <2>2 DEF CallInv, PlacesMatch
  <2> QED
    BY <1>5, <2>2, <2>3 DEF CountsInv
<1>7. /\ DOMAIN Reduced(r) = 1 .. Size
      /\ \A q \in 1 .. Size : q - 1 \in Ranks /\ Reduced(r)[q] = calls[q - 1][m].data
    BY <1>1 DEF Reduced, Ranks
<1> HIDE DEF m
<1> QED
    BY <1>1, <1>6, <1>7, TotalIsInt

LEMMA CountsStep ==
    ASSUME CallInv, BodiesInv, CountsInv, NEW r \in Ranks, Process(r)
    PROVE  CountsInv'
<1>1. DOMAIN total = Ranks /\ given.universe.count \in Int
    BY CountType DEF CallInv, TurnInv
<1>2. CASE UNCHANGED <<total, calls>>
    BY <1>2 DEF CountsInv
<1>3. CASE Start(r)
  <2>1. UNCHANGED calls /\ total' = [total EXCEPT ![r] = given.universe.count]
      BY <1>3 DEF Start
  <2> QED
    BY <1>1, <2>1 DEF CountsInv
<1>4. CASE StartFails(r) \/ LocalCollisions(r) \/ LocalAccelerations(r) \/ LeaveBarrier(r)
           \/ OwnDistances(r) \/ LeaveOutStatistic(r) \/ LeaveStatistic(r)
    BY <1>2, <1>4 DEF StartFails, LocalCollisions, LocalAccelerations, LeaveBarrier,
       OwnDistances, LeaveOutStatistic, LeaveStatistic
<1>5. CASE CollisionTurn(r) \/ AccelerationTurn(r) \/ DistanceTurn(r)
  <2>1. /\ UNCHANGED total /\ pc[r] # "move"
        /\ \E data : Call(r, "broadcast", turn[r], data)
      BY <1>5 DEF CollisionTurn, AccelerationTurn, DistanceTurn
  <2> QED
    BY <2>1, CallBrings
<1>6. CASE Move(r)
  <2>1. UNCHANGED total /\ Call(r, "allReduce", NoRoot, universe[r].active)
      BY <1>6 DEF Move
  <2>2. universe[r].active \in Int
      BY DEF BodiesInv, Sound
  <2> QED
    BY <2>1, <2>2, CallBrings
<1>7. CASE CountBodies(r)
  <2>1. /\ pc[r] = "count" /\ EverybodyCame(r) /\ UNCHANGED calls
        /\ total' = [total EXCEPT ![r] = TotalOf(Reduced(r))]
      BY <1>7 DEF CountBodies
  <2>2. TotalOf(Reduced(r)) \in Int
      BY <2>1, CountsReduced
  <2> QED
    BY <1>1, <2>1, <2>2 DEF CountsInv
<1>8. CASE SaveTurn(r)
  <2>1. UNCHANGED total /\ pc[r] # "move" /\ Call(r, "barrier", NoRoot, 0)
      BY <1>8 DEF SaveTurn
  <2> QED
    BY <2>1, CallBrings
<1>9. CASE EnterStatistic(r)
  <2>1. UNCHANGED total /\ pc[r] # "move" /\ Call(r, "allReduce", NoRoot, Summed(r, turn[r]))
      BY <1>9 DEF EnterStatistic
  <2> QED
    BY <2>1, CallBrings
<1> QED
    BY <1>3, <1>4, <1>5, <1>6, <1>7, <1>8, <1>9 DEF Process

LEMMA ReportStep ==
    ASSUME CallInv, ReportInv, NEW r \in Ranks, Process(r)
    PROVE  ReportInv'
<1>1. StartInv /\ TurnInv /\ DOMAIN pc = Ranks /\ DOMAIN turn = Ranks /\ 0 \in Ranks
    BY NBodyAssumption DEF CallInv, StartInv, TurnInv, Ranks
<1>2. ASSUME UNCHANGED report, crowded' \in BOOLEAN,
             \A q \in Ranks \ {r} : pc'[q] = pc[q] /\ turn'[q] = turn[q],
             \/ pc'[r] \notin StatisticPlaces /\ pc[r] \notin StatisticPlaces
             \/ pc'[r] \in StatisticPlaces /\ pc[r] \in StatisticPlaces /\ turn'[r] = turn[r]
             \/ pc'[r] \in StatisticPlaces /\ pc[r] \notin StatisticPlaces /\ turn'[r] = 0
      PROVE  ReportInv'
    BY <1>1, <1>2 DEF ReportInv
<1>3. ASSUME UNCHANGED <<turn, report>>, crowded' \in BOOLEAN, NEW next, GoTo(r, next),
             next \in StatisticPlaces <=> pc[r] \in StatisticPlaces
      PROVE  ReportInv'
  <2>1. pc'[r] = next /\ \A q \in Ranks \ {r} : pc'[q] = pc[q]
      BY <1>1, <1>3 DEF GoTo
  <2> QED
    BY <1>2, <1>3, <2>1
<1>4. crowded \in BOOLEAN
    BY DEF ReportInv
<1>5. CASE Start(r) \/ StartFails(r) \/ LocalCollisions(r) \/ LocalAccelerations(r)
           \/ CountBodies(r) \/ SaveTurn(r) \/ OwnDistances(r)
  <2>1. /\ UNCHANGED <<turn, report, crowded>> /\ pc[r] \notin StatisticPlaces
        /\ \E next : GoTo(r, next) /\ next \notin StatisticPlaces
      BY <1>5 DEF Start, StartFails, LocalCollisions, LocalAccelerations, CountBodies,
         SaveTurn, OwnDistances, LoopTest, StatisticPlaces
  <2> QED
    BY <1>3, <1>4, <2>1
<1>6. CASE Move(r)
  <2>1. /\ UNCHANGED <<turn, report>> /\ pc[r] \notin StatisticPlaces /\ GoTo(r, "count")
        /\ crowded' \in BOOLEAN
      BY <1>6 DEF Move, StatisticPlaces
  <2> QED
    BY <1>3, <2>1 DEF StatisticPlaces
<1>7. CASE CollisionTurn(r) \/ AccelerationTurn(r) \/ DistanceTurn(r)
  <2>1. /\ UNCHANGED <<report, crowded>> /\ pc[r] \notin StatisticPlaces
        /\ \/ NextTurn(r, "accelerate") \/ NextTurn(r, "move") \/ NextTurn(r, "statistic")
      BY <1>7 DEF CollisionTurn, AccelerationTurn, DistanceTurn, StatisticPlaces
  <2>2. /\ \A q \in Ranks \ {r} : pc'[q] = pc[q] /\ turn'[q] = turn[q]
        /\ \/ pc'[r] = pc[r] \/ pc'[r] \in {"accelerate", "move"}
           \/ pc'[r] = "statistic" /\ turn'[r] = 0
      BY <1>1, <2>1 DEF NextTurn
  <2> QED
    BY <1>2, <1>4, <2>1, <2>2 DEF StatisticPlaces
<1>8. CASE LeaveBarrier(r)
  <2>1. /\ UNCHANGED <<report, crowded>> /\ pc[r] \notin StatisticPlaces
        /\ \A q \in Ranks \ {r} : pc'[q] = pc[q] /\ turn'[q] = turn[q]
        /\ pc'[r] \in {"save", "distances"}
      BY <1>1, <1>8 DEF LeaveBarrier, GoTo, StatisticPlaces
  <2> QED
    BY <1>2, <1>4, <2>1 DEF StatisticPlaces
<1>9. CASE EnterStatistic(r)
  <2>1. /\ UNCHANGED <<turn, report, crowded>> /\ pc[r] \in StatisticPlaces
        /\ GoTo(r, "reducing")
      BY <1>9 DEF EnterStatistic, StatisticPlaces
  <2> QED
    BY <1>3, <1>4, <2>1 DEF StatisticPlaces
<1>10. CASE LeaveOutStatistic(r) \/ LeaveStatistic(r)
  <2>1. PICK more : report' = IF r = 0 THEN Append(report, more) ELSE report
      BY <1>10 DEF LeaveOutStatistic, LeaveStatistic
  <2>2. /\ UNCHANGED crowded /\ pc[r] \in StatisticPlaces /\ NextStatistic(r)
      BY <1>10 DEF LeaveOutStatistic, LeaveStatistic, StatisticPlaces
  <2>3. /\ pc'[r] \in StatisticPlaces /\ turn'[r] = turn[r] + 1
        /\ \A q \in Ranks \ {r} : pc'[q] = pc[q] /\ turn'[q] = turn[q]
      BY <1>1, <2>2 DEF NextStatistic, GoTo, StatisticPlaces
  <2>4. CASE r = 0
    <3> DEFINE T == Range(report) \cup {more}
    <3>1. report \in Seq(Range(report)) /\ Len(report) = turn[0]
        BY <2>2, <2>4 DEF ReportInv
    <3>2. report \in Seq(T) /\ more \in T
        BY <3>1
    <3>3. report' = Append(report, more)
        BY <2>1, <2>4
    <3>4. Range(report') = T
        BY <3>1, <3>2, <3>3 DEF Range
    <3>5. report' \in Seq(T) /\ Len(report') = Len(report) + 1
      <4> HIDE DEF T
      <4> QED
        BY <3>2, <3>3
    <3> HIDE DEF T
    <3> QED
      BY <1>4, <2>2, <2>3, <2>4, <3>1, <3>4, <3>5 DEF ReportInv
  <2>5. CASE r # 0
    BY <1>1, <1>4, <2>1, <2>2, <2>3, <2>5 DEF ReportInv
  <2> QED
    BY <2>4, <2>5
<1> QED
    BY <1>5, <1>6, <1>7, <1>8, <1>9, <1>10 DEF Process

LEMMA LoadedStep ==
    ASSUME CallInv, BodiesInv, LoadedInv, NEW r \in Ranks, Process(r)
    PROVE  LoadedInv'
<1>1. StartInv /\ TurnInv /\ DOMAIN pc = Ranks /\ given.universe \in Universes
    BY DEF CallInv, StartInv, TurnInv
<1>2. ASSUME UNCHANGED given, NEW next, pc' = [pc EXCEPT ![r] = next],
             next \notin {"start", "failed"} => given.universe.count >= Size,
             next = "undefined" => Len(OwnLines(r)) = 0
      PROVE  LoadedInv'
  <2>1. \A q \in Ranks : OwnLines(q)' = OwnLines(q)
      BY <1>2 DEF OwnLines, Lines
  <2> QED
    BY <1>1, <1>2, <2>1 DEF LoadedInv, Started
<1>3. ASSUME UNCHANGED given, Started(r), NEW next, GoTo(r, next), next # "undefined"
      PROVE  LoadedInv'
    BY <1>2, <1>3 DEF GoTo, LoadedInv
<1>4. CASE Start(r)
  <2>1. /\ UNCHANGED given /\ CanStart(r)
        /\ pc' = [pc EXCEPT ![r] = LoopTest(0, given.universe.count)]
      BY <1>4 DEF Start, GoTo
  <2>2. given.universe.count >= Size /\ LoopTest(0, given.universe.count) # "undefined"
      BY <2>1 DEF CanStart, LoopTest
  <2> QED
    BY <1>2, <2>1, <2>2
<1>5. CASE StartFails(r)
    BY <1>2, <1>5 DEF StartFails, GoTo
<1>6. CASE LocalCollisions(r) \/ LocalAccelerations(r) \/ Move(r) \/ CountBodies(r)
           \/ SaveTurn(r) \/ LeaveBarrier(r) \/ EnterStatistic(r) \/ LeaveOutStatistic(r)
           \/ LeaveStatistic(r)
  <2>1. UNCHANGED given /\ Started(r) /\ \E next : GoTo(r, next) /\ next # "undefined"
      BY <1>6 DEF LocalCollisions, LocalAccelerations, Move, CountBodies, SaveTurn,
         LeaveBarrier, EnterStatistic, LeaveOutStatistic, LeaveStatistic, NextStatistic,
         LoopTest, Started
  <2> QED
    BY <1>3, <2>1
<1>7. CASE CollisionTurn(r) \/ AccelerationTurn(r) \/ DistanceTurn(r)
  <2>1. /\ UNCHANGED given /\ Started(r) /\ pc[r] # "undefined"
        /\ \/ NextTurn(r, "accelerate") \/ NextTurn(r, "move") \/ NextTurn(r, "statistic")
      BY <1>7 DEF CollisionTurn, AccelerationTurn, DistanceTurn, Started
  <2>2. \E next : GoTo(r, next) /\ next # "undefined"
    <3>1. pc = [pc EXCEPT ![r] = pc[r]]
        BY <1>1, StartInv DEF StartInv
    <3> QED
      BY <2>1, <3>1 DEF NextTurn, GoTo
  <2> QED
    BY <1>3, <2>1, <2>2
<1>8. CASE OwnDistances(r)
  <2>1. /\ UNCHANGED given /\ Started(r)
        /\ GoTo(r, IF universe[r].bodies = << >> THEN "undefined" ELSE "distanceTurn")
      BY <1>8 DEF OwnDistances, Started
  <2>2. CASE universe[r].bodies = << >>
    <3>1. DOMAIN universe[r].bodies = 1 .. Len(OwnLines(r))
        BY <2>1 DEF BodiesInv, Sound, BodyCount
    <3>2. DOMAIN universe[r].bodies = {}
        BY <2>2
    <3>3. Len(OwnLines(r)) \in Nat /\ (Len(OwnLines(r)) # 0 => 1 \in 1 .. Len(OwnLines(r)))
        BY <1>1, OwnLinesFit
    <3>4. Len(OwnLines(r)) = 0
        BY <3>1, <3>2, <3>3
    <3> QED
      BY <1>2, <2>1, <2>2, <3>4 DEF GoTo, LoadedInv
  <2>3. CASE universe[r].bodies # << >>
    BY <1>3, <2>1, <2>3
  <2> QED
    BY <2>2, <2>3
<1> QED
    BY <1>4, <1>5, <1>6, <1>7, <1>8 DEF Process

LEMMA NBodyInvInitial == Init => NBodyInv
<1> SUFFICES ASSUME Init PROVE NBodyInv
    OBVIOUS
<1>1. CallInv
    BY CallInvInitial
<1>2. \A r \in Ranks : ~Started(r)
    BY DEF Init, Started
<1>3. BodiesInv
  <2>1. DOMAIN universe = Ranks
      BY DEF Init
  <2>2. ASSUME NEW r \in Ranks
        PROVE  Sound(1 .. BodyCount(r), universe[r])
    <3>1. BodyCount(r) = 0 /\ universe[r] = [bodies |-> << >>, active |-> 0]
        BY <1>2 DEF BodyCount, Init
    <3>2. << >> = [k \in 1 .. 0 |-> << >>[k]] /\ DOMAIN << >> = 1 .. 0
        OBVIOUS
    <3> QED
      BY <3>1, <3>2 DEF Sound
  <2> QED
    BY <2>1, <2>2 DEF BodiesInv
<1>4. TimesInv
  <2>1. given.maxTime \in Nat /\ DeltaTime \in Nat
      BY NBodyAssumption DEF Init
  <2>2. \A r \in Ranks : time[r] = 0 /\ pc[r] = "start"
      BY DEF Init
  <2> QED
    BY <2>1, <2>2 DEF TimesInv, LoopPlaces
<1>5. CountsInv
  <2>1. \A r \in Ranks : total[r] = 0 /\ calls[r] = << >>
      BY DEF Init
  <2>2. DOMAIN << >> = {}
      OBVIOUS
  <2> QED
    BY <2>1, <2>2 DEF CountsInv
<1>6. ReportInv
  <2>1. 0 \in Ranks
      BY NBodyAssumption DEF Ranks
  <2>2. report = << >> /\ pc[0] = "start" /\ crowded \in BOOLEAN
      BY <2>1 DEF Init, Crowd
  <2>3. report \in Seq(Range(report)) /\ Len(report) = 0
      BY <2>2
  <2> QED
    BY <2>2, <2>3 DEF ReportInv, StatisticPlaces
<1>7. LoadedInv
    BY <1>2 DEF LoadedInv, Init
<1> QED
    BY <1>1, <1>3, <1>4, <1>5, <1>6, <1>7 DEF NBodyInv

LEMMA NBodyInvStep == NBodyInv /\ [Next]_vars => NBodyInv'
<1> SUFFICES ASSUME NBodyInv, [Next]_vars PROVE NBodyInv'
    OBVIOUS
<1>1. CallInv'
    BY CallInvStep DEF NBodyInv
<1>2. CASE UNCHANGED vars
  <2>1. \A r \in Ranks : BodyCount(r)' = BodyCount(r) /\ OwnLines(r)' = OwnLines(r)
                          /\ Started(r)' = Started(r)
      BY <1>2 DEF vars, BodyCount, Started, OwnLines, Lines
  <2> QED
    BY <1>1, <1>2, <2>1 DEF vars, NBodyInv, BodiesInv, TimesInv, CountsInv, ReportInv, LoadedInv
<1>3. CASE Next
  <2>1. PICK r \in Ranks : Process(r)
      BY <1>3 DEF Next
  <2>2. StartInv
      BY DEF NBodyInv, CallInv
  <2> QED
    BY <1>1, <2>1, <2>2, BodiesStep, TimesStep, CountsStep, ReportStep, LoadedStep DEF NBodyInv
<1> QED
    BY <1>2, <1>3

(* Simulation::run() keeps the bodies of every block, whatever collides    *)
(* and in whatever order the processes run; its reductions carry numbers,  *)
(* its clocks stop within a step of the end, and rank 0 has as many        *)
(* statistics as it has computed.                                          *)
THEOREM NBodyInvariant == Spec => []NBodyInv
<1> QED
    BY NBodyInvInitial, NBodyInvStep, PTL DEF Spec

(* Every variable of a job has its type: in particular no process holds    *)
(* more bodies than the distribution gave it, and the report has at most   *)
(* four statistics.                                                        *)
THEOREM NBodyTypeCorrect == Spec => []TypeOK
<1>1. NBodyInv => TypeOK
  <2> SUFFICES ASSUME NBodyInv PROVE TypeOK
      OBVIOUS
  <2>1. given.universe \in Universes /\ pc \in [Ranks -> PCs] /\ 0 \in Ranks
      BY NBodyAssumption DEF NBodyInv, CallInv, StartInv, Ranks
  <2>2. ASSUME NEW r \in Ranks
        PROVE  turn[r] \in IF pc[r] \in {"statistic", "reducing", "done"} THEN 0 .. 4 ELSE Ranks
    <3>1. turn[r] \in TurnsOf(pc[r])
        BY DEF NBodyInv, CallInv, TurnInv
    <3> QED
      BY <2>1, <3>1 DEF TurnsOf
  <2>3. ASSUME NEW r \in Ranks
        PROVE  Len(universe[r].bodies) <= Cardinality(Block(r, given.universe.count, Size))
    <3> DEFINE n == BodyCount(r)
               b == universe[r].bodies
    <3>1. n \in Nat /\ DOMAIN b = 1 .. n /\ b = [k \in 1 .. n |-> b[k]]
        BY <2>1, BodyCountType DEF NBodyInv, BodiesInv, Sound
    <3>2. Len(b) = n
      <4>1. b \in [1 .. n -> Range(b)]
          BY <3>1 DEF Range
      <4> HIDE DEF b, n
      <4>2. b \in Seq(Range(b))
          BY <3>1, <4>1
      <4> QED
        BY <3>1, <4>2
    <3>3. /\ Len(OwnLines(r)) \in Nat /\ BlockLength(r) \in Nat
          /\ Len(OwnLines(r)) <= BlockLength(r)
          /\ Cardinality(Block(r, given.universe.count, Size)) = BlockLength(r)
        BY <2>1, OwnLinesFit
    <3>4. n <= BlockLength(r)
        BY <3>3 DEF BodyCount
    <3> HIDE DEF b, n
    <3>5. Len(b) <= Cardinality(Block(r, given.universe.count, Size))
        BY <3>2, <3>3, <3>4
    <3> QED
      BY <3>5 DEF b
  <2>4. ASSUME NEW r \in Ranks
        PROVE  /\ universe[r].active \in Int /\ total[r] \in Int
               /\ time[r] \in 0 .. given.maxTime + DeltaTime
      BY DEF NBodyInv, BodiesInv, Sound, CountsInv, TimesInv
  <2>5. Len(report) <= 4 /\ crowded \in BOOLEAN
    <3>1. pc[0] \in {"statistic", "reducing", "done"} => turn[0] \in 0 .. 4
        BY <2>1, <2>2
    <3> QED
      BY <3>1 DEF NBodyInv, ReportInv, StatisticPlaces
  <2> QED
    BY <2>1, <2>2, <2>3, <2>4, <2>5 DEF TypeOK
<1> QED
    BY <1>1, NBodyInvariant, PTL

(* aggregateOwnDistances() runs on an empty vector only where the file has *)
(* fewer lines than it says: startSimulation() refuses fewer bodies than   *)
(* processes, and then no block is empty.                                  *)
THEOREM NoBodiesOnlyInShortFiles == Spec => []OnlyShortFilesLeaveNoBodies
<1>1. NBodyInv => OnlyShortFilesLeaveNoBodies
  <2> DEFINE u == given.universe
  <2> SUFFICES ASSUME NBodyInv, NEW r \in Ranks, pc[r] = "undefined",
                      ~(Len(u.lines) < u.count)
               PROVE  FALSE
      BY DEF OnlyShortFilesLeaveNoBodies
  <2>1. u \in Universes /\ u.count \in Nat /\ Len(u.lines) \in Nat /\ Size \in Nat \ {0}
      BY NBodyAssumption DEF NBodyInv, CallInv, StartInv
  <2>2. Len(OwnLines(r)) = 0 /\ u.count >= Size
      BY DEF NBodyInv, LoadedInv, Started
  <2>3. BlockLength(r) = 0
    <3>1. Len(u.lines) >= u.count
        BY <2>1
    <3> QED
      BY <2>1, <2>2, <3>1, OwnLinesFit
  <2>4. CalculateStart(r, u.count, Size) < CalculateFinish(r, u.count, Size)
      BY <2>1, <2>2, BlocksNotEmpty DEF Ranks
  <2>5. CalculateStart(r, u.count, Size) \in Nat /\ CalculateFinish(r, u.count, Size) \in Nat
      BY <2>1, BlockFits DEF Ranks
  <2> QED
    BY <2>3, <2>4, <2>5 DEF BlockLength
<1> QED
    BY <1>1, NBodyInvariant, PTL

---------------------------------------------------------------------------
(* The file of final states *)

(* How many barriers of saveBodiesFile() a process has called.             *)
SaveCalls(r) ==
    IF pc[r] = "save" THEN turn[r]
    ELSE IF pc[r] = "barrier" THEN turn[r] + 1
    ELSE IF pc[r] \in Reporting THEN Size
    ELSE 0

(* How many of them it has left.                                           *)
SaveTurns(r) ==
    IF pc[r] \in {"save", "barrier"} THEN turn[r] ELSE IF pc[r] \in Reporting THEN Size ELSE 0

(* Nobody has left a barrier of the save that somebody has not called.     *)
BarrierInv == \A r, q \in Ranks : SaveCalls(q) >= SaveTurns(r)

(* A process has written its block, in its turn.                           *)
Saved(r) == SaveCalls(r) > r

(* The file when the first k processes have written: their blocks, each at *)
(* the place that the distribution gives it.                               *)
FileUpTo(k) ==
    LET count == given.universe.count
    IN  /\ file = [count |-> file.count, lines |-> file.lines]
        /\ k > 0 => /\ file.count = count
                    /\ file.lines \in Seq(Range(file.lines))
                    /\ Len(file.lines) = CalculateStart(k, count, Size)
        /\ \A q \in Ranks : q < k => \A i \in 1 .. BlockLength(q) :
              file.lines[CalculateStart(q, count, Size) + i] = Written(q)[i]

FileInv ==
    WellFormed(given.universe) =>
       \E k \in 0 .. Size : (\A q \in Ranks : Saved(q) <=> q < k) /\ FileUpTo(k)

LEMMA SaveCallsType ==
    ASSUME CallInv, NEW r \in Ranks
    PROVE  SaveCalls(r) \in 0 .. Size /\ SaveTurns(r) \in 0 .. Size
<1>1. Size \in Nat \ {0} /\ turn[r] \in TurnsOf(pc[r])
    BY NBodyAssumption DEF CallInv, TurnInv
<1> QED
    BY <1>1 DEF SaveCalls, SaveTurns, TurnsOf, Ranks, Reporting

(* A step of a process, by what becomes of its barriers.                   *)
LEMMA SaveCallsStep ==
    ASSUME CallInv, BodiesInv, NEW r \in Ranks, Process(r)
    PROVE  /\ \A q \in Ranks \ {r} : SaveCalls(q)' = SaveCalls(q) /\ SaveTurns(q)' = SaveTurns(q)
           /\ \/ SaveTurn(r) /\ SaveCalls(r) = turn[r] /\ SaveCalls(r)' = turn[r] + 1
                             /\ SaveTurns(r)' = SaveTurns(r)
              \/ LeaveBarrier(r) /\ SaveCalls(r)' = SaveCalls(r) /\ SaveTurns(r)' = turn[r] + 1
              \/ UNCHANGED <<file, universe>>
                 /\ SaveCalls(r)' = SaveCalls(r) /\ SaveTurns(r)' = SaveTurns(r)
              \/ /\ UNCHANGED file /\ SaveCalls(r) = 0 /\ SaveCalls(r)' = 0 /\ SaveTurns(r)' = 0
                 /\ \A q \in Ranks \ {r} : universe'[q] = universe[q]
<1>1. /\ StartInv /\ TurnInv /\ DOMAIN pc = Ranks /\ DOMAIN turn = Ranks
      /\ DOMAIN universe = Ranks
    BY DEF CallInv, StartInv, TurnInv, BodiesInv
<1>2. turn[r] \in TurnsOf(pc[r]) /\ Size \in Nat \ {0}
    BY <1>1, NBodyAssumption DEF TurnInv
<1> DEFINE Others == \A q \in Ranks \ {r} : pc'[q] = pc[q] /\ turn'[q] = turn[q]
<1>3. ASSUME Others
      PROVE  \A q \in Ranks \ {r} : SaveCalls(q)' = SaveCalls(q) /\ SaveTurns(q)' = SaveTurns(q)
    BY <1>3 DEF SaveCalls, SaveTurns
<1>4. ASSUME UNCHANGED file, Others, pc[r] \in LoopPlaces \cup {"start"},
             \/ pc'[r] \in LoopPlaces \cup {"failed"}
             \/ pc'[r] = "save" /\ turn'[r] = 0,
             \A q \in Ranks \ {r} : universe'[q] = universe[q]
      PROVE  /\ UNCHANGED file /\ SaveCalls(r) = 0 /\ SaveCalls(r)' = 0 /\ SaveTurns(r)' = 0
             /\ \A q \in Ranks \ {r} : universe'[q] = universe[q]
    BY <1>4 DEF SaveCalls, SaveTurns, LoopPlaces, Reporting
<1>5. ASSUME UNCHANGED <<file, universe>>, Others, pc[r] \in Reporting, pc'[r] \in Reporting
      PROVE  /\ UNCHANGED <<file, universe>>
             /\ SaveCalls(r)' = SaveCalls(r) /\ SaveTurns(r)' = SaveTurns(r)
    BY <1>5 DEF SaveCalls, SaveTurns, Reporting
<1>6. CASE Start(r)
  <2>1. /\ UNCHANGED <<file, turn>> /\ pc[r] = "start"
        /\ pc' = [pc EXCEPT ![r] = LoopTest(0, given.universe.count)]
        /\ \A q \in Ranks \ {r} : universe'[q] = universe[q]
      BY <1>6 DEF Start, GoTo
  <2>2. pc'[r] \in {"collide", "save"} /\ turn'[r] = 0
      BY <1>1, <1>2, <2>1 DEF LoopTest, TurnsOf
  <2> QED
    BY <1>1, <1>3, <1>4, <2>1, <2>2 DEF LoopPlaces
<1>7. CASE StartFails(r)
  <2>1. /\ UNCHANGED <<file, turn, universe>> /\ pc[r] = "start"
        /\ pc' = [pc EXCEPT ![r] = "failed"]
      BY <1>7 DEF StartFails, GoTo
  <2> QED
    BY <1>1, <1>3, <1>4, <2>1
<1>8. CASE LocalCollisions(r) \/ LocalAccelerations(r) \/ Move(r)
  <2>1. /\ UNCHANGED <<file, turn>> /\ pc[r] \in LoopPlaces
        /\ \E next \in LoopPlaces : pc' = [pc EXCEPT ![r] = next]
      BY <1>8 DEF LocalCollisions, LocalAccelerations, Move, GoTo, LoopPlaces
  <2>2. \A q \in Ranks \ {r} : universe'[q] = universe[q]
    <3>1. CASE LocalCollisions(r)
        BY <1>1, <3>1 DEF LocalCollisions
    <3>2. CASE LocalAccelerations(r)
        BY <1>1, <3>2 DEF LocalAccelerations
    <3>3. CASE Move(r)
        BY <1>1, <3>3 DEF Move
    <3> QED
      BY <1>8, <3>1, <3>2, <3>3
  <2> QED
    BY <1>1, <1>3, <1>4, <2>1, <2>2
<1>9. CASE CollisionTurn(r) \/ AccelerationTurn(r)
  <2>1. /\ UNCHANGED file /\ pc[r] \in LoopPlaces
        /\ NextTurn(r, "accelerate") \/ NextTurn(r, "move")
      BY <1>9 DEF CollisionTurn, AccelerationTurn, LoopPlaces
  <2>3. \A q \in Ranks \ {r} : universe'[q] = universe[q]
    <3>1. CASE CollisionTurn(r)
        BY <1>1, <3>1 DEF CollisionTurn
    <3>2. CASE AccelerationTurn(r)
        BY <1>1, <3>2 DEF AccelerationTurn
    <3> QED
      BY <1>9, <3>1, <3>2
  <2>2. pc'[r] \in LoopPlaces /\ Others
      BY <1>1, <2>1, PlaceNext DEF LoopPlaces
  <2> HIDE DEF Others
  <2> QED
    BY <1>3, <1>4, <2>1, <2>2, <2>3
<1>10. CASE CountBodies(r)
  <2>1. /\ UNCHANGED <<file, turn, universe>> /\ pc[r] = "count"
        /\ pc' = [pc EXCEPT ![r] = LoopTest(time'[r], total'[r])]
      BY <1>10 DEF CountBodies, GoTo
  <2>2. pc'[r] \in {"collide", "save"} /\ turn'[r] = 0
      BY <1>1, <1>2, <2>1 DEF LoopTest, TurnsOf
  <2> QED
    BY <1>1, <1>3, <1>4, <2>1, <2>2 DEF LoopPlaces
<1>11. CASE SaveTurn(r)
  <2>1. UNCHANGED turn /\ pc[r] = "save" /\ pc' = [pc EXCEPT ![r] = "barrier"]
      BY <1>11 DEF SaveTurn, GoTo
  <2>2. Others
      BY <1>1, <2>1
  <2>3. SaveCalls(r) = turn[r] /\ SaveCalls(r)' = turn[r] + 1 /\ SaveTurns(r)' = SaveTurns(r)
      BY <1>1, <2>1 DEF SaveCalls, SaveTurns
  <2> QED
    BY <1>3, <1>11, <2>2, <2>3
<1>12. CASE LeaveBarrier(r)
  <2>1. /\ pc[r] = "barrier" /\ Others
        /\ \/ pc'[r] = "save" /\ turn'[r] = turn[r] + 1
           \/ pc'[r] = "distances" /\ ~(turn[r] < Size - 1)
      BY <1>1, <1>12 DEF LeaveBarrier, GoTo
  <2>2. turn[r] \in 0 .. Size - 1
      BY <1>2, <2>1 DEF TurnsOf, Ranks
  <2>3. SaveCalls(r)' = SaveCalls(r) /\ SaveTurns(r)' = turn[r] + 1
      BY <1>2, <2>1, <2>2 DEF SaveCalls, SaveTurns, Reporting
  <2> QED
    BY <1>3, <1>12, <2>1, <2>3
<1>13. CASE DistanceTurn(r)
  <2>1. /\ UNCHANGED <<file, universe>> /\ pc[r] = "distanceTurn" /\ NextTurn(r, "statistic")
      BY <1>13 DEF DistanceTurn
  <2>2. pc'[r] \in {"distanceTurn", "statistic"} /\ Others
      BY <1>1, <2>1, PlaceNext
  <2> HIDE DEF Others
  <2> QED
    BY <1>3, <1>5, <2>1, <2>2 DEF Reporting
<1>14. CASE \/ OwnDistances(r) \/ LeaveOutStatistic(r) \/ EnterStatistic(r)
            \/ LeaveStatistic(r)
  <2>1. /\ UNCHANGED <<file, universe>> /\ pc[r] \in Reporting
        /\ \E next \in Reporting : pc' = [pc EXCEPT ![r] = next]
        /\ turn' = turn \/ turn' = [turn EXCEPT ![r] = @ + 1]
      BY <1>14 DEF OwnDistances, LeaveOutStatistic, EnterStatistic, LeaveStatistic,
         NextStatistic, GoTo, Reporting
  <2>2. pc'[r] \in Reporting /\ Others
      BY <1>1, <2>1
  <2> HIDE DEF Others
  <2> QED
    BY <1>3, <1>5, <2>1, <2>2
<1> QED
    BY <1>6, <1>7, <1>8, <1>9, <1>10, <1>11, <1>12, <1>13, <1>14 DEF Process

(* Who leaves a barrier of the save has seen everybody call it.            *)
LEMMA BarrierLeft ==
    ASSUME CallInv, NEW r \in Ranks, pc[r] = "barrier", EverybodyCame(r), NEW q \in Ranks
    PROVE  SaveCalls(q) >= turn[r] + 1
<1>1. Size \in Nat \ {0} /\ turn[r] \in 0 .. Size - 1
    BY NBodyAssumption DEF CallInv, TurnInv, TurnsOf, Ranks
<1>2. CallsMade(r) = turn[r] + 1 /\ ~InLoop(r)
    BY MadeAt DEF CallsMade, InLoop, Started, LoopPlaces
<1>3. /\ Base(r) \in Nat /\ Len(calls[r]) = Base(r) + CallsMade(r)
      /\ Base(q) \in Nat /\ Len(calls[q]) = Base(q) + CallsMade(q) /\ CallsMade(q) \in Nat
      /\ Len(calls[q]) >= Len(calls[r])
    BY CallsMadeType DEF EverybodyCame
<1>4. ~OneAhead(q, r)
    BY DEF OneAhead
<1>5. ~OneAhead(r, q)
  <2>1. Base(r) < Len(calls[q])
      BY <1>1, <1>2, <1>3
  <2> QED
    BY <1>3, <2>1 DEF OneAhead
<1>6. SameRound(r, q)
    BY <1>4, <1>5 DEF CallInv, InStep
<1>7. CallsMade(q) >= turn[r] + 1 /\ ~InLoop(q)
    BY <1>1, <1>2, <1>3, <1>6 DEF SameRound
<1>8. pc[q] \notin {"start", "failed"}
    BY <1>1, <1>7, MadeAt DEF CallsMade
<1>9. pc[q] \in {"save", "barrier"} \cup Reporting
    BY <1>7, <1>8 DEF InLoop, Started, LoopPlaces, Reporting, CallInv, StartInv, PCs
<1>10. pc[q] \in {"save", "barrier"} => SaveCalls(q) = CallsMade(q)
    BY MadeAt DEF SaveCalls, CallsMade
<1>11. pc[q] \in Reporting => SaveCalls(q) = Size
    BY DEF SaveCalls, Reporting
<1> QED
    BY <1>1, <1>7, <1>9, <1>10, <1>11

LEMMA BarrierStep ==
    ASSUME CallInv, BodiesInv, BarrierInv, NEW r \in Ranks, Process(r)
    PROVE  BarrierInv'
<1> SUFFICES ASSUME NEW p \in Ranks, NEW q \in Ranks
             PROVE  SaveCalls(q)' >= SaveTurns(p)'
    BY DEF BarrierInv
<1>1. Size \in Nat \ {0} /\ turn[r] \in Nat
    BY NBodyAssumption DEF CallInv, TurnInv
<1>2. \A x \in Ranks : SaveCalls(x) \in Nat /\ SaveTurns(x) \in Nat
    BY <1>1, SaveCallsType
<1>3. SaveCalls(q)' \in Nat /\ SaveCalls(q)' >= SaveCalls(q)
    BY <1>1, <1>2, SaveCallsStep
<1>4. SaveTurns(p) <= SaveCalls(q)
    BY DEF BarrierInv
<1>5. CASE p # r \/ SaveTurns(r)' = SaveTurns(r)
  <2>1. SaveTurns(p)' = SaveTurns(p)
      BY <1>5, SaveCallsStep
  <2> QED
    BY <1>2, <1>3, <1>4, <2>1
<1>6. CASE p = r /\ LeaveBarrier(r) /\ SaveTurns(r)' = turn[r] + 1
  <2>1. SaveCalls(q) >= turn[r] + 1
      BY <1>6, BarrierLeft DEF LeaveBarrier
  <2> QED
    BY <1>1, <1>2, <1>3, <1>6, <2>1
<1>7. CASE p = r /\ SaveTurns(r)' = 0
    BY <1>3, <1>7
<1> QED
    BY <1>5, <1>6, <1>7, SaveCallsStep

(* In a well-formed universe a process writes a line for each body of its  *)
(* block.                                                                  *)
LEMMA WrittenIsBlock ==
    ASSUME StartInv, BodiesInv, WellFormed(given.universe), NEW r \in Ranks, Started(r)
    PROVE  /\ BlockLength(r) \in Nat /\ Indexes(r) = 1 .. BlockLength(r)
           /\ DOMAIN Written(r) = 1 .. BlockLength(r)
           /\ Written(r) \in Seq(Range(Written(r))) /\ Len(Written(r)) = BlockLength(r)
<1> DEFINE n == BlockLength(r)
           w == Written(r)
<1>1. Len(given.universe.lines) >= given.universe.count /\ given.universe \in Universes
    BY DEF WellFormed, StartInv
<1>2. n \in Nat /\ Len(OwnLines(r)) = n
    BY <1>1, OwnLinesFit
<1>3. Indexes(r) = 1 .. n
    BY <1>2 DEF BodiesInv, Sound, BodyCount, Indexes
<1>4. DOMAIN w = 1 .. n /\ w = [i \in 1 .. n |-> w[i]]
    BY <1>3 DEF Written
<1>5. w \in [1 .. n -> Range(w)]
    BY <1>4 DEF Range
<1> HIDE DEF n, w
<1>6. w \in Seq(Range(w))
    BY <1>2, <1>5
<1>7. Len(w) = n
    BY <1>2, <1>4, <1>6
<1> QED
    BY <1>2, <1>3, <1>4, <1>6, <1>7 DEF n, w

(* The blocks follow each other from the first line to the last.           *)
LEMMA BlockPlaces ==
    ASSUME StartInv, NEW r \in Ranks
    PROVE  LET count == given.universe.count
           IN  /\ CalculateStart(r, count, Size) \in Nat
               /\ CalculateStart(r + 1, count, Size)
                     = CalculateStart(r, count, Size) + BlockLength(r)
               /\ CalculateStart(0, count, Size) = 0
               /\ CalculateStart(Size, count, Size) = count
               /\ \A q \in Ranks : q < r =>
                     CalculateStart(q, count, Size) + BlockLength(q)
                        <= CalculateStart(r, count, Size)
<1> DEFINE count == given.universe.count
<1>1. count \in Nat /\ Size \in Nat \ {0} /\ r \in 0 .. Size - 1
    BY CountType, NBodyAssumption DEF Ranks
<1>2. \A q \in Ranks : /\ CalculateStart(q, count, Size) \in Nat
                       /\ CalculateFinish(q, count, Size) \in Nat
  <2> HIDE DEF count
  <2> QED
    BY <1>1, BlockFits DEF Ranks
<1>3. \A q \in Ranks : CalculateStart(q, count, Size) + BlockLength(q)
                          = CalculateStart(q + 1, count, Size)
    BY <1>2 DEF BlockLength, CalculateFinish
<1>4. CalculateStart(0, count, Size) = 0 /\ CalculateStart(Size, count, Size) = count
  <2> HIDE DEF count
  <2> QED
    BY <1>1, BlockEnds
<1>5. ASSUME NEW q \in Ranks, q < r
      PROVE  CalculateStart(q + 1, count, Size) <= CalculateStart(r, count, Size)
  <2>1. q \in Nat /\ r \in Nat
      BY <1>1 DEF Ranks
  <2> HIDE DEF count
  <2> QED
    BY <1>1, <1>5, <2>1, BlocksInOrder DEF CalculateFinish
<1> HIDE DEF count
<1>6. \A q \in Ranks : q < r =>
         CalculateStart(q, count, Size) + BlockLength(q) <= CalculateStart(r, count, Size)
    BY <1>3, <1>5
<1>7. CalculateStart(r + 1, count, Size) = CalculateStart(r, count, Size) + BlockLength(r)
    BY <1>3
<1> QED
    BY <1>2, <1>4, <1>6, <1>7 DEF count

(* The turn of the process itself: it starts the file, or adds its block.  *)
LEMMA OwnTurn ==
    ASSUME StartInv, BodiesInv, WellFormed(given.universe), NEW r \in Ranks,
           SaveTurn(r), turn[r] = r, FileUpTo(r)
    PROVE  FileUpTo(r + 1)'
<1> DEFINE count == given.universe.count
           w == Written(r)
           start == [q \in Ranks |-> CalculateStart(q, count, Size)]
<1>1. /\ UNCHANGED <<given, universe>> /\ Started(r)
      /\ file' = IF r = 0 THEN [count |-> count, lines |-> w]
                 ELSE [file EXCEPT !.lines = @ \o w]
    BY DEF SaveTurn, Started
<1>2. \A q \in Ranks : Written(q)' = Written(q) /\ BlockLength(q)' = BlockLength(q)
    BY <1>1 DEF Written, Indexes, BlockLength
<1>3. /\ BlockLength(r) \in Nat /\ w \in Seq(Range(w)) /\ Len(w) = BlockLength(r)
      /\ DOMAIN w = 1 .. BlockLength(r)
    BY <1>1, WrittenIsBlock
<1>4. /\ start[r] \in Nat
      /\ CalculateStart(r + 1, count, Size) = start[r] + BlockLength(r)
      /\ CalculateStart(0, count, Size) = 0
      /\ \A q \in Ranks : q < r => start[q] + BlockLength(q) <= start[r]
    BY BlockPlaces
<1>5. \A q \in Ranks : start[q] \in Nat /\ BlockLength(q) \in Nat
    BY BlockPlaces, OwnLinesFit DEF StartInv
<1>6. r \in Nat /\ \A q \in Ranks : q \in Nat
    BY NBodyAssumption DEF Ranks
<1> DEFINE After(f) == /\ f = [count |-> count, lines |-> f.lines]
                       /\ f.lines \in Seq(Range(f.lines))
                       /\ Len(f.lines) = start[r] + BlockLength(r)
                       /\ \A q \in Ranks : q < r + 1 => \A i \in 1 .. BlockLength(q) :
                             f.lines[start[q] + i] = Written(q)[i]
<1>7. ASSUME After(file') PROVE FileUpTo(r + 1)'
  <2>1. /\ After(file')
        /\ given'.universe.count = count /\ r + 1 > 0
        /\ \A q \in Ranks : start[q] = CalculateStart(q, count, Size)
    <3>1. \A q \in Ranks : start[q] = CalculateStart(q, count, Size)
        OBVIOUS
    <3>2. given'.universe.count = count /\ r + 1 > 0
        BY <1>1, <1>6
    <3> HIDE DEF After
    <3> QED
      BY <1>7, <3>1, <3>2
  <2>2. \A q \in Ranks : q < r + 1 => \A i \in 1 .. BlockLength(q)' :
           file'.lines[CalculateStart(q, count, Size) + i] = Written(q)'[i]
      BY <1>2, <2>1
  <2>3. /\ file' = [count |-> file'.count, lines |-> file'.lines]
        /\ file'.count = count
        /\ file'.lines \in Seq(Range(file'.lines))
        /\ Len(file'.lines) = CalculateStart(r + 1, count, Size)
    <3> HIDE DEF count, start
    <3> QED
      BY <1>4, <2>1
  <2> HIDE DEF count, start, After
  <2> QED
    BY <2>1, <2>2, <2>3 DEF FileUpTo, count
<1>8. ASSUME r = 0 PROVE After(file')
  <2>1. file' = [count |-> count, lines |-> w] /\ start[r] = 0
      BY <1>1, <1>4, <1>8
  <2>2. \A q \in Ranks : q < r + 1 => q = r
      BY <1>6, <1>8
  <2>3. \A i \in 1 .. BlockLength(r) : start[r] + i = i
      BY <2>1
  <2> HIDE DEF w, start, count
  <2>4. \A q \in Ranks : q < r + 1 => \A i \in 1 .. BlockLength(q) :
                             file'.lines[start[q] + i] = Written(q)[i]
      BY <2>1, <2>2, <2>3 DEF w
  <2> QED
    BY <1>3, <2>1, <2>4
<1>9. ASSUME r # 0 PROVE After(file')
  <2> DEFINE old == file.lines
  <2>1. /\ file = [count |-> file.count, lines |-> old] /\ file.count = count
        /\ old \in Seq(Range(old)) /\ Len(old) = start[r]
        /\ \A q \in Ranks : q < r =>
              \A i \in 1 .. BlockLength(q) : old[start[q] + i] = Written(q)[i]
      BY <1>6, <1>9 DEF FileUpTo
  <2>2. file' = [file EXCEPT !.lines = @ \o w]
      BY <1>1, <1>9
  <2>3. file' = [count |-> count, lines |-> old \o w]
    <3> HIDE DEF w, count
    <3> QED
      BY <2>1, <2>2
  <2> DEFINE S == Range(old) \cup Range(w)
  <2>4. old \in Seq(S) /\ w \in Seq(S)
    <3> HIDE DEF old, w
    <3> QED
      BY <1>3, <2>1
  <2> HIDE DEF S
  <2>5. /\ old \o w \in Seq(S) /\ Len(old \o w) = start[r] + BlockLength(r)
        /\ \A i \in 1 .. start[r] : (old \o w)[i] = old[i]
        /\ \A i \in 1 .. BlockLength(r) : (old \o w)[start[r] + i] = w[i]
    <3> HIDE DEF old, w, start
    <3>1. /\ Len(old \o w) = Len(old) + Len(w) /\ old \o w \in Seq(S)
          /\ \A i \in 1 .. Len(old) + Len(w) :
                (old \o w)[i] = IF i <= Len(old) THEN old[i] ELSE w[i - Len(old)]
        BY <2>4, ConcatProperties
    <3> HIDE DEF S
    <3>2. \A i \in 1 .. BlockLength(r) : /\ start[r] + i \in 1 .. Len(old) + Len(w)
                                         /\ ~(start[r] + i <= start[r])
                                         /\ start[r] + i - start[r] = i
        BY <1>3, <1>4, <2>1
    <3>3. \A i \in 1 .. start[r] : i \in 1 .. Len(old) + Len(w) /\ i <= Len(old)
        BY <1>3, <1>4, <2>1
    <3> QED
      BY <1>3, <2>1, <3>1, <3>2, <3>3
  <2>6. old \o w \in Seq(Range(old \o w))
    <3> DEFINE all == old \o w
    <3>1. all \in Seq(S)
        BY <2>5
    <3> HIDE DEF all
    <3> QED
      <4>1. all \in Seq(Range(all))
          BY <3>1 DEF Range
      <4> QED
        BY <4>1 DEF all
  <2>7. ASSUME NEW q \in Ranks, q < r + 1, NEW i \in 1 .. BlockLength(q)
        PROVE  (old \o w)[start[q] + i] = Written(q)[i]
    <3> HIDE DEF old, start
    <3>1. CASE q = r
        BY <2>5, <3>1 DEF w
    <3>2. CASE q < r
      <4>1. start[q] + i \in 1 .. start[r]
          BY <1>4, <1>5, <2>7, <3>2
      <4> QED
        BY <2>1, <2>5, <3>2, <4>1
    <3>3. q = r \/ q < r
        BY <1>6, <2>7
    <3> QED
      BY <3>1, <3>2, <3>3
  <2> HIDE DEF old, w, start, count
  <2> QED
    BY <2>3, <2>5, <2>6, <2>7
<1> QED
    BY <1>7, <1>8, <1>9

(* The arguments of the job are constant.                                  *)
LEMMA GivenKept ==
    ASSUME NEW r \in Ranks, Process(r)
    PROVE  UNCHANGED given
    BY DEF Process, Start, StartFails, LocalCollisions, CollisionTurn, LocalAccelerations,
       AccelerationTurn, Move, CountBodies, SaveTurn, LeaveBarrier, OwnDistances, DistanceTurn,
       LeaveOutStatistic, EnterStatistic, LeaveStatistic

(* A step of saveBodiesFile() by a process whose turn it is not changes    *)
(* nothing in the file, and the bodies of who has written stay as they     *)
(* are.                                                                    *)
LEMMA FileStep ==
    ASSUME CallInv, BodiesInv, BarrierInv, FileInv, NEW r \in Ranks, Process(r)
    PROVE  FileInv'
<1>1. StartInv /\ UNCHANGED given /\ Size \in Nat \ {0} /\ turn[r] \in Nat
    BY GivenKept, NBodyAssumption DEF CallInv, TurnInv
<1> SUFFICES ASSUME WellFormed(given.universe)
             PROVE  \E k \in 0 .. Size : (\A q \in Ranks : Saved(q)' <=> q < k) /\ FileUpTo(k)'
    BY <1>1 DEF FileInv, WellFormed
<1>2. PICK k \in 0 .. Size : (\A q \in Ranks : Saved(q) <=> q < k) /\ FileUpTo(k)
    BY DEF FileInv
<1>3. \A q \in Ranks : q \in Nat /\ SaveCalls(q) \in Nat /\ q < Size
    BY <1>1, SaveCallsType DEF Ranks
<1>4. \A q \in Ranks \ {r} : Saved(q)' <=> Saved(q)
    BY SaveCallsStep DEF Saved
<1>5. CASE SaveTurn(r) /\ SaveCalls(r)' = turn[r] + 1 /\ SaveCalls(r) = turn[r] /\ turn[r] = r
  <2>1. SaveTurns(r) = r
      BY <1>5 DEF SaveTurn, SaveTurns
  <2>2. \A q \in Ranks : q < r => Saved(q)
      BY <1>3, <2>1 DEF BarrierInv, Saved
  <2>3. ~Saved(r) /\ Saved(r)'
      BY <1>3, <1>5 DEF Saved
  <2>4. k = r
    <3>1. ~(r < k)
        BY <1>2, <2>3
    <3>2. k \notin Ranks \/ ~(k < r)
        BY <1>2, <2>2
    <3>3. k < r => k \in Ranks
        BY <1>1, <1>3 DEF Ranks
    <3> QED
      BY <1>3, <3>1, <3>2, <3>3
  <2>5. FileUpTo(r + 1)'
      BY <1>1, <1>2, <1>5, <2>4, OwnTurn
  <2>6. \A q \in Ranks : Saved(q)' <=> q < r + 1
      BY <1>2, <1>3, <1>4, <2>3, <2>4
  <2>7. r + 1 \in 0 .. Size
      BY <1>1, <1>3
  <2> QED
    BY <2>5, <2>6, <2>7
<1>6. ASSUME UNCHANGED file, Saved(r)' <=> Saved(r),
             \/ UNCHANGED universe
             \/ ~Saved(r) /\ (\A q \in Ranks \ {r} : universe'[q] = universe[q])
      PROVE  \E j \in 0 .. Size : (\A q \in Ranks : Saved(q)' <=> q < j) /\ FileUpTo(j)'
  <2>1. \A q \in Ranks : Saved(q)' <=> q < k
      BY <1>2, <1>4, <1>6
  <2>2. \A q \in Ranks : q < k => universe'[q] = universe[q]
      BY <1>2, <1>6
  <2>3. \A q \in Ranks : /\ q < k => Written(q)' = Written(q)
                         /\ BlockLength(q)' = BlockLength(q)
      BY <1>1, <2>2 DEF Written, Indexes, BlockLength
  <2>4. FileUpTo(k)'
      BY <1>1, <1>2, <1>6, <2>3 DEF FileUpTo
  <2> QED
    BY <2>1, <2>4
<1>7. CASE SaveTurn(r) /\ SaveCalls(r)' = turn[r] + 1 /\ SaveCalls(r) = turn[r] /\ turn[r] # r
  <2>1. UNCHANGED <<file, universe>>
      BY <1>7 DEF SaveTurn
  <2>2. Saved(r)' <=> Saved(r)
      BY <1>1, <1>3, <1>7 DEF Saved
  <2> QED
    BY <1>6, <2>1, <2>2
<1>8. CASE LeaveBarrier(r) /\ SaveCalls(r)' = SaveCalls(r)
    BY <1>6, <1>8 DEF LeaveBarrier, Saved
<1>9. CASE UNCHANGED <<file, universe>> /\ SaveCalls(r)' = SaveCalls(r)
    BY <1>6, <1>9 DEF Saved
<1>10. CASE /\ UNCHANGED file /\ SaveCalls(r) = 0 /\ SaveCalls(r)' = 0
            /\ \A q \in Ranks \ {r} : universe'[q] = universe[q]
    BY <1>3, <1>6, <1>10 DEF Saved
<1> QED
    BY <1>5, <1>7, <1>8, <1>9, <1>10, SaveCallsStep

(* What the barriers of the save are for.                                  *)
SaveInv == BarrierInv /\ FileInv

LEMMA SaveInvInitial == Init => SaveInv
<1> SUFFICES ASSUME Init PROVE SaveInv
    OBVIOUS
<1>1. \A r \in Ranks : pc[r] = "start"
    BY DEF Init
<1>2. \A r \in Ranks : SaveCalls(r) = 0 /\ SaveTurns(r) = 0
    BY <1>1 DEF SaveCalls, SaveTurns, Reporting
<1>3. BarrierInv
    BY <1>2 DEF BarrierInv
<1>4. FileUpTo(0)
  <2>1. file = [count |-> file.count, lines |-> file.lines]
      BY DEF Init
  <2>2. \A q \in Ranks : ~(q < 0)
      BY DEF Ranks
  <2> QED
    BY <2>1, <2>2 DEF FileUpTo
<1>5. \A q \in Ranks : Saved(q) <=> q < 0
    BY <1>2 DEF Saved, Ranks
<1> QED
    BY <1>3, <1>4, <1>5, NBodyAssumption DEF SaveInv, FileInv

LEMMA SaveInvStep == NBodyInv /\ SaveInv /\ [Next]_vars => SaveInv'
<1> SUFFICES ASSUME NBodyInv, SaveInv, [Next]_vars PROVE SaveInv'
    OBVIOUS
<1>1. CASE UNCHANGED vars
  <2>1. \A r \in Ranks : /\ SaveCalls(r)' = SaveCalls(r) /\ SaveTurns(r)' = SaveTurns(r)
                         /\ Written(r)' = Written(r) /\ BlockLength(r)' = BlockLength(r)
                         /\ Saved(r)' = Saved(r)
      BY <1>1 DEF vars, SaveCalls, SaveTurns, Written, Indexes, BlockLength, Saved
  <2>2. \A k : FileUpTo(k)' = FileUpTo(k)
      BY <1>1, <2>1 DEF vars, FileUpTo
  <2>3. UNCHANGED given
      BY <1>1 DEF vars
  <2> QED
    BY <2>1, <2>2, <2>3 DEF SaveInv, BarrierInv, FileInv, WellFormed
<1>2. CASE Next
  <2>1. PICK r \in Ranks : Process(r)
      BY <1>2 DEF Next
  <2> QED
    BY <2>1, BarrierStep, FileStep DEF NBodyInv, SaveInv
<1> QED
    BY <1>1, <1>2

(* The processes write the final states one after the other, in the order  *)
(* of ranks, each after everybody has seen the one before:                 *)
(* saveBodiesFile() waits at a barrier in every turn.                      *)
THEOREM SaveInvariant == Spec => []SaveInv
<1> QED
    BY NBodyInvariant, SaveInvInitial, SaveInvStep, PTL DEF Spec

(* When a process goes on to the distances all have written.               *)
LEMMA Reloaded ==
    ASSUME NBodyInv, SaveInv, WellFormed(given.universe),
           NEW r \in Ranks, pc[r] = "distances"
    PROVE  /\ file.count = Len(file.lines)
           /\ \A q \in Ranks : Written(q) =
                 SubSeq(file.lines, CalculateStart(q, file.count, Size) + 1,
                        CalculateFinish(q, file.count, Size))
<1> DEFINE count == given.universe.count
           all == file.lines
<1>1. Size \in Nat \ {0} /\ StartInv /\ BodiesInv
    BY NBodyAssumption DEF NBodyInv, CallInv
<1>2. SaveTurns(r) = Size
    BY DEF SaveTurns, Reporting
<1>3. \A q \in Ranks : Saved(q) /\ SaveCalls(q) = Size /\ q \in Nat
  <2> SUFFICES ASSUME NEW q \in Ranks PROVE Saved(q) /\ SaveCalls(q) = Size /\ q \in Nat
      OBVIOUS
  <2>1. SaveCalls(q) \in 0 .. Size /\ SaveCalls(q) >= Size /\ q \in 0 .. Size - 1
      BY <1>2, SaveCallsType DEF NBodyInv, SaveInv, BarrierInv, Ranks
  <2> QED
    BY <1>1, <2>1 DEF Saved
<1>4. PICK k \in 0 .. Size : (\A q \in Ranks : Saved(q) <=> q < k) /\ FileUpTo(k)
    BY DEF SaveInv, FileInv
<1>5. k = Size
  <2>1. Size - 1 \in Ranks
      BY <1>1 DEF Ranks
  <2> QED
    BY <1>1, <1>3, <1>4, <2>1
<1>6. /\ file.count = count /\ all \in Seq(Range(all))
      /\ Len(all) = CalculateStart(Size, count, Size)
      /\ \A q \in Ranks : \A i \in 1 .. BlockLength(q) :
            all[CalculateStart(q, count, Size) + i] = Written(q)[i]
  <2>1. \A q \in Ranks : q < Size
      BY <1>1 DEF Ranks
  <2> QED
    BY <1>1, <1>4, <1>5, <2>1 DEF FileUpTo
<1>7. count \in Nat /\ Len(all) = count
    BY <1>1, <1>6, BlockPlaces, CountType
<1>8. ASSUME NEW q \in Ranks
      PROVE  Written(q) = SubSeq(all, CalculateStart(q, count, Size) + 1,
                                 CalculateFinish(q, count, Size))
  <2> DEFINE start == CalculateStart(q, count, Size)
             finish == CalculateFinish(q, count, Size)
             block == SubSeq(all, start + 1, finish)
             n == BlockLength(q)
             w == Written(q)
             S == Range(all)
  <2>1. /\ start \in Nat /\ finish \in Nat /\ finish <= count
    <3> HIDE DEF count
    <3> QED
      BY <1>1, <1>7, BlockFits DEF Ranks
  <2>2. Started(q)
      BY <1>1, <1>3 DEF SaveCalls, Started, Reporting
  <2>3. n \in Nat /\ DOMAIN w = 1 .. n /\ w = [i \in 1 .. n |-> w[i]]
    <3>1. n \in Nat /\ DOMAIN w = 1 .. n
        BY <1>1, <2>2, WrittenIsBlock
    <3> QED
      BY <3>1 DEF Written
  <2>4. finish = start + n
      BY <2>1 DEF BlockLength
  <2>5. \A i \in 1 .. n : all[start + i] = w[i]
      BY <1>6
  <2>6. all \in Seq(S) /\ \A i \in 1 .. Len(all) : all[i] \in S
      BY <1>6, <1>7 DEF Range
  <2> HIDE DEF all, start, finish, n, w, S
  <2>7. \A i \in start + 1 .. finish : all[i] \in S
      BY <1>7, <2>1, <2>6
  <2>8. /\ Len(block) = IF start + 1 <= finish THEN finish - (start + 1) + 1 ELSE 0
        /\ block \in Seq(S)
        /\ \A i \in 1 .. finish - (start + 1) + 1 : block[i] = all[start + 1 + i - 1]
      BY <2>1, <2>6, <2>7, SubSeqProperties
  <2>9. Len(block) = n /\ DOMAIN block = 1 .. n
      BY <2>1, <2>3, <2>4, <2>8
  <2>10. \A i \in 1 .. n : block[i] = w[i]
    <3> HIDE DEF block
    <3>1. \A i \in 1 .. n : i \in 1 .. finish - (start + 1) + 1 /\ start + 1 + i - 1 = start + i
        BY <2>1, <2>3, <2>4
    <3> QED
      BY <2>5, <2>8, <3>1
  <2>11. block = [i \in 1 .. n |-> block[i]]
    <3>1. block \in Seq(S)
        BY <2>8
    <3> HIDE DEF block
    <3> QED
      BY <2>9, <3>1
  <2>12. w = block
    <3> HIDE DEF block
    <3> QED
      BY <2>3, <2>10, <2>11
  <2> QED
    BY <2>12 DEF w, all, start, finish
<1> QED
    BY <1>6, <1>7, <1>8

(* The file of final states, loaded again by as many processes, gives each *)
(* of them the bodies that it has: the blocks are written whole, in order, *)
(* and with the count that the distribution needs.                         *)
THEOREM FileReloads == Spec => []SavedFileReloads
<1>1. NBodyInv /\ SaveInv => SavedFileReloads
    BY Reloaded DEF SavedFileReloads
<1> QED
    BY <1>1, NBodyInvariant, SaveInvariant, PTL

---------------------------------------------------------------------------
(* The pairs of the statistics: sequences without repetitions *)

(* A sequence has each element of a set once.                              *)
Enumerates(s, S) ==
    /\ s \in Seq(S)
    /\ \A x \in S : \E k \in 1 .. Len(s) : s[k] = x
    /\ \A j, k \in 1 .. Len(s) : s[j] = s[k] => j = k

(* Its length is then the number of the elements.                          *)
LEMMA EnumeratesCounts ==
    ASSUME NEW S, NEW s, Enumerates(s, S)
    PROVE  Range(s) = S /\ Len(s) = Cardinality(S) /\ IsFiniteSet(S)
<1>1. s \in [1 .. Len(s) -> S] /\ Len(s) \in Nat /\ DOMAIN s = 1 .. Len(s)
    BY DEF Enumerates
<1>2. Range(s) = S
    BY <1>1 DEF Enumerates, Range
<1>3. s \in Surjection(1 .. Len(s), S)
    BY <1>1 DEF Enumerates, Surjection
<1>4. s \in Injection(1 .. Len(s), S)
    BY <1>1 DEF Enumerates, Injection, IsInjective
<1> DEFINE m == Len(s)
<1>5. IsFiniteSet(1 .. m) /\ Cardinality(1 .. m) = m
  <2>1. m \in Nat
      BY <1>1
  <2> HIDE DEF m
  <2>2. IsFiniteSet(1 .. m) /\ Cardinality(1 .. m) = IF 1 > m THEN 0 ELSE m - 1 + 1
      BY <2>1, FS_Interval
  <2> QED
    BY <2>1, <2>2
<1> QED
    BY <1>2, <1>3, <1>4, <1>5, FS_Surjection

(* There is nothing in the empty sequence.                                 *)
LEMMA NothingEnumerates ==
    Enumerates(<< >>, {})
    BY DEF Enumerates

(* Sequences of different elements, one after the other.                   *)
LEMMA JoinEnumerates ==
    ASSUME NEW S, NEW s, Enumerates(s, S), NEW T, NEW t, Enumerates(t, T), S \cap T = {}
    PROVE  Enumerates(s \o t, S \cup T)
<1> DEFINE U == S \cup T
           u == s \o t
<1>1. s \in Seq(U) /\ t \in Seq(U) /\ Len(s) \in Nat /\ Len(t) \in Nat
    BY DEF Enumerates
<1>2. \A k \in 1 .. Len(s) : s[k] \in S
    BY DEF Enumerates
<1>3. \A k \in 1 .. Len(t) : t[k] \in T
    BY DEF Enumerates
<1>4. /\ u \in Seq(U) /\ Len(u) = Len(s) + Len(t)
      /\ \A k \in 1 .. Len(s) : u[k] = s[k]
      /\ \A k \in 1 .. Len(t) : u[Len(s) + k] = t[k]
  <2> HIDE DEF U
  <2> QED
    BY <1>1
<1>5. ASSUME NEW x \in U
      PROVE  \E k \in 1 .. Len(u) : u[k] = x
  <2>1. CASE x \in S
    <3>1. PICK k \in 1 .. Len(s) : s[k] = x
        BY <2>1 DEF Enumerates
    <3>2. k \in 1 .. Len(u) /\ u[k] = x
        BY <1>1, <1>4, <3>1
    <3> QED
      BY <3>2
  <2>2. CASE x \in T
    <3>1. PICK k \in 1 .. Len(t) : t[k] = x
        BY <2>2 DEF Enumerates
    <3>2. Len(s) + k \in 1 .. Len(u) /\ u[Len(s) + k] = x
        BY <1>1, <1>4, <3>1
    <3> QED
      BY <3>2
  <2> QED
    BY <2>1, <2>2
<1>6. ASSUME NEW j \in 1 .. Len(u), NEW k \in 1 .. Len(u), u[j] = u[k]
      PROVE  j = k
  <2>1. \A i \in 1 .. Len(u) : i \in 1 .. Len(s) \/ i - Len(s) \in 1 .. Len(t)
      BY <1>1, <1>4
  <2>2. \A i \in 1 .. Len(u) : i - Len(s) \in 1 .. Len(t) => u[i] = t[i - Len(s)]
    <3>1. \A i \in 1 .. Len(u) : Len(s) + (i - Len(s)) = i
        BY <1>1, <1>4
    <3> QED
      BY <1>4, <3>1
  <2> HIDE DEF u
  <2>3. CASE j \in 1 .. Len(s) /\ k \in 1 .. Len(s)
      BY <1>4, <1>6, <2>3 DEF Enumerates
  <2>4. CASE j \in 1 .. Len(s) /\ k - Len(s) \in 1 .. Len(t)
      BY <1>2, <1>3, <1>4, <1>6, <2>2, <2>4
  <2>5. CASE j - Len(s) \in 1 .. Len(t) /\ k \in 1 .. Len(s)
      BY <1>2, <1>3, <1>4, <1>6, <2>2, <2>5
  <2>6. CASE j - Len(s) \in 1 .. Len(t) /\ k - Len(s) \in 1 .. Len(t)
    <3>1. t[j - Len(s)] = t[k - Len(s)]
        BY <1>6, <2>2, <2>6
    <3>2. j - Len(s) = k - Len(s)
        BY <2>6, <3>1 DEF Enumerates
    <3> QED
      BY <1>1, <1>4, <3>2
  <2> QED
    BY <1>6, <2>1, <2>3, <2>4, <2>5, <2>6
<1>7. u \in Seq(U)
    BY <1>4
<1>8. Enumerates(u, U)
  <2> HIDE DEF u, U
  <2> QED
    BY <1>5, <1>6, <1>7 DEF Enumerates
<1> QED
    BY <1>8

(* The elements of n rows.                                                 *)
AllOf(n, S) == (UNION {S[k] : k \in 1 .. n})

(* Rows of different elements, one after the other.                        *)
LEMMA RowsEnumerate ==
    ASSUME NEW n \in Nat, NEW prefix, NEW row, NEW S,
           prefix[0] = << >>,
           \A k \in 1 .. n : prefix[k] = prefix[k - 1] \o row[k],
           \A k \in 1 .. n : Enumerates(row[k], S[k]),
           \A j, k \in 1 .. n : j < k => S[j] \cap S[k] = {}
    PROVE  Enumerates(prefix[n], AllOf(n, S))
<1> DEFINE Of(k) == AllOf(k, S)
           Bad == {k \in 0 .. n : ~Enumerates(prefix[k], Of(k))}
<1>1. ASSUME NEW k \in Bad
      PROVE  \E j \in Bad : j < k
  <2>1. k \in 0 .. n /\ ~Enumerates(prefix[k], Of(k))
      OBVIOUS
  <2>2. CASE k = 0
    <3>1. Of(k) = {}
        BY <2>2 DEF AllOf
    <3> QED
      BY <2>1, <2>2, <3>1, NothingEnumerates
  <2>3. CASE k # 0
    <3>1. k \in 1 .. n /\ k - 1 \in 0 .. n
        BY <2>1, <2>3
    <3>2. \A j : j \in 1 .. k <=> j = k \/ j \in 1 .. k - 1
        BY <3>1
    <3>3. Of(k) = Of(k - 1) \cup S[k]
        BY <3>2 DEF AllOf
    <3>4. \A j \in 1 .. k - 1 : j \in 1 .. n /\ j < k
        BY <3>1
    <3>5. Of(k - 1) \cap S[k] = {}
        BY <3>1, <3>4 DEF AllOf
    <3>6. Enumerates(row[k], S[k]) /\ prefix[k] = prefix[k - 1] \o row[k]
        BY <3>1
    <3>7. ~Enumerates(prefix[k - 1], Of(k - 1))
      <4> HIDE DEF Of, Bad
      <4> QED
        BY <2>1, <3>3, <3>5, <3>6, JoinEnumerates
    <3>8. k - 1 \in Bad /\ k - 1 < k
        BY <3>1, <3>7
    <3> QED
      BY <3>8
  <2> QED
    BY <2>2, <2>3
<1>2. Bad = {}
  <2>1. Bad \subseteq Nat
      OBVIOUS
  <2> HIDE DEF Bad
  <2> QED
    BY <1>1, <2>1, NoLeast
<1>3. n \in 0 .. n
    OBVIOUS
<1> QED
    BY <1>2, <1>3

(* What InOrder() looks for, and that there is one.                        *)
IsInOrder(s, S) ==
    /\ s \in [1 .. Cardinality(S) -> S]
    /\ Range(s) = S /\ \A j, k \in DOMAIN s : j < k => s[j] < s[k]

(* A set of indexes is finite.                                             *)
LEMMA PartIsFinite ==
    ASSUME NEW n \in Nat, NEW S, S \subseteq 1 .. n
    PROVE  IsFiniteSet(S) /\ Cardinality(S) \in Nat
<1>1. IsFiniteSet(1 .. n) /\ S \in SUBSET (1 .. n)
    BY FS_Interval
<1>2. IsFiniteSet(S)
    BY <1>1, FS_Subset
<1> QED
    BY <1>2, FS_CardinalityType

(* A set of indexes can be put in order.                                   *)
LEMMA OrderExists ==
    ASSUME NEW n \in Nat, NEW S, S \subseteq 1 .. n
    PROVE  \E s : IsInOrder(s, S)
<1> DEFINE Bad == {k \in Nat : \E T \in SUBSET (1 .. k) : ~\E s : IsInOrder(s, T)}
<1>1. ASSUME NEW k \in Bad
      PROVE  \E j \in Bad : j < k
  <2>1. k \in Nat
      OBVIOUS
  <2>2. PICK T \in SUBSET (1 .. k) : ~\E s : IsInOrder(s, T)
      OBVIOUS
  <2>3. CASE T = {}
    <3>1. Cardinality(T) = 0
        BY <2>3, FS_EmptySet
    <3> DEFINE e == [i \in 1 .. 0 |-> 0]
    <3>2. DOMAIN e = {} /\ 1 .. 0 = {}
        OBVIOUS
    <3>3. IsInOrder(e, T)
        BY <2>3, <3>1, <3>2 DEF IsInOrder, Range
    <3> QED
      BY <2>2, <3>3
  <2>4. CASE T # {}
    <3>1. k # 0
      <4>1. k = 0 => 1 .. k = {}
          OBVIOUS
      <4> QED
        BY <2>4, <4>1
    <3>2. T \ {k} \in SUBSET (1 .. k - 1) /\ k - 1 \in Nat /\ k - 1 < k
        BY <2>1, <3>1
    <3>3. CASE k \notin T
      <4>1. T \ {k} = T
          BY <3>3
      <4>2. k - 1 \in Bad
          BY <2>2, <3>2, <4>1
      <4> QED
        BY <3>2, <4>2
    <3>4. CASE k \in T /\ k - 1 \notin Bad
      <4> DEFINE R == T \ {k}
                 m == Cardinality(R)
      <4>1. PICK t : IsInOrder(t, R)
          BY <3>2, <3>4
      <4>2. IsFiniteSet(T) /\ IsFiniteSet(R) /\ m \in Nat /\ Cardinality(T) = m + 1
        <5>1. IsFiniteSet(T)
            BY <2>1, PartIsFinite
        <5>2. IsFiniteSet(R) /\ m = Cardinality(T) - 1
            BY <3>4, <5>1, FS_RemoveElement
        <5>3. m \in Nat /\ Cardinality(T) \in Nat
            BY <5>1, <5>2, FS_CardinalityType
        <5> HIDE DEF m, R
        <5> QED
          BY <5>1, <5>2, <5>3
      <4>3. /\ DOMAIN t = 1 .. m /\ (\A i \in 1 .. m : t[i] \in R)
            /\ (\A x \in R : \E i \in 1 .. m : t[i] = x)
            /\ \A i, j \in 1 .. m : i < j => t[i] < t[j]
          BY <4>1 DEF IsInOrder, Range
      <4> DEFINE s == [i \in 1 .. m + 1 |-> IF i = m + 1 THEN k ELSE t[i]]
      <4> HIDE DEF m
      <4>4. \A i \in 1 .. m + 1 : i = m + 1 \/ i \in 1 .. m
          BY <4>2
      <4>5. /\ DOMAIN s = 1 .. m + 1 /\ s[m + 1] = k /\ m + 1 \in 1 .. m + 1
            /\ \A i \in 1 .. m : i \in 1 .. m + 1 /\ s[i] = t[i]
          BY <4>2
      <4>6. s \in [1 .. m + 1 -> T]
          BY <3>4, <4>3, <4>4
      <4> HIDE DEF s
      <4>7. Range(s) = T
        <5>1. \A x \in T : \E i \in 1 .. m + 1 : s[i] = x
            BY <4>3, <4>5
        <5> QED
          BY <4>5, <4>6, <5>1 DEF Range
      <4>8. ASSUME NEW i \in 1 .. m + 1, NEW j \in 1 .. m + 1, i < j
            PROVE  s[i] < s[j]
        <5>1. i \in 1 .. m
            BY <4>2, <4>8
        <5>2. t[i] \in 1 .. k - 1
            BY <3>2, <4>3, <5>1
        <5>3. CASE j = m + 1
            BY <2>1, <4>5, <5>1, <5>2, <5>3
        <5>4. CASE j \in 1 .. m
            BY <4>3, <4>5, <4>8, <5>1, <5>4
        <5> QED
          BY <4>4, <5>3, <5>4
      <4>9. IsInOrder(s, T)
          BY <4>2, <4>5, <4>6, <4>7, <4>8 DEF IsInOrder
      <4> QED
        BY <2>2, <4>9
    <3> QED
      BY <3>2, <3>3, <3>4
  <2> QED
    BY <2>3, <2>4
<1>2. Bad = {}
  <2>1. Bad \subseteq Nat
      OBVIOUS
  <2> HIDE DEF Bad
  <2> QED
    BY <1>1, <2>1, NoLeast
<1> QED
    BY <1>2

(* InOrder() has each element of the set once.                             *)
LEMMA OrderEnumerates ==
    ASSUME NEW n \in Nat, NEW S, S \subseteq 1 .. n
    PROVE  /\ Enumerates(InOrder(S), S) /\ Cardinality(S) \in Nat
           /\ DOMAIN InOrder(S) = 1 .. Cardinality(S)
<1> DEFINE s == InOrder(S)
           m == Cardinality(S)
<1>1. s = CHOOSE t :
             t \in [1 .. m -> S] /\ Range(t) = S /\ \A j, k \in DOMAIN t : j < k => t[j] < t[k]
    BY DEF InOrder
<1>2. IsInOrder(s, S)
    BY <1>1, OrderExists DEF IsInOrder
<1> HIDE DEF s
<1>3. m \in Nat
    BY PartIsFinite
<1>4. s \in [1 .. m -> S] /\ s \in Seq(S) /\ Len(s) = m
    BY <1>2, <1>3 DEF IsInOrder
<1>5. \A x \in S : \E k \in 1 .. m : s[k] = x
    BY <1>2, <1>4 DEF IsInOrder, Range
<1>6. \A j, k \in 1 .. m : s[j] = s[k] => j = k
  <2> HIDE DEF m
  <2> SUFFICES ASSUME NEW j \in 1 .. m, NEW k \in 1 .. m, s[j] = s[k] PROVE j = k
      OBVIOUS
  <2>1. s[j] \in 1 .. n /\ s[k] \in 1 .. n
      BY <1>4
  <2>2. (j < k => s[j] < s[k]) /\ (k < j => s[k] < s[j])
      BY <1>2, <1>4 DEF IsInOrder
  <2>3. ~(j < k) /\ ~(k < j)
      BY <2>1, <2>2
  <2> QED
    BY <1>3, <2>3
<1> QED
  <2> HIDE DEF m
  <2>1. Enumerates(s, S)
      BY <1>4, <1>5, <1>6 DEF Enumerates
  <2> QED
    BY <1>3, <1>4, <2>1 DEF s, m

---------------------------------------------------------------------------
(* The pairs that a process finds *)

(* A fold goes through its sequence one element after the other.           *)
LEMMA FoldPrefixes ==
    \A n \in Nat : \A op, par, base, seq, g : IsFold(op, par, base, seq, n, g) =>
       /\ g[1 .. 0] = base
       /\ \A k \in 1 .. n : g[1 .. k] = Applied(op, par, g[1 .. k - 1], seq[k])
<1> SUFFICES ASSUME NEW n \in Nat, NEW op, NEW par, NEW base, NEW seq, NEW g,
                    IsFold(op, par, base, seq, n, g)
             PROVE  /\ g[1 .. 0] = base
                    /\ \A k \in 1 .. n : g[1 .. k] = Applied(op, par, g[1 .. k - 1], seq[k])
    OBVIOUS
<1>1. \A k \in 0 .. n : g[1 .. k] = FoldStep(op, par, base, seq, g, 1 .. k)
  <2>1. \A k \in 0 .. n : 1 .. k \in SUBSET (1 .. n)
      OBVIOUS
  <2> QED
    BY <2>1 DEF IsFold
<1>2. g[1 .. 0] = base
  <2>1. 1 .. 0 = {} /\ 0 \in 0 .. n
      OBVIOUS
  <2> QED
    BY <1>1, <2>1 DEF FoldStep
<1>3. ASSUME NEW k \in 1 .. n
      PROVE  g[1 .. k] = Applied(op, par, g[1 .. k - 1], seq[k])
  <2>1. k \in 1 .. k /\ \A x \in 1 .. k : k >= x
      OBVIOUS
  <2>2. Max(1 .. k) = k
    <3>1. ASSUME NEW x \in 1 .. k, \A y \in 1 .. k : x >= y
          PROVE  x = k
      <4>1. x >= k
          BY <2>1, <3>1
      <4> QED
          BY <2>1, <4>1
    <3> QED
        BY <2>1, <3>1 DEF Max
  <2>3. (1 .. k) \ {k} = 1 .. k - 1 /\ 1 .. k # {}
    <3>1. \A m \in Nat : \A x : x \in 1 .. m /\ x # m <=> x \in 1 .. m - 1
        OBVIOUS
    <3>2. \A x : x \in (1 .. k) \ {k} <=> x \in 1 .. k - 1
        BY <3>1
    <3> QED
        BY <2>1, <3>2
  <2>4. k \in 0 .. n
      OBVIOUS
  <2> QED
    BY <1>1, <2>2, <2>3, <2>4 DEF FoldStep
<1> QED
    BY <1>2, <1>3

(* What a process has of its own: its active bodies, the pairs of them,    *)
(* and those with the bodies of another process.                           *)
BodiesOf(r, actives) == {<<r, i>> : i \in actives}
Inner(r, actives) ==
    (UNION {{{<<r, i>>, <<r, j>>} : j \in {k \in actives : k > i}} : i \in actives})
PairsOf(mine, others) == (UNION {{{a, b} : b \in others} : a \in mine})

(* serializeActiveBodies() has each active body once.                      *)
LEMMA SerializedEnumerates ==
    ASSUME NEW n \in Nat, NEW r, Actives(r) \subseteq 1 .. n
    PROVE  /\ Enumerates(Serialized(r), BodiesOf(r, Actives(r)))
           /\ Len(Serialized(r)) \in Nat /\ DOMAIN Serialized(r) = 1 .. Len(Serialized(r))
<1> DEFINE S == Actives(r)
           o == InOrder(S)
           m == Cardinality(S)
           s == Serialized(r)
<1>1. Enumerates(o, S) /\ m \in Nat /\ DOMAIN o = 1 .. m
    BY OrderEnumerates
<1>2. Len(o) = m /\ \A k \in 1 .. m : o[k] \in S
  <2> HIDE DEF o, S, m
  <2> QED
    BY <1>1 DEF Enumerates
<1>3. s = [k \in 1 .. m |-> <<r, o[k]>>]
    BY DEF Serialized
<1> HIDE DEF o, S, m, s
<1>4. s \in Seq(BodiesOf(r, S)) /\ Len(s) = m /\ \A k \in 1 .. m : s[k] = <<r, o[k]>>
  <2>1. \A k \in 1 .. m : <<r, o[k]>> \in BodiesOf(r, S)
      BY <1>2 DEF BodiesOf
  <2>2. s \in [1 .. m -> BodiesOf(r, S)]
      BY <1>3, <2>1
  <2> QED
    BY <1>1, <1>3, <2>2
<1>5. \A x \in BodiesOf(r, S) : \E k \in 1 .. m : s[k] = x
  <2> SUFFICES ASSUME NEW i \in S PROVE \E k \in 1 .. m : s[k] = <<r, i>>
      BY DEF BodiesOf
  <2>1. PICK k \in 1 .. m : o[k] = i
      BY <1>1, <1>2 DEF Enumerates
  <2> QED
    BY <1>4, <2>1
<1>6. \A j, k \in 1 .. m : s[j] = s[k] => j = k
  <2> SUFFICES ASSUME NEW j \in 1 .. m, NEW k \in 1 .. m, s[j] = s[k] PROVE j = k
      OBVIOUS
  <2>1. o[j] = o[k]
      BY <1>4
  <2> QED
    BY <1>1, <1>2, <2>1 DEF Enumerates
<1>7. Enumerates(s, BodiesOf(r, S)) /\ Len(s) \in Nat /\ DOMAIN s = 1 .. Len(s)
    BY <1>1, <1>3, <1>4, <1>5, <1>6 DEF Enumerates
<1> QED
    BY <1>7 DEF s, S

(* aggregateOwnDistances() finds each pair of the active bodies once.      *)
LEMMA OwnPairsEnumerate ==
    ASSUME NEW n \in Nat, NEW r, Indexes(r) = 1 .. n
    PROVE  Enumerates(OwnPairs(r), Inner(r, Actives(r)))
<1> DEFINE S == Actives(r)
           seq == [i \in Indexes(r) |-> i]
           par == <<r, S>>
           P(g) == g = [s \in SUBSET (1 .. n) |->
                          IF s = {} THEN << >>
                          ELSE LET x == Max(s) IN g[s \ {x}] \o OwnRow(r, S, seq[x])]
           h == CHOOSE g : P(g)
           row == [i \in 1 .. n |-> OwnRow(r, S, i)]
           pairs == [i \in 1 .. n |-> {{<<r, i>>, <<r, j>>} : j \in {k \in S : k > i /\ i \in S}}]
           prefix == [k \in 0 .. n |-> h[1 .. k]]
<1>1. OwnPairs(r) = h[1 .. n] /\ S \subseteq 1 .. n
  <2>1. DOMAIN seq = 1 .. n /\ S \subseteq 1 .. n
      BY DEF Actives
  <2> QED
    BY <2>1 DEF OwnPairs, FoldLeft, MapThenFoldSet, OwnRow
<1>2. \A g : P(g) <=> IsFold("ownPairs", par, << >>, seq, n, g)
  <2>1. \A g, s : FoldStep("ownPairs", par, << >>, seq, g, s)
                    = IF s = {} THEN << >>
                      ELSE LET x == Max(s) IN g[s \ {x}] \o OwnRow(r, S, seq[x])
    <3> HIDE DEF S, seq
    <3> QED
      BY DEF FoldStep, Applied
  <2> HIDE DEF S, seq, par
  <2> QED
    BY <2>1 DEF IsFold
<1>3. IsFold("ownPairs", par, << >>, seq, n, h)
  <2>1. PICK g : IsFold("ownPairs", par, << >>, seq, n, g)
    <3> HIDE DEF par, seq
    <3> QED
      BY FoldExists
  <2>2. \E a : P(a)
    <3> HIDE DEF P
    <3> QED
      BY <1>2, <2>1
  <2>3. P(CHOOSE a : P(a))
    <3> HIDE DEF P
    <3> QED
      BY <2>2
  <2> HIDE DEF P
  <2> QED
      BY <1>2, <2>3
<1>4. /\ h[1 .. 0] = << >>
      /\ \A k \in 1 .. n : h[1 .. k] = h[1 .. k - 1] \o row[k]
  <2>1. \A k \in 1 .. n : seq[k] = k
      OBVIOUS
  <2> HIDE DEF P, h, seq
  <2>2. \A k \in 1 .. n : Applied("ownPairs", par, h[1 .. k - 1], seq[k]) = h[1 .. k - 1] \o row[k]
    <3> HIDE DEF S
    <3> QED
      BY <2>1 DEF Applied
  <2> HIDE DEF S, row, par
  <2>3. /\ h[1 .. 0] = << >>
        /\ \A k \in 1 .. n : h[1 .. k] = Applied("ownPairs", par, h[1 .. k - 1], seq[k])
      BY <1>3, FoldPrefixes
  <2> QED
      BY <2>2, <2>3
<1> HIDE DEF P, h, seq, par
<1>5. ASSUME NEW i \in 1 .. n
      PROVE  Enumerates(row[i], pairs[i])
  <2> DEFINE T == {j \in S : j > i /\ i \in S}
             o == InOrder(T)
             m == Cardinality(T)
             f == row[i]
             D == pairs[i]
  <2>1. Enumerates(o, T) /\ m \in Nat /\ DOMAIN o = 1 .. m
    <3>1. T \subseteq 1 .. n
        BY <1>1
    <3> HIDE DEF T
    <3> QED
      BY <3>1, OrderEnumerates
  <2>2. f = [k \in 1 .. m |-> {<<r, i>>, <<r, o[k]>>}]
    <3>1. f = OwnRow(r, S, i)
        OBVIOUS
    <3>2. OwnRow(r, S, i) = [k \in DOMAIN o |-> {<<r, i>>, <<r, o[k]>>}]
      <4> HIDE DEF S
      <4> QED
        BY DEF OwnRow
    <3> QED
      BY <2>1, <3>1, <3>2
  <2>3. D = {{<<r, i>>, <<r, j>>} : j \in T}
      OBVIOUS
  <2>4. \A j \in T : j > i /\ j \in 1 .. n
      BY <1>1
  <2> HIDE DEF T, o, m, f, D, row, pairs, S
  <2>5. Len(o) = m /\ \A k \in 1 .. m : o[k] \in T
      BY <2>1 DEF Enumerates
  <2>6. f \in Seq(D) /\ Len(f) = m
    <3>1. \A k \in 1 .. m : {<<r, i>>, <<r, o[k]>>} \in D
        BY <2>3, <2>5
    <3>2. f \in [1 .. m -> D]
        BY <2>2, <3>1
    <3> QED
      BY <2>1, <2>2, <3>2
  <2>7. \A x \in D : \E k \in 1 .. m : f[k] = x
    <3> SUFFICES ASSUME NEW j \in T PROVE \E k \in 1 .. m : f[k] = {<<r, i>>, <<r, j>>}
        BY <2>3
    <3>1. PICK k \in 1 .. m : o[k] = j
        BY <2>1, <2>5 DEF Enumerates
    <3> QED
      BY <2>2, <3>1
  <2>8. \A j, k \in 1 .. m : f[j] = f[k] => j = k
    <3> SUFFICES ASSUME NEW j \in 1 .. m, NEW k \in 1 .. m, f[j] = f[k] PROVE j = k
        OBVIOUS
    <3>1. {<<r, i>>, <<r, o[j]>>} = {<<r, i>>, <<r, o[k]>>}
        BY <2>2
    <3>2. o[j] # i /\ o[k] # i
        BY <2>4, <2>5
    <3>3. <<r, o[j]>> \in {<<r, i>>, <<r, o[k]>>}
        BY <3>1
    <3>4. o[j] = o[k]
        BY <3>2, <3>3
    <3> QED
      BY <2>1, <2>5, <3>4 DEF Enumerates
  <2>9. Enumerates(f, D)
      BY <2>6, <2>7, <2>8 DEF Enumerates
  <2> QED
      BY <2>9 DEF f, D
<1>6. ASSUME NEW i \in 1 .. n, NEW j \in 1 .. n, i < j
      PROVE  pairs[i] \cap pairs[j] = {}
  <2> SUFFICES ASSUME NEW k \in S, k > i, NEW l \in S, l > j,
                      {<<r, i>>, <<r, k>>} = {<<r, j>>, <<r, l>>}
               PROVE  FALSE
      OBVIOUS
  <2>1. k \in 1 .. n /\ l \in 1 .. n
      BY <1>1
  <2>2. i = j \/ i = l
    <3>1. <<r, i>> \in {<<r, j>>, <<r, l>>}
        OBVIOUS
    <3> QED
      BY <3>1
  <2> QED
    BY <1>6, <2>1, <2>2
<1>7. AllOf(n, pairs) = Inner(r, S)
  <2>1. \A k \in 1 .. n : pairs[k] = IF k \in S
                                     THEN {{<<r, k>>, <<r, j>>} : j \in {l \in S : l > k}} ELSE {}
      OBVIOUS
  <2> HIDE DEF pairs, S
  <2>2. ASSUME NEW k \in 1 .. n, NEW x \in pairs[k]
        PROVE  x \in Inner(r, S)
    <3>1. k \in S /\ x \in {{<<r, k>>, <<r, j>>} : j \in {l \in S : l > k}}
        BY <2>1, <2>2
    <3> QED
      BY <3>1 DEF Inner
  <2>3. ASSUME NEW x \in Inner(r, S)
        PROVE  \E k \in 1 .. n : x \in pairs[k]
    <3>1. PICK k \in S : x \in {{<<r, k>>, <<r, j>>} : j \in {l \in S : l > k}}
        BY <2>3 DEF Inner
    <3>2. k \in 1 .. n /\ x \in pairs[k]
        BY <1>1, <2>1, <3>1
    <3> QED
      BY <3>2
  <2> QED
    BY <2>2, <2>3 DEF AllOf
<1>8. Enumerates(prefix[n], AllOf(n, pairs))
  <2>1. prefix[0] = << >> /\ \A k \in 1 .. n : prefix[k] = prefix[k - 1] \o row[k]
    <3> HIDE DEF row
    <3>1. \A k \in 1 .. n : k \in 0 .. n /\ k - 1 \in 0 .. n
        OBVIOUS
    <3>2. \A k \in 0 .. n : prefix[k] = h[1 .. k]
        OBVIOUS
    <3> HIDE DEF prefix
    <3>3. 0 \in 0 .. n
        OBVIOUS
    <3> QED
      BY <1>4, <3>1, <3>2, <3>3
  <2> HIDE DEF prefix, row, pairs
  <2> QED
    BY <1>5, <1>6, <2>1, RowsEnumerate
<1>9. prefix[n] = OwnPairs(r)
    BY <1>1
<1> HIDE DEF prefix, pairs, S
<1> QED
  <2>1. Enumerates(OwnPairs(r), Inner(r, S))
      BY <1>7, <1>8, <1>9
  <2> QED
    BY <2>1 DEF S

(* A row of the pairs of one body with others.                             *)
LEMMA RowOfPairs ==
    ASSUME NEW m \in Nat, NEW from, NEW T, Enumerates(from, T), Len(from) = m,
           NEW own, own \notin T, NEW f, f = [k \in 1 .. m |-> {own, from[k]}]
    PROVE  Enumerates(f, {{own, b} : b \in T})
<1> DEFINE D == {{own, b} : b \in T}
<1>1. \A k \in 1 .. m : from[k] \in T
    BY DEF Enumerates
<1>2. f \in Seq(D) /\ Len(f) = m
  <2>1. f \in [1 .. m -> D]
      BY <1>1
  <2> HIDE DEF D
  <2> QED
    BY <2>1
<1>3. ASSUME NEW x \in D
      PROVE  \E k \in 1 .. m : f[k] = x
  <2>1. PICK b \in T : x = {own, b}
      OBVIOUS
  <2>2. PICK k \in 1 .. m : from[k] = b
      BY DEF Enumerates
  <2> QED
    BY <2>1, <2>2
<1>4. ASSUME NEW j \in 1 .. m, NEW k \in 1 .. m, f[j] = f[k]
      PROVE  j = k
  <2>1. {own, from[j]} = {own, from[k]}
      BY <1>4
  <2>2. from[j] \in {own, from[k]}
      BY <2>1
  <2>3. from[j] = from[k]
      BY <1>1, <2>2
  <2> QED
    BY <2>3 DEF Enumerates
<1> HIDE DEF D
<1>5. Enumerates(f, D)
    BY <1>2, <1>3, <1>4 DEF Enumerates
<1> QED
    BY <1>5 DEF D

(* aggregateDistances() finds each pair of an own body and a received one  *)
(* once.                                                                   *)
LEMMA RemotePairsEnumerate ==
    ASSUME NEW m \in Nat, NEW r, Actives(r) \subseteq 1 .. m,
           NEW others, NEW l \in Nat, DOMAIN others = 1 .. l, NEW T,
           Enumerates([k \in 1 .. l |-> others[k].from], T),
           BodiesOf(r, Actives(r)) \cap T = {}
    PROVE  Enumerates(RemotePairs(r, others), PairsOf(BodiesOf(r, Actives(r)), T))
<1> DEFINE seq == Serialized(r)
           n == Len(seq)
           own == BodiesOf(r, Actives(r))
           P(g) == g = [s \in SUBSET (1 .. n) |->
                          IF s = {} THEN << >>
                          ELSE LET x == Max(s) IN g[s \ {x}] \o RemoteRow(others, seq[x])]
           h == CHOOSE g : P(g)
           row == [i \in 1 .. n |-> RemoteRow(others, seq[i])]
           pairs == [i \in 1 .. n |-> {{seq[i], b} : b \in T}]
           prefix == [k \in 0 .. n |-> h[1 .. k]]
<1>1. Enumerates(seq, own) /\ n \in Nat /\ DOMAIN seq = 1 .. n
    BY SerializedEnumerates
<1>2. RemotePairs(r, others) = h[1 .. n]
  <2> HIDE DEF seq
  <2>1. RemotePairs(r, others)
          = FoldLeft(LAMBDA list, mine : list \o [k \in DOMAIN others |-> {mine, others[k].from}],
                     << >>, seq)
      BY DEF RemotePairs, seq
  <2> QED
    BY <1>1, <2>1 DEF FoldLeft, MapThenFoldSet, RemoteRow
<1>3. \A i \in 1 .. n : seq[i] \in own
    BY <1>1 DEF Enumerates
<1> HIDE DEF seq, n, own
<1>4. \A g : P(g) <=> IsFold("remotePairs", others, << >>, seq, n, g)
  <2>1. \A g, s : FoldStep("remotePairs", others, << >>, seq, g, s)
                    = IF s = {} THEN << >>
                      ELSE LET x == Max(s) IN g[s \ {x}] \o RemoteRow(others, seq[x])
      BY DEF FoldStep, Applied
  <2> QED
    BY <2>1 DEF IsFold
<1>5. IsFold("remotePairs", others, << >>, seq, n, h)
  <2>1. PICK g : IsFold("remotePairs", others, << >>, seq, n, g)
      BY <1>1, FoldExists
  <2>2. \E a : P(a)
    <3> HIDE DEF P
    <3> QED
      BY <1>4, <2>1
  <2>3. P(CHOOSE a : P(a))
    <3> HIDE DEF P
    <3> QED
      BY <2>2
  <2> HIDE DEF P
  <2> QED
      BY <1>4, <2>3
<1> HIDE DEF P, h
<1>6. /\ h[1 .. 0] = << >>
      /\ \A k \in 1 .. n : h[1 .. k] = h[1 .. k - 1] \o row[k]
  <2>1. \A k \in 1 .. n :
           Applied("remotePairs", others, h[1 .. k - 1], seq[k]) = h[1 .. k - 1] \o row[k]
      BY DEF Applied
  <2>0. n \in Nat
      BY <1>1
  <2> HIDE DEF row
  <2>3. IsFold("remotePairs", others, << >>, seq, n, h) =>
           /\ h[1 .. 0] = << >>
           /\ \A k \in 1 .. n : h[1 .. k] = Applied("remotePairs", others, h[1 .. k - 1], seq[k])
      BY <2>0, FoldPrefixes
  <2> QED
      BY <1>5, <2>1, <2>3
<1>7. ASSUME NEW i \in 1 .. n
      PROVE  Enumerates(row[i], pairs[i])
  <2> DEFINE from == [k \in 1 .. l |-> others[k].from]
             f == row[i]
             mine == seq[i]
  <2>1. f = [k \in 1 .. l |-> {mine, from[k]}]
      BY DEF RemoteRow
  <2>2. Len(from) = l
    <3>1. from \in Seq(T)
        BY DEF Enumerates
    <3>2. DOMAIN from = 1 .. l /\ DOMAIN from = 1 .. Len(from) /\ Len(from) \in Nat
        BY <3>1
    <3> QED
      BY <3>2
  <2>3. mine \notin T
      BY <1>3 DEF own
  <2>4. pairs[i] = {{mine, b} : b \in T}
      OBVIOUS
  <2>5. Enumerates(from, T)
      OBVIOUS
  <2> HIDE DEF from, f, mine, pairs, row
  <2>7. \A j \in Nat : \A a, s, g :
           /\ Enumerates(s, T) /\ Len(s) = j
           /\ a \notin T /\ g = [k \in 1 .. j |-> {a, s[k]}]
           => Enumerates(g, {{a, b} : b \in T})
      BY RowOfPairs
  <2>6. Enumerates(f, {{mine, b} : b \in T})
      BY <2>1, <2>2, <2>3, <2>5, <2>7
  <2> QED
    BY <2>4, <2>6 DEF f
<1>8. ASSUME NEW i \in 1 .. n, NEW j \in 1 .. n, i < j
      PROVE  pairs[i] \cap pairs[j] = {}
  <2> SUFFICES ASSUME NEW a \in T, NEW b \in T, {seq[i], a} = {seq[j], b}
               PROVE  FALSE
      OBVIOUS
  <2>1. seq[i] \in {seq[j], b} /\ seq[i] \notin T
      BY <1>3 DEF own
  <2>2. seq[i] = seq[j]
      BY <2>1
  <2>3. i = j
      BY <1>1, <2>2 DEF Enumerates, n
  <2> QED
    BY <1>1, <1>8, <2>3
<1>9. AllOf(n, pairs) = PairsOf(own, T)
  <2>1. \A k \in 1 .. n : pairs[k] = {{seq[k], b} : b \in T}
      OBVIOUS
  <2> HIDE DEF pairs
  <2>2. ASSUME NEW k \in 1 .. n, NEW x \in pairs[k]
        PROVE  x \in PairsOf(own, T)
    <3>1. x \in {{seq[k], b} : b \in T} /\ seq[k] \in own
        BY <1>3, <2>1, <2>2
    <3> QED
      BY <3>1 DEF PairsOf
  <2>3. ASSUME NEW x \in PairsOf(own, T)
        PROVE  \E k \in 1 .. n : x \in pairs[k]
    <3>1. PICK a \in own : x \in {{a, b} : b \in T}
        BY <2>3 DEF PairsOf
    <3>2. PICK k \in 1 .. n : seq[k] = a
        BY <1>1 DEF Enumerates, n
    <3>3. x \in pairs[k]
        BY <2>1, <3>1, <3>2
    <3> QED
      BY <3>3
  <2> QED
    BY <2>2, <2>3 DEF AllOf
<1>10. Enumerates(prefix[n], AllOf(n, pairs))
  <2>1. prefix[0] = << >> /\ \A k \in 1 .. n : prefix[k] = prefix[k - 1] \o row[k]
    <3> HIDE DEF row
    <3>1. 0 \in 0 .. n /\ \A k \in 1 .. n : k \in 0 .. n /\ k - 1 \in 0 .. n
        BY <1>1
    <3>2. \A k \in 0 .. n : prefix[k] = h[1 .. k]
        OBVIOUS
    <3> HIDE DEF prefix
    <3> QED
      BY <1>6, <3>1, <3>2
  <2> HIDE DEF prefix, row, pairs
  <2> QED
    BY <1>1, <1>7, <1>8, <2>1, RowsEnumerate
<1>11. prefix[n] = RemotePairs(r, others)
    BY <1>1, <1>2
<1> HIDE DEF prefix, pairs
<1> QED
  <2>1. Enumerates(RemotePairs(r, others), PairsOf(own, T))
      BY <1>9, <1>10, <1>11
  <2> QED
    BY <2>1 DEF own

(* The concatenation of sequences that enumerate different sets.           *)
LEMMA FlattenEnumerates ==
    ASSUME NEW n \in Nat \ {0}, NEW seqs, Len(seqs) = n, NEW S,
           \A k \in 1 .. n : Enumerates(seqs[k], S[k]),
           \A j, k \in 1 .. n : j < k => S[j] \cap S[k] = {}
    PROVE  Enumerates(FlattenSeq(seqs), AllOf(n, S))
<1> DEFINE P(f) == f = [i \in 1 .. n |-> IF i = 1 THEN seqs[i] ELSE f[i - 1] \o seqs[i]]
           h == CHOOSE f : P(f)
           prefix == [k \in 0 .. n |-> IF k = 0 THEN << >> ELSE h[k]]
<1>1. FlattenSeq(seqs) = h[n]
    BY DEF FlattenSeq
<1>2. \E f : P(f)
  <2> DEFINE From(k, f) == f = [i \in 1 .. k |-> IF i = 1 THEN seqs[i] ELSE f[i - 1] \o seqs[i]]
             Bad == {k \in Nat : ~\E f : From(k, f)}
  <2>1. ASSUME NEW k \in Bad
        PROVE  \E j \in Bad : j < k
    <3>1. k \in Nat /\ ~\E f : From(k, f)
        OBVIOUS
    <3>2. CASE k = 0
      <4> DEFINE e == [i \in 1 .. 0 |-> 0]
      <4>1. From(k, e)
          BY <3>2
      <4> QED
        BY <3>1, <4>1
    <3>3. CASE k # 0 /\ k - 1 \notin Bad
      <4>1. k - 1 \in Nat
          BY <3>1, <3>3
      <4>2. PICK f : From(k - 1, f)
          BY <3>3, <4>1
      <4> DEFINE g == [i \in 1 .. k |-> IF i \in 1 .. k - 1 THEN f[i]
                                        ELSE IF i = 1 THEN seqs[i] ELSE f[i - 1] \o seqs[i]]
      <4>3. \A i \in 1 .. k - 1 : i \in 1 .. k /\ g[i] = f[i]
          BY <3>1
      <4>4. ASSUME NEW i \in 1 .. k
            PROVE  g[i] = IF i = 1 THEN seqs[i] ELSE g[i - 1] \o seqs[i]
        <5>1. i # 1 => g[i - 1] = f[i - 1]
            BY <3>1, <4>3
        <5>2. i \in 1 .. k - 1 => f[i] = IF i = 1 THEN seqs[i] ELSE f[i - 1] \o seqs[i]
            BY <4>2
        <5>3. g[i] = IF i \in 1 .. k - 1 THEN f[i]
                     ELSE IF i = 1 THEN seqs[i] ELSE f[i - 1] \o seqs[i]
            OBVIOUS
        <5> HIDE DEF g
        <5> QED
          BY <5>1, <5>2, <5>3
      <4>5. From(k, g)
          BY <4>4
      <4> QED
        BY <3>1, <4>5
    <3>4. CASE k # 0 /\ k - 1 \in Bad
      <4>1. k - 1 < k
          BY <3>1
      <4> HIDE DEF Bad
      <4> QED
        BY <3>4, <4>1
    <3> QED
      BY <3>2, <3>3, <3>4
  <2>2. Bad = {}
    <3>1. Bad \subseteq Nat
        OBVIOUS
    <3> HIDE DEF Bad
    <3> QED
      BY <2>1, <3>1, NoLeast
  <2>3. \E f : From(n, f)
    <3> HIDE DEF From
    <3> QED
      BY <2>2
  <2> QED
    BY <2>3
<1>3. P(h)
  <2> HIDE DEF P
  <2> QED
    BY <1>2
<1> HIDE DEF h
<1>4. \A i \in 1 .. n : h[i] = IF i = 1 THEN seqs[i] ELSE h[i - 1] \o seqs[i]
    BY <1>3
<1> HIDE DEF P
<1>5. \A k \in 1 .. n : prefix[k] = prefix[k - 1] \o seqs[k]
  <2> SUFFICES ASSUME NEW k \in 1 .. n PROVE prefix[k] = prefix[k - 1] \o seqs[k]
      OBVIOUS
  <2>1. prefix[k] = h[k] /\ prefix[k - 1] = IF k = 1 THEN << >> ELSE h[k - 1]
      OBVIOUS
  <2>2. CASE k = 1
    <3>1. seqs[k] \in Seq(S[k])
        BY DEF Enumerates
    <3>2. << >> \o seqs[k] = seqs[k]
        BY <3>1
    <3> QED
      BY <1>4, <2>1, <2>2, <3>2
  <2>3. CASE k # 1
      BY <1>4, <2>1, <2>3
  <2> QED
    BY <2>2, <2>3
<1>6. prefix[0] = << >> /\ prefix[n] = h[n]
    OBVIOUS
<1> HIDE DEF prefix
<1>7. Enumerates(prefix[n], AllOf(n, S))
    BY <1>5, <1>6, RowsEnumerate
<1> QED
    BY <1>1, <1>6, <1>7

---------------------------------------------------------------------------
(* The pairs that a job reports *)

CountingPlaces == {"distanceTurn", "statistic", "reducing", "done"}

(* The pairs of the bodies of two processes, those of a process with the   *)
(* processes of lower ranks, and those it has found so far.                *)
Across(r, q) == PairsOf(BodiesOf(r, Actives(r)), BodiesOf(q, Actives(q)))
PairsWith(r, ranks) == Inner(r, Actives(r)) \cup (UNION {Across(r, q) : q \in ranks})
Lower(r) == {q \in Ranks : q < r}
Met(r) == {q \in Lower(r) : pc[r] = "distanceTurn" => q < turn[r]}

FoundInv ==
    /\ DOMAIN distances = Ranks
    /\ \A r \in Ranks :
          pc[r] \in CountingPlaces => Enumerates(distances[r], PairsWith(r, Met(r)))

(* What is handed over in the turn of a process, and to the first          *)
(* statistic.                                                              *)
HandedInv ==
    \A q \in Ranks : \A k \in DOMAIN calls[q] :
       /\ calls[q][k].from = <<"distanceTurn", q>> =>
             pc[q] \in CountingPlaces /\ calls[q][k].data = PositionDataOf(q)
       /\ calls[q][k].from = <<"statistic", 0>> =>
             pc[q] \in StatisticPlaces /\ calls[q][k].data = distances[q]

AllPairs == (UNION {PairsWith(r, Lower(r)) : r \in Ranks})

PairInv == FoundInv /\ HandedInv /\ (report # << >> => Enumerates(report[1], AllPairs))

(* The active bodies are among those of the block.                         *)
LEMMA ActivesInBlock ==
    ASSUME StartInv, BodiesInv, NEW r \in Ranks
    PROVE  /\ BodyCount(r) \in Nat /\ Indexes(r) = 1 .. BodyCount(r)
           /\ Actives(r) \subseteq 1 .. BodyCount(r)
<1>1. BodyCount(r) \in Nat
    BY BodyCountType DEF StartInv
<1>2. Indexes(r) = 1 .. BodyCount(r)
    BY DEF BodiesInv, Sound, Indexes
<1> QED
    BY <1>1, <1>2 DEF Actives

(* While the bodies are as they were, so are their pairs.                  *)
LEMMA PairsKept ==
    ASSUME UNCHANGED universe
    PROVE  /\ \A r : PositionDataOf(r)' = PositionDataOf(r)
           /\ \A r, ranks : PairsWith(r, ranks)' = PairsWith(r, ranks)
           /\ AllPairs' = AllPairs
<1>1. \A r : Actives(r)' = Actives(r)
    BY DEF Actives, Indexes
<1>2. \A r : Serialized(r)' = Serialized(r)
    BY <1>1 DEF Serialized
<1>3. \A b : PositionData(b)' = PositionData(b)
    BY DEF PositionData, BodyOf
<1>4. ASSUME NEW r
      PROVE  PositionDataOf(r)' = PositionDataOf(r)
    BY <1>2, <1>3 DEF PositionDataOf
<1>5. ASSUME NEW r, NEW ranks
      PROVE  PairsWith(r, ranks)' = PairsWith(r, ranks)
    BY <1>1 DEF PairsWith, Across
<1>6. AllPairs' = AllPairs
    BY <1>5 DEF AllPairs, Lower
<1> QED
    BY <1>4, <1>5, <1>6

(* The pairs that a process finds with another one are new.                *)
LEMMA RanksOfPairs ==
    ASSUME NEW r, NEW ranks, NEW x \in PairsWith(r, ranks)
    PROVE  /\ \A b \in x : b[1] = r \/ b[1] \in ranks
           /\ \E b \in x : b[1] = r
<1>1. CASE x \in Inner(r, Actives(r))
  <2>1. PICK i \in Actives(r) : \E j \in {k \in Actives(r) : k > i} : x = {<<r, i>>, <<r, j>>}
      BY <1>1 DEF Inner
  <2> QED
    BY <2>1
<1>2. CASE \E q \in ranks : x \in Across(r, q)
  <2>1. PICK q \in ranks : x \in Across(r, q)
      BY <1>2
  <2>2. PICK a \in BodiesOf(r, Actives(r)), b \in BodiesOf(q, Actives(q)) : x = {a, b}
      BY <2>1 DEF Across, PairsOf
  <2>3. a[1] = r /\ b[1] = q
      BY <2>2 DEF BodiesOf
  <2> QED
    BY <2>2, <2>3
<1> QED
    BY <1>1, <1>2 DEF PairsWith

(* In its turn a process receives the positions of the other's bodies, and *)
(* adds the pairs with them to those that it has.                          *)
LEMMA FoundMore ==
    ASSUME StartInv, BodiesInv, NEW r \in Ranks, NEW t \in Ranks, r # t,
           NEW ranks, t \notin ranks, NEW list, Enumerates(list, PairsWith(r, ranks))
    PROVE  Enumerates(list \o RemotePairs(r, PositionDataOf(t)), PairsWith(r, ranks \cup {t}))
<1> DEFINE others == PositionDataOf(t)
           l == Len(Serialized(t))
           T == BodiesOf(t, Actives(t))
           m == BodyCount(r)
<1>1. Enumerates(Serialized(t), T) /\ l \in Nat /\ DOMAIN Serialized(t) = 1 .. l
    BY ActivesInBlock, SerializedEnumerates
<1>2. DOMAIN others = 1 .. l /\ \A k \in 1 .. l : others[k].from = Serialized(t)[k]
    BY <1>1 DEF PositionDataOf, PositionData
<1>3. Serialized(t) = [k \in 1 .. l |-> Serialized(t)[k]]
    BY <1>1 DEF Serialized
<1>4. [k \in 1 .. l |-> others[k].from] = Serialized(t)
  <2> HIDE DEF l, others
  <2> QED
    BY <1>2, <1>3
<1>5. BodiesOf(r, Actives(r)) \cap T = {}
    BY DEF BodiesOf
<1>6. m \in Nat /\ Actives(r) \subseteq 1 .. m
    BY ActivesInBlock
<1> HIDE DEF m, T, l, others
<1>7. Enumerates(RemotePairs(r, others), PairsOf(BodiesOf(r, Actives(r)), T))
    BY <1>1, <1>2, <1>4, <1>5, <1>6, RemotePairsEnumerate
<1>8. Enumerates(RemotePairs(r, others), Across(r, t))
    BY <1>7 DEF Across, T
<1>9. PairsWith(r, ranks) \cap Across(r, t) = {}
  <2> SUFFICES ASSUME NEW x \in PairsWith(r, ranks), x \in Across(r, t) PROVE FALSE
      OBVIOUS
  <2>1. PICK a \in BodiesOf(r, Actives(r)), b \in BodiesOf(t, Actives(t)) : x = {a, b}
      BY DEF Across, PairsOf
  <2>2. b \in x /\ b[1] = t
      BY <2>1 DEF BodiesOf
  <2> QED
    BY <2>2, RanksOfPairs
<1>10. PairsWith(r, ranks \cup {t}) = PairsWith(r, ranks) \cup Across(r, t)
    BY DEF PairsWith
<1>11. Enumerates(list \o RemotePairs(r, others), PairsWith(r, ranks) \cup Across(r, t))
    BY <1>8, <1>9, JoinEnumerates
<1> QED
    BY <1>10, <1>11 DEF others

(* Each pair of active bodies is found by the process of the higher rank.  *)
LEMMA AllPairsAre ==
    ASSUME StartInv, BodiesInv
    PROVE  AllPairs = {{a, b} : a, b \in ActiveBodies} \ {{a} : a \in ActiveBodies}
<1> DEFINE all == {{a, b} : a, b \in ActiveBodies} \ {{a} : a \in ActiveBodies}
<1>1. \A r \in Ranks : \A i \in Actives(r) : i \in Nat
    BY ActivesInBlock
<1>2. \A b : b \in ActiveBodies <=> \E r \in Ranks : \E i \in Actives(r) : b = <<r, i>>
    BY DEF ActiveBodies
<1>3. \A a, b : a \in ActiveBodies /\ b \in ActiveBodies /\ a # b => {a, b} \in all
    OBVIOUS
<1>4. ASSUME NEW x \in AllPairs
      PROVE  x \in all
  <2>1. PICK r \in Ranks : x \in PairsWith(r, Lower(r))
      BY <1>4 DEF AllPairs
  <2>2. CASE x \in Inner(r, Actives(r))
    <3>1. PICK i \in Actives(r) : \E j \in {k \in Actives(r) : k > i} : x = {<<r, i>>, <<r, j>>}
        BY <2>2 DEF Inner
    <3>3. PICK j \in {k \in Actives(r) : k > i} : x = {<<r, i>>, <<r, j>>}
        BY <3>1
    <3>2. <<r, i>> # <<r, j>>
        BY <1>1
    <3> HIDE DEF all
    <3> QED
      BY <1>2, <1>3, <3>2, <3>3
  <2>3. CASE \E q \in Lower(r) : x \in Across(r, q)
    <3>1. PICK q \in Lower(r) : x \in Across(r, q)
        BY <2>3
    <3>2. PICK i \in Actives(r), j \in Actives(q) : x = {<<r, i>>, <<q, j>>}
        BY <3>1 DEF Across, PairsOf, BodiesOf
    <3>3. q \in Ranks /\ <<r, i>> # <<q, j>>
        BY <3>1, NBodyAssumption DEF Lower, Ranks
    <3> HIDE DEF all
    <3> QED
      BY <1>2, <1>3, <3>2, <3>3
  <2> QED
    BY <2>1, <2>2, <2>3 DEF PairsWith
<1>5. ASSUME NEW a \in ActiveBodies, NEW b \in ActiveBodies, a # b
      PROVE  {a, b} \in AllPairs
  <2>1. ASSUME NEW r \in Ranks, NEW i \in Actives(r), NEW q \in Ranks, NEW j \in Actives(q),
               q < r \/ (q = r /\ i < j)
        PROVE  {<<r, i>>, <<q, j>>} \in AllPairs
    <3>1. CASE q < r
      <4> DEFINE a1 == <<r, i>>
                 b1 == <<q, j>>
      <4>3. a1 \in BodiesOf(r, Actives(r)) /\ b1 \in BodiesOf(q, Actives(q))
          BY DEF BodiesOf
      <4>1. {a1, b1} \in Across(r, q)
        <5> HIDE DEF a1, b1
        <5> QED
          BY <4>3 DEF Across, PairsOf
      <4>2. q \in Lower(r)
          BY <3>1 DEF Lower
      <4> QED
        BY <4>1, <4>2 DEF AllPairs, PairsWith
    <3>2. CASE q = r /\ i < j
      <4>1. {<<r, i>>, <<q, j>>} \in Inner(r, Actives(r))
        <5>1. j \in {k \in Actives(r) : k > i}
            BY <1>1, <3>2
        <5> QED
          BY <3>2, <5>1 DEF Inner
      <4> QED
        BY <4>1 DEF AllPairs, PairsWith
    <3> QED
      BY <2>1, <3>1, <3>2
  <2>8. PICK r \in Ranks : \E i \in Actives(r) : a = <<r, i>>
      BY <1>2
  <2>2. PICK i \in Actives(r) : a = <<r, i>>
      BY <2>8
  <2>9. PICK q \in Ranks : \E j \in Actives(q) : b = <<q, j>>
      BY <1>2
  <2>3. PICK j \in Actives(q) : b = <<q, j>>
      BY <2>9
  <2>4. \/ q < r \/ (q = r /\ i < j)
        \/ r < q \/ (r = q /\ j < i)
    <3>1. r \in Int /\ q \in Int /\ i \in Int /\ j \in Int
        BY <1>1, NBodyAssumption DEF Ranks
    <3> QED
      BY <1>5, <2>2, <2>3, <3>1
  <2>5. {a, b} = {b, a}
      OBVIOUS
  <2>6. CASE q < r \/ (q = r /\ i < j)
      BY <2>1, <2>2, <2>3, <2>6
  <2>7. CASE r < q \/ (r = q /\ j < i)
    <3>1. {<<q, j>>, <<r, i>>} \in AllPairs
        BY <2>1, <2>7
    <3> QED
      BY <2>2, <2>3, <2>5, <3>1
  <2> QED
    BY <2>4, <2>6, <2>7
<1>6. ASSUME NEW x \in all
      PROVE  x \in AllPairs
  <2>1. PICK a \in ActiveBodies, b \in ActiveBodies : x = {a, b}
      BY <1>6
  <2>2. a # b
      BY <1>6, <2>1
  <2> QED
    BY <1>5, <2>1, <2>2
<1> QED
    BY <1>4, <1>6

(* Nobody is past the save while somebody has not come to it.              *)
LEMMA NobodyReports ==
    ASSUME CallInv, ReportInv, BarrierInv, NEW r \in Ranks, SaveCalls(r) = 0
    PROVE  /\ \A q \in Ranks : pc[q] \notin Reporting
           /\ report = << >>
<1>1. Size \in Nat \ {0} /\ 0 \in Ranks
    BY NBodyAssumption DEF Ranks
<1>2. ASSUME NEW q \in Ranks, pc[q] \in Reporting
      PROVE  FALSE
  <2>1. SaveTurns(q) = Size
      BY <1>2 DEF SaveTurns, Reporting
  <2>2. SaveCalls(r) >= SaveTurns(q)
      BY DEF BarrierInv
  <2> QED
    BY <1>1, <2>1, <2>2
<1>3. pc[0] \notin StatisticPlaces
    BY <1>1, <1>2 DEF StatisticPlaces, Reporting
<1>4. report \in Seq(Range(report)) /\ Len(report) = 0
    BY <1>3 DEF ReportInv
<1>5. report = << >>
    BY <1>4
<1> QED
    BY <1>2, <1>5

(* The steps before the save, which have nothing to do with distances.     *)
LEMMA EarlyStep ==
    ASSUME CallInv, NEW r \in Ranks, Process(r),
           pc[r] \notin Reporting \cup {"save", "barrier"}
    PROVE  /\ SaveCalls(r) = 0 /\ UNCHANGED <<distances, report>>
           /\ pc'[r] \notin Reporting /\ \A q \in Ranks \ {r} : pc'[q] = pc[q]
           /\ UNCHANGED calls \/ \E name, root, data : Call(r, name, root, data)
<1>1. StartInv /\ TurnInv /\ DOMAIN pc = Ranks
    BY DEF CallInv, StartInv
<1>2. SaveCalls(r) = 0
    BY DEF SaveCalls
<1>3. CASE Start(r) \/ StartFails(r) \/ LocalCollisions(r) \/ LocalAccelerations(r)
           \/ CountBodies(r)
  <2>1. /\ UNCHANGED <<distances, report, calls>>
        /\ \E next : next \notin Reporting /\ pc' = [pc EXCEPT ![r] = next]
      BY <1>3 DEF Start, StartFails, LocalCollisions, LocalAccelerations, CountBodies, GoTo,
         LoopTest, Reporting
  <2> QED
    BY <1>1, <1>2, <2>1
<1>4. CASE Move(r)
  <2>1. /\ UNCHANGED <<distances, report>> /\ pc' = [pc EXCEPT ![r] = "count"]
        /\ Call(r, "allReduce", NoRoot, universe[r].active)
      BY <1>4 DEF Move, GoTo
  <2> QED
    BY <1>1, <1>2, <2>1 DEF Reporting
<1>5. CASE CollisionTurn(r) \/ AccelerationTurn(r)
  <2>1. /\ UNCHANGED <<distances, report>> /\ pc[r] \notin Reporting
        /\ NextTurn(r, "accelerate") \/ NextTurn(r, "move")
        /\ \E data : Call(r, "broadcast", turn[r], data)
      BY <1>5 DEF CollisionTurn, AccelerationTurn, Reporting
  <2>2. pc'[r] \notin Reporting /\ \A q \in Ranks \ {r} : pc'[q] = pc[q]
      BY <1>1, <2>1, PlaceNext DEF Reporting
  <2> QED
    BY <1>2, <2>1, <2>2
<1> QED
    BY <1>3, <1>4, <1>5 DEF Process, SaveTurn, LeaveBarrier, OwnDistances, DistanceTurn,
       LeaveOutStatistic, EnterStatistic, LeaveStatistic, Reporting

(* A call is handed over once, and what it brings does not change.         *)
LEMMA HandedStep ==
    ASSUME CallsAreSequences, HandedInv, NEW r \in Ranks, UNCHANGED universe,
           \A q \in Ranks \ {r} : pc'[q] = pc[q] /\ distances'[q] = distances[q],
           pc[r] \in CountingPlaces => pc'[r] \in CountingPlaces,
           pc[r] \in StatisticPlaces =>
              pc'[r] \in StatisticPlaces /\ distances'[r] = distances[r],
           \/ UNCHANGED calls
           \/ \E name, root, data :
                 /\ Call(r, name, root, data)
                 /\ (pc[r] = "distanceTurn" /\ turn[r] = r) => data = PositionDataOf(r)
                 /\ (pc[r] = "statistic" /\ turn[r] = 0) => data = distances[r]
    PROVE  HandedInv'
<1>1. ASSUME NEW q \in Ranks, NEW k \in DOMAIN calls[q], calls'[q][k] = calls[q][k]
      PROVE  /\ calls'[q][k].from = <<"distanceTurn", q>> =>
                   pc'[q] \in CountingPlaces /\ calls'[q][k].data = PositionDataOf(q)'
             /\ calls'[q][k].from = <<"statistic", 0>> =>
                   pc'[q] \in StatisticPlaces /\ calls'[q][k].data = distances'[q]
  <2>1. PositionDataOf(q)' = PositionDataOf(q)
      BY PairsKept
  <2>2. /\ pc[q] \in CountingPlaces => pc'[q] \in CountingPlaces
        /\ pc[q] \in StatisticPlaces =>
              pc'[q] \in StatisticPlaces /\ distances'[q] = distances[q]
      OBVIOUS
  <2> QED
    BY <1>1, <2>1, <2>2 DEF HandedInv
<1>2. CASE UNCHANGED calls
    BY <1>1, <1>2 DEF HandedInv
<1>3. ASSUME NEW name, NEW root, NEW data, Call(r, name, root, data),
             pc[r] = "distanceTurn" /\ turn[r] = r => data = PositionDataOf(r),
             pc[r] = "statistic" /\ turn[r] = 0 => data = distances[r]
      PROVE  HandedInv'
  <2> DEFINE call == [call |-> name, root |-> root, data |-> data, from |-> <<pc[r], turn[r]>>]
             m == Len(calls[r]) + 1
  <2>1. /\ DOMAIN calls[r] = 1 .. Len(calls[r]) /\ Len(calls[r]) \in Nat
        /\ DOMAIN calls'[r] = 1 .. m /\ calls'[r][m] = call
        /\ \A k \in 1 .. Len(calls[r]) : calls'[r][k] = calls[r][k]
        /\ \A q \in Ranks \ {r} : calls'[q] = calls[q]
    <3>1. calls' = [calls EXCEPT ![r] = Append(@, call)]
        BY <1>3 DEF Call
    <3> HIDE DEF call
    <3> QED
      BY <3>1, CallsType, CallAppended
  <2>2. call.from = <<pc[r], turn[r]>> /\ call.data = data
      OBVIOUS
  <2>3. /\ call.from = <<"distanceTurn", r>> =>
              pc'[r] \in CountingPlaces /\ call.data = PositionDataOf(r)'
        /\ call.from = <<"statistic", 0>> =>
              pc'[r] \in StatisticPlaces /\ call.data = distances'[r]
    <3>1. PositionDataOf(r)' = PositionDataOf(r)
        BY PairsKept
    <3> HIDE DEF call
    <3>2. ASSUME call.from = <<"distanceTurn", r>>
          PROVE  pc'[r] \in CountingPlaces /\ call.data = PositionDataOf(r)'
      <4>1. pc[r] = "distanceTurn" /\ turn[r] = r
          BY <2>2, <3>2
      <4> QED
        BY <1>3, <2>2, <3>1, <4>1 DEF CountingPlaces
    <3>3. ASSUME call.from = <<"statistic", 0>>
          PROVE  pc'[r] \in StatisticPlaces /\ call.data = distances'[r]
      <4>1. pc[r] = "statistic" /\ turn[r] = 0
          BY <2>2, <3>3
      <4> QED
        BY <1>3, <2>2, <4>1 DEF StatisticPlaces
    <3> QED
      BY <3>2, <3>3
  <2> HIDE DEF call
  <2>4. ASSUME NEW q \in Ranks, NEW k \in DOMAIN calls'[q]
        PROVE  (q = r /\ k = m) \/ (k \in DOMAIN calls[q] /\ calls'[q][k] = calls[q][k])
      BY <2>1
  <2> HIDE DEF m
  <2> QED
    BY <1>1, <2>1, <2>3, <2>4 DEF HandedInv
<1> QED
    BY <1>2, <1>3

(* What the others have found stays as it is.                              *)
LEMMA FoundStep ==
    ASSUME FoundInv, NEW r \in Ranks, UNCHANGED universe, DOMAIN distances' = Ranks,
           \A q \in Ranks \ {r} :
              pc'[q] = pc[q] /\ turn'[q] = turn[q] /\ distances'[q] = distances[q],
           pc'[r] \in CountingPlaces => Enumerates(distances'[r], PairsWith(r, Met(r)'))
    PROVE  FoundInv'
<1>1. \A q, ranks : PairsWith(q, ranks)' = PairsWith(q, ranks)
    BY PairsKept
<1>2. ASSUME NEW q \in Ranks, pc'[q] \in CountingPlaces
      PROVE  Enumerates(distances'[q], PairsWith(q, Met(q)'))
  <2>1. CASE q = r
      BY <1>2, <2>1
  <2>2. CASE q # r
    <3>1. Met(q)' = Met(q)
        BY <2>2 DEF Met, Lower
    <3> QED
      BY <1>2, <2>2, <3>1 DEF FoundInv
  <2> QED
    BY <2>1, <2>2
<1>3. ASSUME NEW q \in Ranks
      PROVE  PairsWith(q, Met(q))' = PairsWith(q, Met(q)')
    BY <1>1 DEF PairsWith, Across
<1> QED
    BY <1>2, <1>3 DEF FoundInv

(* What the first statistic is made of.                                    *)
LEMMA FirstReduced ==
    ASSUME CallInv, BodiesInv, FoundInv, HandedInv,
           0 \in Ranks, pc[0] = "reducing", turn[0] = 0, EverybodyCame(0)
    PROVE  Enumerates(FlattenSeq(Reduced(0)), AllPairs)
<1> DEFINE m == Len(calls[0])
           few == Few(0)
           S == [k \in 1 .. Size |-> PairsWith(k - 1, Lower(k - 1))]
<1>1. Size \in Nat \ {0} /\ CallsAreSequences /\ StartInv /\ few \in BOOLEAN
    BY NBodyAssumption DEF CallInv, StartInv, Few
<1>2. CallsMade(0) = 2 * Size + 1 /\ ~InLoop(0)
  <2>1. StatisticsMade(few, 0) = 0
      BY <1>1, StatisticsCounted
  <2>2. CallsMade(0) = 2 * Size + StatisticsMade(few, 0) + 1
      BY MadeAt DEF CallsMade
  <2> QED
    BY <1>1, <2>1, <2>2 DEF InLoop, LoopPlaces, Started
<1>3. Base(0) \in Nat /\ m = Base(0) + (2 * Size + 1)
    BY <1>2, CallsMadeType
<1>4. m \in DOMAIN calls[0] /\ calls[0][m].from = Planned(InLoop(0), few, 2 * Size + 1)
  <2>1. 2 * Size + 1 \in 1 .. CallsMade(0)
      BY <1>1, <1>2
  <2>2. calls[0][Base(0) + (2 * Size + 1)].from = Planned(InLoop(0), few, 2 * Size + 1)
      BY <2>1 DEF CallInv, CallsFollowPlan
  <2>3. m \in 1 .. m /\ DOMAIN calls[0] = 1 .. m
      BY <1>1, <1>3, CallsType
  <2> QED
    BY <1>3, <2>2, <2>3
<1>5. calls[0][m].from = <<"statistic", 0>>
    BY <1>1, <1>2, <1>4 DEF Planned
<1>6. ASSUME NEW q \in Ranks
      PROVE  Enumerates(calls[q][m].data, PairsWith(q, Lower(q)))
  <2>1. m <= Len(calls[q]) /\ Len(calls[q]) \in Nat /\ DOMAIN calls[q] = 1 .. Len(calls[q])
      BY <1>1, CallsType DEF EverybodyCame
  <2>2. m \in DOMAIN calls[q]
      BY <1>1, <1>3, <2>1
  <2>3. calls[q][m].from = calls[0][m].from
      BY <1>4, <2>2 DEF CallInv, PlacesMatch
  <2>4. pc[q] \in StatisticPlaces /\ calls[q][m].data = distances[q]
      BY <1>5, <2>2, <2>3 DEF HandedInv
  <2>5. Met(q) = Lower(q) /\ pc[q] \in CountingPlaces
      BY <2>4 DEF Met, StatisticPlaces, CountingPlaces
  <2> QED
    BY <2>4, <2>5 DEF FoundInv
<1>7. /\ Len(Reduced(0)) = Size
      /\ \A k \in 1 .. Size : k - 1 \in Ranks /\ Reduced(0)[k] = calls[k - 1][m].data
    BY <1>1 DEF Reduced, Ranks
<1> HIDE DEF m, few
<1>8. \A k \in 1 .. Size : Enumerates(Reduced(0)[k], S[k])
    BY <1>6, <1>7
<1>9. ASSUME NEW j \in 1 .. Size, NEW k \in 1 .. Size, j < k
      PROVE  S[j] \cap S[k] = {}
  <2> SUFFICES ASSUME NEW x \in PairsWith(j - 1, Lower(j - 1)),
                      x \in PairsWith(k - 1, Lower(k - 1))
               PROVE  FALSE
      OBVIOUS
  <2>1. PICK b \in x : b[1] = k - 1
      BY RanksOfPairs
  <2>2. b[1] = j - 1 \/ b[1] \in Lower(j - 1)
      BY RanksOfPairs
  <2> QED
    BY <1>9, <2>1, <2>2 DEF Lower
<1>10. AllOf(Size, S) = AllPairs
  <2>1. \A k \in 1 .. Size : S[k] = PairsWith(k - 1, Lower(k - 1))
      OBVIOUS
  <2> HIDE DEF S
  <2>2. \A k \in 1 .. Size : k - 1 \in Ranks
      BY <1>7
  <2>3. \A r \in Ranks : r + 1 \in 1 .. Size /\ (r + 1) - 1 = r
      BY <1>1 DEF Ranks
  <2>4. AllOf(Size, S) \subseteq AllPairs
      BY <2>1, <2>2 DEF AllOf, AllPairs
  <2>5. ASSUME NEW x \in AllPairs
        PROVE  x \in AllOf(Size, S)
    <3>1. PICK r \in Ranks : x \in PairsWith(r, Lower(r))
        BY <2>5 DEF AllPairs
    <3>2. x \in S[r + 1]
        BY <2>1, <2>3, <3>1
    <3> QED
      BY <2>3, <3>2 DEF AllOf
  <2> QED
    BY <2>4, <2>5
<1> HIDE DEF S
<1>11. Enumerates(FlattenSeq(Reduced(0)), AllOf(Size, S))
  <2> DEFINE seqs == Reduced(0)
  <2>1. Len(seqs) = Size /\ \A k \in 1 .. Size : Enumerates(seqs[k], S[k])
      BY <1>7, <1>8
  <2> HIDE DEF seqs
  <2>2. Enumerates(FlattenSeq(seqs), AllOf(Size, S))
      BY <1>1, <1>9, <2>1, FlattenEnumerates
  <2> QED
    BY <2>2 DEF seqs
<1> QED
    BY <1>10, <1>11

(* What a call leaves of the calls made, and what it adds to them.         *)
LEMMA CallMade ==
    ASSUME CallsAreSequences, NEW r \in Ranks, NEW name, NEW root, NEW data,
           Call(r, name, root, data)
    PROVE  /\ Len(calls[r]) + 1 \in DOMAIN calls'[r]
           /\ calls'[r][Len(calls[r]) + 1].from = <<pc[r], turn[r]>>
           /\ \A q \in Ranks : \A k \in DOMAIN calls'[q] :
                 \/ q = r /\ k = Len(calls[r]) + 1
                 \/ k \in DOMAIN calls[q] /\ calls'[q][k] = calls[q][k]
           /\ \A q \in Ranks \ {r} : calls'[q] = calls[q]
<1> DEFINE call == [call |-> name, root |-> root, data |-> data, from |-> <<pc[r], turn[r]>>]
           m == Len(calls[r]) + 1
<1>1. calls' = [calls EXCEPT ![r] = Append(@, call)]
    BY DEF Call
<1>2. call.from = <<pc[r], turn[r]>>
    OBVIOUS
<1> HIDE DEF call
<1>3. /\ DOMAIN calls[r] = 1 .. Len(calls[r]) /\ Len(calls[r]) \in Nat
      /\ DOMAIN calls'[r] = 1 .. m /\ calls'[r][m] = call
      /\ \A k \in 1 .. Len(calls[r]) : calls'[r][k] = calls[r][k]
      /\ \A q \in Ranks \ {r} : calls'[q] = calls[q]
    BY <1>1, CallsType, CallAppended
<1>4. ASSUME NEW q \in Ranks, NEW k \in DOMAIN calls'[q]
      PROVE  (q = r /\ k = m) \/ (k \in DOMAIN calls[q] /\ calls'[q][k] = calls[q][k])
    BY <1>3
<1>5. m \in 1 .. m
    BY <1>3
<1> QED
    BY <1>2, <1>3, <1>4, <1>5

(* Nobody has found anything when the job starts.                          *)
LEMMA PairInvInitial == Init => PairInv
<1> SUFFICES ASSUME Init PROVE PairInv
    OBVIOUS
<1>1. /\ \A r \in Ranks : pc[r] = "start" /\ calls[r] = << >>
      /\ DOMAIN distances = Ranks /\ report = << >>
    BY DEF Init
<1>2. \A r \in Ranks : DOMAIN calls[r] = {}
    BY <1>1
<1> QED
    BY <1>1, <1>2 DEF PairInv, FoundInv, HandedInv, CountingPlaces

(* While a process is not yet at the save there is nothing to say.         *)
LEMMA EarlyPairs ==
    ASSUME CallInv, ReportInv, BarrierInv, PairInv, NEW r \in Ranks, Process(r),
           pc[r] \notin Reporting \cup {"save", "barrier"}
    PROVE  PairInv'
<1>1. /\ SaveCalls(r) = 0 /\ UNCHANGED <<distances, report>>
      /\ pc'[r] \notin Reporting /\ \A q \in Ranks \ {r} : pc'[q] = pc[q]
      /\ UNCHANGED calls \/ \E name, root, data : Call(r, name, root, data)
    BY EarlyStep
<1>2. (\A q \in Ranks : pc[q] \notin Reporting) /\ report = << >>
    BY <1>1, NobodyReports
<1>3. \A q \in Ranks : pc'[q] \notin CountingPlaces /\ pc[q] \notin CountingPlaces
    BY <1>1, <1>2 DEF Reporting, CountingPlaces
<1>4. CallsAreSequences
    BY DEF CallInv, StartInv
<1>5. ASSUME NEW q \in Ranks, NEW k \in DOMAIN calls'[q]
      PROVE  (k \in DOMAIN calls[q] /\ calls'[q][k] = calls[q][k])
                \/ calls'[q][k].from = <<pc[r], turn[r]>>
  <2>1. CASE UNCHANGED calls
      BY <2>1
  <2>2. CASE \E name, root, data : Call(r, name, root, data)
      BY <1>4, <2>2, CallMade
  <2> QED
    BY <1>1, <2>1, <2>2
<1>6. pc[r] \notin {"distanceTurn", "statistic"}
    BY DEF Reporting
<1>7. ASSUME NEW q \in Ranks, NEW k \in DOMAIN calls'[q]
      PROVE  calls'[q][k].from # <<"distanceTurn", q>> /\ calls'[q][k].from # <<"statistic", 0>>
  <2>1. CASE k \in DOMAIN calls[q] /\ calls'[q][k] = calls[q][k]
    <3>1. StatisticPlaces \subseteq CountingPlaces
        BY DEF StatisticPlaces, CountingPlaces
    <3> QED
      BY <1>3, <2>1, <3>1 DEF PairInv, HandedInv
  <2>2. CASE calls'[q][k].from = <<pc[r], turn[r]>>
      BY <1>6, <2>2
  <2> QED
    BY <1>5, <2>1, <2>2
<1>8. FoundInv'
    BY <1>1, <1>3 DEF PairInv, FoundInv
<1>9. HandedInv'
    BY <1>7 DEF HandedInv
<1> QED
    BY <1>1, <1>2, <1>8, <1>9 DEF PairInv

(* A step that leaves the distances and the report alone.                  *)
LEMMA QuietPairs ==
    ASSUME PairInv, UNCHANGED <<universe, report>>, HandedInv', FoundInv'
    PROVE  PairInv'
<1>1. AllPairs' = AllPairs
    BY PairsKept
<1> QED
    BY <1>1 DEF PairInv

(* The save of the final states does not touch the distances.              *)
LEMMA SavePairs ==
    ASSUME CallInv, PairInv, NEW r \in Ranks, SaveTurn(r) \/ LeaveBarrier(r)
    PROVE  PairInv'
<1>1. CallsAreSequences /\ DOMAIN pc = Ranks /\ DOMAIN turn = Ranks
    BY DEF CallInv, StartInv, TurnInv
<1>2. /\ UNCHANGED <<universe, distances, report>> /\ pc[r] \in {"save", "barrier"}
      /\ pc'[r] \in {"save", "barrier", "distances"}
      /\ \A q \in Ranks \ {r} : pc'[q] = pc[q] /\ turn'[q] = turn[q]
      /\ UNCHANGED calls \/ \E name, root, data : Call(r, name, root, data)
    BY <1>1 DEF SaveTurn, LeaveBarrier, GoTo
<1>3. /\ pc[r] \notin CountingPlaces /\ pc'[r] \notin CountingPlaces
      /\ pc[r] \notin StatisticPlaces /\ pc[r] \notin {"distanceTurn", "statistic"}
    BY <1>2 DEF CountingPlaces, StatisticPlaces
<1>4. HandedInv'
    BY <1>1, <1>2, <1>3, HandedStep DEF PairInv
<1>5. FoundInv'
    BY <1>2, <1>3, FoundStep DEF PairInv, FoundInv
<1> QED
    BY <1>2, <1>4, <1>5, QuietPairs

(* A process begins with the pairs among its own bodies.                   *)
LEMMA OwnStep ==
    ASSUME CallInv, BodiesInv, PairInv, NEW r \in Ranks, OwnDistances(r)
    PROVE  PairInv'
<1>1. /\ CallsAreSequences /\ DOMAIN pc = Ranks /\ DOMAIN distances = Ranks
      /\ turn[r] = 0 /\ StartInv
    BY DEF CallInv, StartInv, TurnInv, TurnsOf, OwnDistances, PairInv, FoundInv
<1>2. /\ UNCHANGED <<universe, turn, calls, report>> /\ pc[r] = "distances"
      /\ pc'[r] \in {"undefined", "distanceTurn"}
      /\ distances' = [distances EXCEPT ![r] = OwnPairs(r)]
      /\ \A q \in Ranks \ {r} : pc'[q] = pc[q]
    BY <1>1 DEF OwnDistances, GoTo
<1>3. /\ distances'[r] = OwnPairs(r) /\ DOMAIN distances' = Ranks
      /\ \A q \in Ranks \ {r} : distances'[q] = distances[q]
    BY <1>1, <1>2
<1>4. Enumerates(OwnPairs(r), Inner(r, Actives(r)))
    BY <1>1, ActivesInBlock, OwnPairsEnumerate
<1>5. ASSUME pc'[r] \in CountingPlaces
      PROVE  Enumerates(distances'[r], PairsWith(r, Met(r)'))
  <2>1. pc'[r] = "distanceTurn" /\ turn'[r] = 0
      BY <1>1, <1>2, <1>5 DEF CountingPlaces
  <2>2. Met(r)' = {}
    <3>1. \A q \in Ranks : ~(q < 0)
        BY DEF Ranks
    <3> QED
      BY <2>1, <3>1 DEF Met, Lower
  <2>3. PairsWith(r, {}) = Inner(r, Actives(r))
      BY DEF PairsWith
  <2> QED
    BY <1>3, <1>4, <2>2, <2>3
<1>6. pc[r] \notin CountingPlaces /\ pc[r] \notin StatisticPlaces
    BY <1>2 DEF CountingPlaces, StatisticPlaces
<1>7. HandedInv'
    BY <1>1, <1>2, <1>3, <1>6, HandedStep DEF PairInv
<1>8. ASSUME pc'[r] \in CountingPlaces
      PROVE  Enumerates(distances'[r], PairsWith(r, Met(r)'))
    BY <1>5, <1>8
<1>9. FoundInv'
    BY <1>2, <1>3, <1>5, FoundStep DEF PairInv
<1> QED
    BY <1>2, <1>7, <1>9, QuietPairs

(* After a turn a process has also met the one whose turn it was.          *)
LEMMA MetAfterTurn ==
    ASSUME CallInv, NEW r \in Ranks, pc[r] = "distanceTurn", NextTurn(r, "statistic")
    PROVE  /\ turn[r] \in Ranks /\ turn[r] \notin Met(r)
           /\ Met(r)' = IF turn[r] < r THEN Met(r) \cup {turn[r]} ELSE Met(r)
<1>1. turn[r] \in Ranks /\ StartInv /\ TurnInv /\ DOMAIN pc = Ranks /\ DOMAIN turn = Ranks
    BY DEF CallInv, TurnInv, TurnsOf, StartInv
<1>2. Size \in Nat \ {0} /\ Ranks \subseteq Int /\ \A q \in Ranks : q <= Size - 1
    BY NBodyAssumption DEF Ranks
<1>3. \/ pc'[r] = "distanceTurn" /\ turn'[r] = turn[r] + 1
      \/ pc'[r] = "statistic" /\ turn[r] = Size - 1
    BY <1>1, <1>2 DEF NextTurn, Ranks
<1>4. Met(r) = {q \in Ranks : q < r /\ q < turn[r]}
    BY DEF Met, Lower
<1>5. CASE pc'[r] = "distanceTurn" /\ turn'[r] = turn[r] + 1
  <2>1. Met(r)' = {q \in Ranks : q < r /\ q < turn[r] + 1}
      BY <1>5 DEF Met, Lower
  <2>2. turn[r] \in Int /\ r \in Int
      BY <1>1, <1>2
  <2>3. \A q \in Ranks : q < turn[r] + 1 <=> (q < turn[r] \/ q = turn[r])
      BY <1>2, <2>2
  <2>4. turn[r] \notin Met(r)
      BY <1>4, <2>2
  <2>5. CASE turn[r] < r
      BY <1>1, <1>4, <2>1, <2>3, <2>4, <2>5
  <2>6. CASE ~(turn[r] < r)
    <3>1. \A q \in Ranks : (q < r /\ q < turn[r] + 1) <=> (q < r /\ q < turn[r])
        BY <2>3, <2>6
    <3>2. Met(r)' = Met(r)
        BY <1>4, <2>1, <3>1
    <3> QED
      BY <1>1, <2>4, <2>6, <3>2
  <2> QED
    BY <2>5, <2>6
<1>6. CASE pc'[r] = "statistic" /\ turn[r] = Size - 1
  <2>1. Met(r)' = {q \in Ranks : q < r}
      BY <1>6 DEF Met, Lower
  <2>2. \A q \in Ranks : q < r => q < turn[r]
      BY <1>2, <1>6
  <2>3. ~(turn[r] < r)
      BY <1>2, <1>6
  <2> QED
    BY <1>1, <1>2, <1>4, <2>1, <2>2, <2>3
<1> QED
    BY <1>3, <1>5, <1>6

(* What a process receives in the turn of another one are the positions of *)
(* the other's bodies, as they still are.                                  *)
LEMMA ReceivedPositions ==
    ASSUME CallInv, CallInv', HandedInv, NEW r \in Ranks, NEW t \in Ranks, t # r,
           pc[r] = "distanceTurn", turn[r] = t, CanReceive(r, t),
           NEW name, NEW root, NEW data, Call(r, name, root, data)
    PROVE  Received(r, t) = PositionDataOf(t)
<1> DEFINE m == Len(calls[r]) + 1
<1>1. CallsAreSequences
    BY DEF CallInv, StartInv
<1>2. m \in DOMAIN calls'[r] /\ calls'[r][m].from = <<"distanceTurn", t>> /\ calls'[t] = calls[t]
    BY <1>1, CallMade
<1>3. m \in DOMAIN calls[t]
  <2>1. /\ Len(calls[t]) > Len(calls[r]) /\ Len(calls[r]) \in Nat /\ Len(calls[t]) \in Nat
        /\ DOMAIN calls[t] = 1 .. Len(calls[t])
      BY <1>1, CallsType DEF CanReceive
  <2> QED
    BY <2>1
<1> HIDE DEF m
<1>4. calls'[r][m].from = calls'[t][m].from
    BY <1>2, <1>3 DEF CallInv, PlacesMatch
<1>5. calls[t][m].data = PositionDataOf(t)
    BY <1>2, <1>3, <1>4 DEF HandedInv
<1> QED
    BY <1>5 DEF Received, m

(* A turn adds the pairs with the bodies of a process of lower rank.       *)
LEMMA DistanceStep ==
    ASSUME CallInv, CallInv', BodiesInv, PairInv, NEW r \in Ranks, DistanceTurn(r)
    PROVE  PairInv'
<1> DEFINE t == turn[r]
<1>1. /\ CallsAreSequences /\ StartInv /\ TurnInv /\ DOMAIN distances = Ranks
      /\ Enumerates(distances[r], PairsWith(r, Met(r)))
    BY DEF CallInv, StartInv, PairInv, FoundInv, DistanceTurn, CountingPlaces
<1>2. /\ pc[r] = "distanceTurn" /\ UNCHANGED <<universe, report>> /\ NextTurn(r, "statistic")
      /\ \/ t = r /\ Call(r, "broadcast", r, PositionDataOf(r)) /\ UNCHANGED distances
         \/ /\ t # r /\ CanReceive(r, t) /\ Call(r, "broadcast", t, << >>)
            /\ distances' = IF r > t
                            THEN [distances EXCEPT ![r] = @ \o RemotePairs(r, Received(r, t))]
                            ELSE distances
    BY DEF DistanceTurn, CountsDistances
<1>3. /\ t \in Ranks /\ t \notin Met(r)
      /\ Met(r)' = IF t < r THEN Met(r) \cup {t} ELSE Met(r)
    BY <1>2, MetAfterTurn
<1>4. /\ pc'[r] \in {"distanceTurn", "statistic"}
      /\ \A q \in Ranks \ {r} : pc'[q] = pc[q] /\ turn'[q] = turn[q]
    BY <1>1, <1>2, PlaceNext
<1>5. Ranks \subseteq Int
    BY NBodyAssumption DEF Ranks
<1>6. \A q \in Ranks \ {r} : distances'[q] = distances[q]
    BY <1>1, <1>2
<1>7. DOMAIN distances' = Ranks
    BY <1>1, <1>2
<1>8. pc[r] \in CountingPlaces /\ pc'[r] \in CountingPlaces /\ pc[r] \notin StatisticPlaces
    BY <1>2, <1>4 DEF CountingPlaces, StatisticPlaces
<1>9. Enumerates(distances'[r], PairsWith(r, Met(r)'))
  <2>1. CASE t < r
    <3>1. t # r /\ r > t
        BY <1>3, <1>5, <2>1
    <3>2. /\ distances'[r] = distances[r] \o RemotePairs(r, Received(r, t))
          /\ CanReceive(r, t) /\ Call(r, "broadcast", t, << >>)
        BY <1>1, <1>2, <3>1
    <3>3. Received(r, t) = PositionDataOf(t)
        BY <1>2, <1>3, <3>1, <3>2, ReceivedPositions DEF PairInv
    <3> HIDE DEF t
    <3>4. Enumerates(distances[r] \o RemotePairs(r, PositionDataOf(t)),
                     PairsWith(r, Met(r) \cup {t}))
        BY <1>1, <1>3, <3>1, FoundMore
    <3> QED
      BY <1>3, <2>1, <3>2, <3>3, <3>4
  <2>2. CASE ~(t < r)
    <3>1. UNCHANGED distances
        BY <1>2, <1>3, <1>5, <2>2
    <3> QED
      BY <1>1, <1>3, <2>2, <3>1
  <2> QED
    BY <2>1, <2>2
<1>10. FoundInv'
    BY <1>2, <1>4, <1>6, <1>7, <1>9, FoundStep DEF PairInv
<1>11. \E name, root, data :
          /\ Call(r, name, root, data)
          /\ (pc[r] = "distanceTurn" /\ turn[r] = r) => data = PositionDataOf(r)
          /\ (pc[r] = "statistic" /\ turn[r] = 0) => data = distances[r]
  <2>1. CASE t = r
      BY <1>2, <2>1
  <2>2. CASE t # r
      BY <1>2, <2>2
  <2> QED
    BY <2>1, <2>2
<1>12. HandedInv'
    BY <1>1, <1>2, <1>4, <1>6, <1>8, <1>11, HandedStep DEF PairInv
<1> QED
    BY <1>2, <1>10, <1>12, QuietPairs

(* The statistics: the distances stay as they are until the end.           *)
LEMMA StatisticFound ==
    ASSUME CallInv, PairInv, NEW r \in Ranks, pc[r] \in StatisticPlaces,
           pc'[r] \in StatisticPlaces, UNCHANGED <<universe, distances>>,
           \A q \in Ranks \ {r} : pc'[q] = pc[q] /\ turn'[q] = turn[q]
    PROVE  FoundInv'
<1>1. Met(r) = Lower(r) /\ Met(r)' = Lower(r) /\ pc[r] \in CountingPlaces
    BY DEF Met, Lower, StatisticPlaces, CountingPlaces
<1>2. Enumerates(distances'[r], PairsWith(r, Met(r)'))
    BY <1>1 DEF PairInv, FoundInv
<1> QED
    BY <1>2, FoundStep DEF PairInv, FoundInv

(* To the first statistic a process hands over its distances.              *)
LEMMA EnterStep ==
    ASSUME CallInv, PairInv, NEW r \in Ranks, EnterStatistic(r)
    PROVE  PairInv'
<1>1. CallsAreSequences /\ DOMAIN pc = Ranks
    BY DEF CallInv, StartInv
<1>2. /\ UNCHANGED <<universe, turn, distances, report>> /\ pc[r] = "statistic"
      /\ pc'[r] = "reducing" /\ \A q \in Ranks \ {r} : pc'[q] = pc[q]
      /\ Call(r, "allReduce", NoRoot, Summed(r, turn[r]))
    BY <1>1 DEF EnterStatistic, GoTo
<1>3. turn[r] = 0 => Summed(r, turn[r]) = distances[r]
    BY DEF Summed
<1>4. /\ pc'[r] \in CountingPlaces /\ pc[r] \in StatisticPlaces /\ pc'[r] \in StatisticPlaces
      /\ pc[r] # "distanceTurn"
    BY <1>2 DEF CountingPlaces, StatisticPlaces
<1>5. \E name, root, data :
          /\ Call(r, name, root, data)
          /\ (pc[r] = "distanceTurn" /\ turn[r] = r) => data = PositionDataOf(r)
          /\ (pc[r] = "statistic" /\ turn[r] = 0) => data = distances[r]
    BY <1>2, <1>3
<1>6. HandedInv'
    BY <1>1, <1>2, <1>4, <1>5, HandedStep DEF PairInv
<1>7. FoundInv'
    BY <1>2, <1>4, StatisticFound
<1> QED
    BY <1>2, <1>6, <1>7, QuietPairs

(* The first statistic is of all the pairs, and later ones leave it.       *)
LEMMA LeaveStep ==
    ASSUME CallInv, BodiesInv, ReportInv, PairInv, NEW r \in Ranks,
           LeaveOutStatistic(r) \/ LeaveStatistic(r)
    PROVE  PairInv'
<1>1. CallsAreSequences /\ DOMAIN pc = Ranks /\ DOMAIN turn = Ranks /\ StartInv
    BY DEF CallInv, StartInv, TurnInv
<1>2. /\ pc[r] \in {"statistic", "reducing"} /\ NextStatistic(r)
      /\ UNCHANGED <<universe, distances, calls>>
      /\ \E more : report' = IF r = 0 THEN Append(report, more) ELSE report
    BY DEF LeaveOutStatistic, LeaveStatistic
<1>3. /\ turn[r] \in 0 .. 3 /\ pc'[r] \in {"statistic", "done"}
      /\ \A q \in Ranks \ {r} : pc'[q] = pc[q] /\ turn'[q] = turn[q]
  <2>1. PICK place \in {"statistic", "done"} :
           /\ pc' = [pc EXCEPT ![r] = place] /\ turn' = [turn EXCEPT ![r] = turn[r] + 1]
           /\ turn[r] \in 0 .. 3
      BY <1>2, StatisticLeft
  <2> QED
    BY <1>1, <2>1
<1>4. /\ pc[r] \in StatisticPlaces /\ pc'[r] \in StatisticPlaces /\ pc'[r] \in CountingPlaces
    BY <1>2, <1>3 DEF CountingPlaces, StatisticPlaces
<1>5. HandedInv'
    BY <1>1, <1>2, <1>3, <1>4, HandedStep DEF PairInv
<1>6. FoundInv'
    BY <1>2, <1>3, <1>4, StatisticFound
<1>7. report' # << >> => Enumerates(report'[1], AllPairs)
  <2>1. CASE r # 0
      BY <1>2, <2>1 DEF PairInv
  <2>2. CASE r = 0 /\ turn[r] # 0
    <3>1. report \in Seq(Range(report)) /\ Len(report) = turn[0]
        BY <1>4, <2>2 DEF ReportInv
    <3>2. report # << >>
        BY <1>3, <2>2, <3>1
    <3>3. PICK more : report' = Append(report, more)
        BY <1>2, <2>2
    <3>4. report'[1] = report[1]
        BY <1>3, <2>2, <3>1, <3>3
    <3> QED
      BY <3>2, <3>4 DEF PairInv
  <2>3. CASE r = 0 /\ turn[r] = 0
    <3>1. ~LeaveOutStatistic(r)
        BY <2>3 DEF LeaveOutStatistic, LeavesOut
    <3>2. /\ pc[0] = "reducing" /\ EverybodyCame(0)
          /\ report' = Append(report, FlattenSeq(Reduced(0)))
        BY <2>3, <3>1 DEF LeaveStatistic
    <3>3. report \in Seq(Range(report)) /\ Len(report) = 0
        BY <1>4, <2>3 DEF ReportInv
    <3>4. report'[1] = FlattenSeq(Reduced(0))
      <4> DEFINE first == FlattenSeq(Reduced(0))
      <4>1. report = << >> /\ report' = Append(report, first)
          BY <3>2, <3>3
      <4> HIDE DEF first
      <4>2. report'[1] = first
          BY <4>1
      <4> QED
        BY <4>2 DEF first
    <3> QED
      BY <2>3, <3>2, <3>4, FirstReduced DEF PairInv
  <2> QED
    BY <2>1, <2>2, <2>3
<1>8. AllPairs' = AllPairs
    BY <1>2, PairsKept
<1> QED
    BY <1>5, <1>6, <1>7, <1>8 DEF PairInv

(* Every step keeps what is known of the pairs.                            *)
LEMMA PairInvStep ==
    NBodyInv /\ NBodyInv' /\ SaveInv /\ PairInv /\ [Next]_vars => PairInv'
<1> SUFFICES ASSUME NBodyInv, NBodyInv', SaveInv, PairInv, [Next]_vars PROVE PairInv'
    OBVIOUS
<1>1. CallInv /\ CallInv' /\ BodiesInv /\ ReportInv /\ BarrierInv
    BY DEF NBodyInv, SaveInv
<1>2. CASE UNCHANGED vars
  <2>1. UNCHANGED <<pc, turn, universe, calls, distances, report>>
      BY <1>2 DEF vars
  <2>2. /\ \A q : PositionDataOf(q)' = PositionDataOf(q) /\ Met(q)' = Met(q)
        /\ \A q, ranks : PairsWith(q, ranks)' = PairsWith(q, ranks)
        /\ AllPairs' = AllPairs
      BY <2>1, PairsKept DEF Met, Lower
  <2>3. \A q : PairsWith(q, Met(q))' = PairsWith(q, Met(q))
    <3>1. ASSUME NEW q PROVE PairsWith(q, Met(q))' = PairsWith(q, Met(q)')
        BY <2>1 DEF PairsWith, Across, Actives, Indexes
    <3> QED
      BY <2>2, <3>1
  <2>4. FoundInv'
      BY <2>1, <2>3 DEF PairInv, FoundInv
  <2>5. HandedInv'
      BY <2>1, <2>2 DEF PairInv, HandedInv
  <2> QED
    BY <2>1, <2>4, <2>5, QuietPairs
<1>3. CASE Next
  <2>1. PICK r \in Ranks : Process(r)
      BY <1>3 DEF Next
  <2>2. CASE pc[r] \notin Reporting \cup {"save", "barrier"}
      BY <1>1, <2>1, <2>2, EarlyPairs
  <2>3. CASE pc[r] \in Reporting \cup {"save", "barrier"}
    <3>1. \/ SaveTurn(r) \/ LeaveBarrier(r) \/ OwnDistances(r) \/ DistanceTurn(r)
          \/ LeaveOutStatistic(r) \/ EnterStatistic(r) \/ LeaveStatistic(r)
        BY <2>1, <2>3 DEF Process, Reporting, Start, StartFails, LocalCollisions,
           CollisionTurn, LocalAccelerations, AccelerationTurn, Move, CountBodies
    <3> QED
      BY <1>1, <3>1, SavePairs, OwnStep, DistanceStep, EnterStep, LeaveStep
  <2> QED
    BY <2>2, <2>3
<1> QED
    BY <1>2, <1>3

(* Who counts distances has found those of the bodies it has met, what is  *)
(* handed over in aggregateDistances() and to the first statistic is as it *)
(* was then, and the first statistic is of all the pairs.                  *)
THEOREM PairInvariant == Spec => []PairInv
<1> QED
    BY NBodyInvariant, SaveInvariant, PairInvInitial, PairInvStep, PTL DEF Spec

(* The distances of the report are those of each pair of active bodies,    *)
(* once, in whatever processes they are: aggregateOwnDistances() has each  *)
(* pair within a process, aggregateDistances() has each other pair in the  *)
(* process of the higher rank.                                             *)
THEOREM PairsOnce == Spec => []EachPairOnce
<1>1. NBodyInv /\ PairInv => EachPairOnce
  <2> SUFFICES ASSUME NBodyInv, PairInv, report # << >>
               PROVE  /\ Range(report[1])
                            = {{a, b} : a, b \in ActiveBodies} \ {{a} : a \in ActiveBodies}
                      /\ Len(report[1]) = Cardinality(
                            {{a, b} : a, b \in ActiveBodies} \ {{a} : a \in ActiveBodies})
      BY DEF EachPairOnce
  <2>1. StartInv /\ BodiesInv
      BY DEF NBodyInv, CallInv
  <2>2. Enumerates(report[1], AllPairs)
      BY DEF PairInv
  <2> DEFINE pairs == {{a, b} : a, b \in ActiveBodies} \ {{a} : a \in ActiveBodies}
  <2>3. AllPairs = pairs
      BY <2>1, AllPairsAre
  <2> HIDE DEF pairs
  <2>4. Range(report[1]) = pairs /\ Len(report[1]) = Cardinality(pairs)
      BY <2>2, <2>3, EnumeratesCounts
  <2> QED
    BY <2>4 DEF pairs
<1> QED
    BY <1>1, NBodyInvariant, PairInvariant, PTL

(* The numbers of a body.                                                  *)
Terms == [from : Ranks \X Nat, pull : Int]
BodyRecords == [mass : Int, radius : Nat \ {0}, position : Int, velocity : Int,
                acceleration : Seq(Terms)]

(* A cube of a natural number is one.                                    *)
LEMMA CubeType == \A x \in Nat : Cube(x) \in Nat
<1> SUFFICES ASSUME NEW x \in Nat PROVE x * x * x \in Nat
    BY DEF Cube
<1>1. x * x \in Nat
    OBVIOUS
<1> QED
    BY <1>1

(* A set of numbers up to some other one has a greatest.                   *)
LEMMA GreatestExists ==
    ASSUME NEW n \in Nat, NEW S, S \subseteq 0 .. n, NEW x \in S
    PROVE  Max(S) \in S /\ \A y \in S : Max(S) >= y
<1> DEFINE Gaps == {k \in Nat : n - k \in S}
<1>1. PICK k \in Gaps : \A j \in Gaps : ~(j < k)
  <2>1. n - x \in Gaps
      OBVIOUS
  <2>2. Gaps # {} /\ Gaps \subseteq Nat
      BY <2>1
  <2> HIDE DEF Gaps
  <2> QED
    BY <2>2, NoLeast
<1>2. ASSUME NEW y \in S
      PROVE  n - k >= y
  <2>1. n - y \in Gaps
      OBVIOUS
  <2>2. ~(n - y < k)
      BY <1>1, <2>1
  <2> QED
      BY <2>2
<1> QED
    BY <1>2 DEF Max

(* A merged body is as large as each of the two, and not larger than both. *)
LEMMA RadiusesAdded ==
    ASSUME NEW a \in Nat \ {0}, NEW b \in Nat \ {0}
    PROVE  /\ AddRadiuses(a, b) \in Nat \ {0}
           /\ a <= AddRadiuses(a, b) /\ AddRadiuses(a, b) <= a + b
<1> DEFINE S == {r \in 0 .. a + b : Cube(r) <= Cube(a) + Cube(b)}
<1>1. Cube(a) \in Nat /\ Cube(b) \in Nat
    BY CubeType
<1>2. a \in S /\ S \subseteq 0 .. a + b /\ a + b \in Nat
    BY <1>1
<1>3. AddRadiuses(a, b) = Max(S)
    BY DEF AddRadiuses
<1> HIDE DEF S
<1>4. Max(S) \in S /\ Max(S) >= a
  <2> DEFINE n == a + b
  <2>1. n \in Nat /\ S \subseteq 0 .. n /\ a \in S
      BY <1>2
  <2> HIDE DEF n
  <2> QED
    BY <2>1, GreatestExists
<1>5. Max(S) \in 0 .. a + b
    BY <1>2, <1>4
<1> QED
    BY <1>3, <1>4, <1>5

(* The velocity of merged bodies is a number.                            *)
LEMMA MergedVelocityType ==
    ASSUME NEW m \in Int, NEW v \in Int, NEW om \in Int, NEW ov \in Int
    PROVE  MergeVelocities(m, v, om, ov) \in Int
<1> DEFINE s == v * om + ov * om
           t == m + om
<1>1. s \in Int /\ t \in Int
    OBVIOUS
<1>2. MergeVelocities(m, v, om, ov)
        = IF t = 0 THEN 0 ELSE IF t > 0 THEN s \div t ELSE (-s) \div (-t)
    BY DEF MergeVelocities
<1> HIDE DEF s, t
<1>3. t > 0 => s \div t \in Int
    BY <1>1
<1>4. t < 0 => (-s) \div (-t) \in Int
    BY <1>1
<1> QED
    BY <1>1, <1>2, <1>3, <1>4

(* What absorbing does to a body.                                          *)
LEMMA AbsorbType ==
    ASSUME NEW a \in BodyRecords, NEW b,
           b.mass \in Int, b.radius \in Nat \ {0}, b.velocity \in Int
    PROVE  /\ Absorb(a, b) \in BodyRecords
           /\ Absorb(a, b).mass = a.mass + b.mass
           /\ Absorb(a, b).position = a.position
           /\ Absorb(a, b).acceleration = a.acceleration
           /\ a.radius <= Absorb(a, b).radius /\ Absorb(a, b).radius <= a.radius + b.radius
<1> DEFINE v == MergeVelocities(a.mass + b.mass, a.velocity, b.mass, b.velocity)
           r == AddRadiuses(a.radius, b.radius)
<1>1. /\ a.mass \in Int /\ a.velocity \in Int /\ b.mass \in Int /\ b.velocity \in Int
      /\ a.radius \in Nat \ {0} /\ b.radius \in Nat \ {0} /\ a.mass + b.mass \in Int
    BY DEF BodyRecords
<1>2. v \in Int
    BY <1>1, MergedVelocityType
<1>3. r \in Nat \ {0} /\ a.radius <= r /\ r <= a.radius + b.radius
    BY <1>1, RadiusesAdded
<1>4. Absorb(a, b) = [a EXCEPT !.mass = a.mass + b.mass, !.radius = r, !.velocity = v]
    BY DEF Absorb
<1> HIDE DEF v, r
<1> QED
    BY <1>1, <1>2, <1>3, <1>4 DEF BodyRecords

(* A body that is given up keeps its place, with its mass negated.       *)
LEMMA DeactivateType ==
    ASSUME NEW a \in BodyRecords
    PROVE  /\ Deactivate(a) \in BodyRecords /\ Deactivate(a).mass = -a.mass
           /\ Deactivate(a).position = a.position /\ Deactivate(a).radius = a.radius
    BY DEF Deactivate, BodyRecords

(* Bodies collide with each other, and a body with itself.               *)
LEMMA CollisionSymmetric ==
    ASSUME NEW a \in BodyRecords, NEW b \in BodyRecords
    PROVE  /\ CheckCollision(a, b) <=> CheckCollision(b, a)
           /\ Distance(a.position, b.position) = Distance(b.position, a.position)
           /\ Distance(a.position, b.position) \in Nat
           /\ CheckCollision(a, a)
    BY DEF CheckCollision, Distance, BodyRecords

---------------------------------------------------------------------------
(* Bodies that collide two at a time *)

Alive(b) == {k \in DOMAIN b : IsActive(b[k])}

Uncrowded(b) == ~Crowd([k \in Alive(b) |-> b[k]])

(* What has become of bodies b when body i has absorbed body j.            *)
HasAbsorbed(b, w, i, j) ==
    /\ i \in Alive(b) /\ j \in Alive(b) /\ i # j /\ CheckCollision(b[i], b[j])
    /\ i \in Alive(w) /\ j \notin Alive(w)
    /\ w[i].position = b[i].position /\ w[j].position = b[j].position
    /\ b[i].radius <= w[i].radius /\ w[i].radius <= b[i].radius + b[j].radius
    /\ w[j].radius = b[j].radius

(* Every body is as it was, or has absorbed another one, or is absorbed.   *)
Merged(D, b, w) ==
    /\ b \in [D -> BodyRecords] /\ w \in [D -> BodyRecords] /\ Uncrowded(b)
    /\ \A k \in D : \/ w[k] = b[k]
                    \/ \E j \in D : HasAbsorbed(b, w, k, j) \/ HasAbsorbed(b, w, j, k)

(* Neither of two bodies has absorbed one or is absorbed.                  *)
Free(D, b, w, i, j) ==
    \A x \in D, y \in D : HasAbsorbed(b, w, x, y) => {x, y} \cap {i, j} = {}

(* Body i absorbs body j.                                                  *)
Absorbing(w, i, j) == [w EXCEPT ![i] = Absorb(w[i], w[j]), ![j] = Deactivate(w[j])]

(* Two pairs of colliding bodies, with none in common, are far apart.    *)
LEMMA NotCrowd ==
    ASSUME NEW b, Uncrowded(b), NEW i \in Alive(b), NEW j \in Alive(b), i # j,
           NEW k \in Alive(b), NEW l \in Alive(b), k \notin {i, j}, l \notin {i, j},
           CheckCollision(b[i], b[j]), CheckCollision(b[k], b[l])
    PROVE  ~(Distance(b[i].position, b[k].position)
                < b[i].radius + b[j].radius + b[k].radius + b[l].radius)
<1> DEFINE a == [x \in Alive(b) |-> b[x]]
<1>1. DOMAIN a = Alive(b) /\ a[i] = b[i] /\ a[j] = b[j] /\ a[k] = b[k] /\ a[l] = b[l]
    OBVIOUS
<1>2. ~Crowd(a)
    BY DEF Uncrowded
<1>3. {i, j} \cap {k, l} = {}
    OBVIOUS
<1> HIDE DEF a
<1> QED
    BY <1>1, <1>2, <1>3 DEF Crowd

(* A body collides with one other at most.                                 *)
LEMMA OnePartner ==
    ASSUME NEW D, NEW b \in [D -> BodyRecords], Uncrowded(b),
           NEW i \in Alive(b), NEW j \in Alive(b), NEW k \in Alive(b),
           i # j, i # k, j # k, CheckCollision(b[i], b[j]), CheckCollision(b[i], b[k])
    PROVE  FALSE
<1>1. i \in D /\ j \in D /\ k \in D
    BY DEF Alive
<1>2. CheckCollision(b[k], b[k]) /\ Distance(b[i].position, b[k].position) \in Nat
    BY <1>1, CollisionSymmetric
<1>3. ~(Distance(b[i].position, b[k].position)
           < b[i].radius + b[j].radius + b[k].radius + b[k].radius)
    BY <1>2, NotCrowd
<1>4. Distance(b[i].position, b[k].position) < b[i].radius + b[k].radius
    BY DEF CheckCollision
<1>5. b[i].radius \in Nat /\ b[j].radius \in Nat /\ b[k].radius \in Nat
    BY <1>1 DEF BodyRecords
<1> QED
    BY <1>2, <1>3, <1>4, <1>5

(* Who is alive was alive, and has not grown beyond what it collides with. *)
LEMMA Partner ==
    ASSUME NEW D, NEW b, NEW w, Merged(D, b, w), NEW k \in D,
           k \in Alive(w) \/ \E p \in D : HasAbsorbed(b, w, p, k)
    PROVE  /\ k \in Alive(b) /\ w[k].position = b[k].position
           /\ \E m \in Alive(b) :
                 /\ CheckCollision(b[k], b[m]) /\ CheckCollision(b[m], b[k])
                 /\ w[k].radius <= b[k].radius + b[m].radius
                 /\ \/ m = k /\ w[k] = b[k]
                    \/ m # k /\ (HasAbsorbed(b, w, k, m) \/ HasAbsorbed(b, w, m, k))
<1>1. b \in [D -> BodyRecords] /\ w \in [D -> BodyRecords]
    BY DEF Merged
<1>2. CASE \E j \in D : HasAbsorbed(b, w, k, j) \/ HasAbsorbed(b, w, j, k)
  <2>1. PICK j \in D : HasAbsorbed(b, w, k, j) \/ HasAbsorbed(b, w, j, k)
      BY <1>2
  <2>2. /\ k \in Alive(b) /\ j \in Alive(b) /\ j # k /\ w[k].position = b[k].position
        /\ CheckCollision(b[k], b[j]) \/ CheckCollision(b[j], b[k])
        /\ w[k].radius <= b[k].radius + b[j].radius \/ w[k].radius = b[k].radius
      BY <2>1 DEF HasAbsorbed
  <2>3. CheckCollision(b[k], b[j]) /\ CheckCollision(b[j], b[k])
      BY <1>1, <2>2, CollisionSymmetric
  <2>4. b[k].radius \in Nat /\ b[j].radius \in Nat
      BY <1>1 DEF BodyRecords
  <2>5. w[k].radius <= b[k].radius + b[j].radius
      BY <2>2, <2>4
  <2> QED
    BY <2>1, <2>2, <2>3, <2>5
<1>3. CASE w[k] = b[k] /\ k \in Alive(w)
  <2>1. k \in Alive(b)
      BY <1>1, <1>3 DEF Alive
  <2>2. CheckCollision(b[k], b[k])
      BY <1>1, CollisionSymmetric
  <2>3. b[k].radius <= b[k].radius + b[k].radius
      BY <1>1 DEF BodyRecords
  <2> QED
    BY <1>3, <2>1, <2>2, <2>3
<1> QED
    BY <1>2, <1>3 DEF Merged

(* Two bodies that meet are as they were, and meet nobody else.            *)
LEMMA MeetOnce ==
    ASSUME NEW D, NEW b, NEW w, Merged(D, b, w), NEW i \in D, NEW j \in D, i # j,
           j \in Alive(w), CheckCollision(w[i], w[j]),
           i \in Alive(w) \/ \E p \in D \ {j} : HasAbsorbed(b, w, p, i)
    PROVE  /\ i \in Alive(b) /\ j \in Alive(b) /\ i \in Alive(w)
           /\ w[i] = b[i] /\ w[j] = b[j] /\ CheckCollision(b[i], b[j])
           /\ Free(D, b, w, i, j)
<1>1. b \in [D -> BodyRecords] /\ w \in [D -> BodyRecords] /\ Uncrowded(b)
    BY DEF Merged
<1>2. /\ i \in Alive(b) /\ j \in Alive(b)
      /\ w[i].position = b[i].position /\ w[j].position = b[j].position
    BY Partner
<1>3. PICK m \in Alive(b) :
             /\ CheckCollision(b[i], b[m]) /\ CheckCollision(b[m], b[i])
             /\ w[i].radius <= b[i].radius + b[m].radius
             /\ \/ m = i /\ w[i] = b[i]
                \/ m # i /\ (HasAbsorbed(b, w, i, m) \/ HasAbsorbed(b, w, m, i))
    BY Partner
<1>4. PICK n \in Alive(b) :
             /\ CheckCollision(b[j], b[n]) /\ CheckCollision(b[n], b[j])
             /\ w[j].radius <= b[j].radius + b[n].radius
             /\ \/ n = j /\ w[j] = b[j]
                \/ n # j /\ (HasAbsorbed(b, w, j, n) \/ HasAbsorbed(b, w, n, j))
    BY Partner
<1>5. m \in D /\ n \in D
    BY <1>1 DEF Alive
<1>6. /\ b[i].radius \in Nat /\ b[j].radius \in Nat /\ b[m].radius \in Nat
      /\ b[n].radius \in Nat /\ w[i].radius \in Nat /\ w[j].radius \in Nat
    BY <1>1, <1>5 DEF BodyRecords
<1>7. /\ Distance(b[i].position, b[j].position) < w[i].radius + w[j].radius
      /\ Distance(b[i].position, b[j].position) = Distance(b[j].position, b[i].position)
      /\ Distance(b[i].position, b[j].position) \in Nat
    BY <1>1, <1>2, CollisionSymmetric DEF CheckCollision
<1> DEFINE d == Distance(b[i].position, b[j].position)
<1>8. d < b[i].radius + b[m].radius + b[j].radius + b[n].radius
  <2> HIDE DEF d
  <2> QED
    BY <1>3, <1>4, <1>6, <1>7 DEF d
<1>9. m # j
  <2> SUFFICES ASSUME m = j PROVE FALSE
      OBVIOUS
  <2>1. HasAbsorbed(b, w, j, i) /\ i \notin Alive(w)
      BY <1>3 DEF HasAbsorbed
  <2>2. PICK p \in D \ {j} : HasAbsorbed(b, w, p, i)
      BY <2>1
  <2>3. p \in Alive(b) /\ p # i /\ CheckCollision(b[p], b[i])
      BY <2>2 DEF HasAbsorbed
  <2>4. CheckCollision(b[i], b[p])
      BY <1>1, <2>3, CollisionSymmetric
  <2> QED
    BY <1>1, <1>2, <1>3, <2>2, <2>3, <2>4, OnePartner
<1>10. n # i
  <2> SUFFICES ASSUME n = i PROVE FALSE
      OBVIOUS
  <2>1. HasAbsorbed(b, w, j, i) /\ i \notin Alive(w)
      BY <1>4 DEF HasAbsorbed
  <2>2. PICK p \in D \ {j} : HasAbsorbed(b, w, p, i)
      BY <2>1
  <2>3. p \in Alive(b) /\ p # i /\ CheckCollision(b[p], b[i])
      BY <2>2 DEF HasAbsorbed
  <2>4. CheckCollision(b[i], b[p])
      BY <1>1, <2>3, CollisionSymmetric
  <2> QED
    BY <1>1, <1>2, <1>4, <2>2, <2>3, <2>4, OnePartner
<1>11. m # n
    BY <1>1, <1>2, <1>3, <1>4, <1>9, <1>10, OnePartner
<1>12. m = i
  <2> SUFFICES ASSUME m # i PROVE FALSE
      OBVIOUS
  <2>1. j \notin {i, m} /\ n \notin {i, m}
      BY <1>9, <1>10, <1>11
  <2>2. ~(d < b[i].radius + b[m].radius + b[j].radius + b[n].radius)
      BY <1>1, <1>2, <1>3, <1>4, <2>1, NotCrowd
  <2> QED
    BY <1>8, <2>2
<1>13. n = j
  <2> SUFFICES ASSUME n # j PROVE FALSE
      OBVIOUS
  <2>1. i \notin {j, n} /\ m \notin {j, n}
      BY <1>10, <1>12
  <2>2. ~(Distance(b[j].position, b[i].position)
             < b[j].radius + b[n].radius + b[i].radius + b[m].radius)
      BY <1>1, <1>2, <1>3, <1>4, <2>1, NotCrowd
  <2> HIDE DEF d
  <2>3. ~(d < b[j].radius + b[n].radius + b[i].radius + b[m].radius)
      BY <1>7, <2>2 DEF d
  <2> QED
    BY <1>6, <1>8, <2>3
<1>14. w[i] = b[i] /\ w[j] = b[j]
    BY <1>3, <1>4, <1>12, <1>13
<1>15. CheckCollision(b[i], b[j]) /\ CheckCollision(b[j], b[i]) /\ i \in Alive(w)
    BY <1>1, <1>2, <1>14, CollisionSymmetric DEF Alive
<1>16. ASSUME NEW x \in D, NEW y \in D, HasAbsorbed(b, w, x, y)
       PROVE  {x, y} \cap {i, j} = {}
  <2>1. /\ x \in Alive(b) /\ y \in Alive(b) /\ x # y /\ y \notin Alive(w)
        /\ CheckCollision(b[x], b[y])
      BY <1>16 DEF HasAbsorbed
  <2>2. CheckCollision(b[y], b[x])
      BY <1>1, <2>1, CollisionSymmetric
  <2>3. y # i /\ y # j
      BY <1>15, <2>1
  <2>4. x # i
      BY <1>1, <1>2, <1>15, <2>1, <2>2, <2>3, OnePartner
  <2>5. x # j
      BY <1>1, <1>2, <1>15, <2>1, <2>2, <2>3, OnePartner
  <2> QED
    BY <2>3, <2>4, <2>5
<1>17. Free(D, b, w, i, j)
    BY <1>16 DEF Free
<1> QED
    BY <1>2, <1>14, <1>15, <1>17

(* One of two bodies that meet absorbs the other.                          *)
LEMMA AbsorbStep ==
    ASSUME NEW D, NEW b, NEW w, Merged(D, b, w), NEW x \in Alive(b), NEW y \in Alive(b), x # y,
           w[x] = b[x], w[y] = b[y], CheckCollision(b[x], b[y]),
           Free(D, b, w, x, y), NEW after, after = Absorbing(w, x, y)
    PROVE  /\ Merged(D, b, after) /\ HasAbsorbed(b, after, x, y)
           /\ y \in Alive(w) /\ Alive(after) = Alive(w) \ {y}
           /\ \A p \in D, q \in D : HasAbsorbed(b, w, p, q) => HasAbsorbed(b, after, p, q)
<1>1. b \in [D -> BodyRecords] /\ w \in [D -> BodyRecords] /\ x \in D /\ y \in D
      /\ b[x] \in BodyRecords /\ b[y] \in BodyRecords
    BY DEF Merged, Alive
<1>12. b[y].mass \in Int /\ b[y].radius \in Nat \ {0} /\ b[y].velocity \in Int
    BY <1>1 DEF BodyRecords
<1>2. /\ Absorb(b[x], b[y]) \in BodyRecords /\ Deactivate(b[y]) \in BodyRecords
      /\ Absorb(b[x], b[y]).mass = b[x].mass + b[y].mass /\ Deactivate(b[y]).mass = -b[y].mass
      /\ Absorb(b[x], b[y]).position = b[x].position /\ Deactivate(b[y]).position = b[y].position
      /\ b[x].radius <= Absorb(b[x], b[y]).radius
      /\ Absorb(b[x], b[y]).radius <= b[x].radius + b[y].radius
      /\ Deactivate(b[y]).radius = b[y].radius
    BY <1>1, <1>12, AbsorbType, DeactivateType
<1>3. /\ after \in [D -> BodyRecords]
      /\ after[x] = Absorb(b[x], b[y]) /\ after[y] = Deactivate(b[y])
      /\ \A k \in D \ {x, y} : after[k] = w[k]
  <2> DEFINE new == Absorb(b[x], b[y])
             old == Deactivate(b[y])
  <2>1. new \in BodyRecords /\ old \in BodyRecords /\ after = [w EXCEPT ![x] = new, ![y] = old]
      BY <1>2 DEF Absorbing
  <2> HIDE DEF new, old
  <2>2. /\ after \in [D -> BodyRecords] /\ after[x] = new /\ after[y] = old
        /\ \A k \in D \ {x, y} : after[k] = w[k]
      BY <1>1, <2>1
  <2> QED
    BY <2>2 DEF new, old
<1>4. b[x].mass > 0 /\ b[y].mass > 0 /\ b[x].mass \in Int /\ b[y].mass \in Int
    BY <1>1 DEF Alive, IsActive, BodyRecords
<1>5. IsActive(after[x]) /\ ~IsActive(after[y]) /\ IsActive(w[x]) /\ IsActive(w[y])
    BY <1>2, <1>3, <1>4 DEF IsActive
<1>6. DOMAIN w = D /\ DOMAIN after = D
    BY <1>1, <1>3
<1>7. /\ Alive(after) = Alive(w) \ {y} /\ y \in Alive(w)
      /\ \A k \in D \ {x, y} : k \in Alive(after) <=> k \in Alive(w)
    BY <1>1, <1>3, <1>5, <1>6 DEF Alive
<1>8. HasAbsorbed(b, after, x, y)
    BY <1>1, <1>2, <1>3, <1>5, <1>6 DEF HasAbsorbed, Alive
<1>9. ASSUME NEW p \in D, NEW q \in D, HasAbsorbed(b, w, p, q)
      PROVE  HasAbsorbed(b, after, p, q)
  <2>1. p \in D \ {x, y} /\ q \in D \ {x, y}
      BY <1>9 DEF Free
  <2>2. after[p] = w[p] /\ after[q] = w[q]
      BY <1>3, <2>1
  <2> QED
    BY <1>7, <1>9, <2>1, <2>2 DEF HasAbsorbed
<1>10. ASSUME NEW k \in D
       PROVE  \/ after[k] = b[k]
              \/ \E j \in D : HasAbsorbed(b, after, k, j) \/ HasAbsorbed(b, after, j, k)
  <2>1. CASE k \in {x, y}
      BY <1>1, <1>8, <2>1
  <2>2. CASE k \notin {x, y} /\ w[k] = b[k]
      BY <1>3, <2>2
  <2>3. CASE \E j \in D : HasAbsorbed(b, w, k, j) \/ HasAbsorbed(b, w, j, k)
      BY <1>9, <2>3
  <2> QED
    BY <2>1, <2>2, <2>3 DEF Merged
<1>11. Merged(D, b, after)
    BY <1>1, <1>3, <1>10 DEF Merged
<1> QED
    BY <1>7, <1>8, <1>9, <1>11

(* activeBodiesCount is the number of active bodies, while two bodies at a *)
(* time become one.                                                        *)
Counted(D, b, u) ==
    /\ u = [active |-> u.active, bodies |-> u.bodies]
    /\ Merged(D, b, u.bodies) /\ u.active = Cardinality(Alive(u.bodies))

(* One step of the inner loop.                                             *)
LEMMA MeetStep ==
    ASSUME NEW n \in Nat, NEW b, NEW u, Counted(1 .. n, b, u), NEW i \in 1 .. n, NEW j \in 1 .. n,
           \/ i \in Alive(u.bodies)
           \/ \E p \in (1 .. n) \ {j} : HasAbsorbed(b, u.bodies, p, i),
           NEW v, v = CollideLocally(u, i, j)
    PROVE  /\ Counted(1 .. n, b, v) /\ Alive(v.bodies) \subseteq Alive(u.bodies)
           /\ \A p \in 1 .. n, q \in 1 .. n :
                 HasAbsorbed(b, u.bodies, p, q) => HasAbsorbed(b, v.bodies, p, q)
           /\ i \in Alive(u.bodies) => i \in Alive(v.bodies) \/ HasAbsorbed(b, v.bodies, j, i)
           /\ (i # j /\ i \in Alive(v.bodies) /\ j \in Alive(v.bodies))
                 => ~CheckCollision(b[i], b[j])
<1> DEFINE D == 1 .. n
           w == u.bodies
<1>1. /\ Merged(D, b, w) /\ b \in [D -> BodyRecords] /\ w \in [D -> BodyRecords]
      /\ u.active = Cardinality(Alive(w)) /\ Alive(w) \subseteq D
    BY DEF Counted, Merged, Alive
<1>2. IsFiniteSet(Alive(w)) /\ Cardinality(Alive(w)) \in Nat
    BY <1>1, PartIsFinite
<1> HIDE DEF D
<1>3. i \in D /\ j \in D
    BY DEF D
<1>4. CASE i = j \/ ~IsActive(w[j]) \/ ~CheckCollision(w[i], w[j])
  <2>1. v = u
      BY <1>4 DEF CollideLocally
  <2>2. ASSUME i # j, i \in Alive(w), j \in Alive(w), CheckCollision(b[i], b[j])
        PROVE  FALSE
    <3>1. ~CheckCollision(w[i], w[j])
        BY <1>4, <2>2 DEF Alive
    <3>2. ASSUME NEW k \in D, k \in Alive(w)
          PROVE  w[k].position = b[k].position /\ b[k].radius <= w[k].radius
      <4>1. b[k].radius \in Nat
          BY <1>1 DEF BodyRecords
      <4>2. CASE w[k] = b[k]
          BY <4>1, <4>2
      <4>3. CASE \E x \in D : HasAbsorbed(b, w, k, x) \/ HasAbsorbed(b, w, x, k)
          BY <3>2, <4>3 DEF HasAbsorbed
      <4> QED
        BY <1>1, <4>2, <4>3 DEF Merged
    <3>3. /\ w[i].position = b[i].position /\ b[i].radius <= w[i].radius
          /\ w[j].position = b[j].position /\ b[j].radius <= w[j].radius
        BY <1>3, <2>2, <3>2
    <3>4. /\ b[i].radius \in Nat /\ b[j].radius \in Nat
          /\ w[i].radius \in Nat /\ w[j].radius \in Nat
          /\ Distance(b[i].position, b[j].position) \in Nat
        BY <1>1, <1>3, CollisionSymmetric DEF BodyRecords
    <3>5. Distance(b[i].position, b[j].position) < b[i].radius + b[j].radius
        BY <2>2 DEF CheckCollision
    <3>6. ~(Distance(b[i].position, b[j].position) < w[i].radius + w[j].radius)
        BY <3>1, <3>3 DEF CheckCollision
    <3> QED
      BY <3>3, <3>4, <3>5, <3>6
  <2> QED
    BY <2>1, <2>2
<1>5. CASE i # j /\ IsActive(w[j]) /\ CheckCollision(w[i], w[j])
  <2>1. j \in Alive(w)
      BY <1>1, <1>3, <1>5 DEF Alive
  <2>2. /\ i \in Alive(b) /\ j \in Alive(b) /\ i \in Alive(w)
        /\ w[i] = b[i] /\ w[j] = b[j] /\ CheckCollision(b[i], b[j])
        /\ Free(D, b, w, i, j)
    <3>1. i \in Alive(w) \/ \E p \in D \ {j} : HasAbsorbed(b, w, p, i)
        BY DEF D
    <3> HIDE DEF w
    <3> QED
      BY <1>1, <1>3, <1>5, <2>1, <3>1, MeetOnce
  <2>3. CheckCollision(b[j], b[i])
      BY <1>1, <1>3, <2>2, CollisionSymmetric
  <2>4. Free(D, b, w, j, i)
      BY <2>2 DEF Free
  <2>5. ASSUME NEW x \in D, NEW y \in D, {x, y} = {i, j}, NEW after,
               v = [active |-> u.active - 1, bodies |-> after],
               Merged(D, b, after), HasAbsorbed(b, after, x, y), y \in Alive(w),
               Alive(after) = Alive(w) \ {y},
               \A p \in D, q \in D : HasAbsorbed(b, w, p, q) => HasAbsorbed(b, after, p, q)
        PROVE  /\ Counted(D, b, v) /\ Alive(v.bodies) \subseteq Alive(w)
               /\ \A p \in D, q \in D :
                     HasAbsorbed(b, w, p, q) => HasAbsorbed(b, v.bodies, p, q)
               /\ i \in Alive(w) => i \in Alive(v.bodies) \/ HasAbsorbed(b, v.bodies, j, i)
               /\ ~(i \in Alive(v.bodies) /\ j \in Alive(v.bodies))
    <3>1. v.bodies = after /\ v.active = u.active - 1
      <4>1. \A c, d : /\ [active |-> c, bodies |-> d].bodies = d
                      /\ [active |-> c, bodies |-> d].active = c
          OBVIOUS
      <4> QED
        BY <2>5, <4>1, Zenon
    <3>2. Cardinality(Alive(after)) = Cardinality(Alive(w)) - 1
      <4> DEFINE S == Alive(w)
      <4>1. IsFiniteSet(S) /\ y \in S /\ Alive(after) = S \ {y}
          BY <1>2, <2>5
      <4> HIDE DEF S
      <4>2. Cardinality(S \ {y}) = Cardinality(S) - 1
          BY <4>1, FS_RemoveElement
      <4> QED
        BY <4>1, <4>2 DEF S
    <3>3. Counted(D, b, v)
        BY <1>1, <2>5, <3>1, <3>2 DEF Counted
    <3>4. y \notin Alive(after) /\ (y = i => x = j)
        BY <1>5, <2>5
    <3> QED
      BY <2>5, <3>1, <3>3, <3>4
  <2>6. CASE CanAbsorb(b[i], b[j])
    <3> DEFINE after == Absorbing(w, i, j)
    <3>1. v = [active |-> u.active - 1, bodies |-> after]
        BY <1>5, <2>2, <2>6 DEF CollideLocally, Absorbing
    <3> HIDE DEF after, w
    <3>2. /\ Merged(D, b, after) /\ HasAbsorbed(b, after, i, j) /\ j \in Alive(w)
          /\ Alive(after) = Alive(w) \ {j}
          /\ \A p \in D, q \in D : HasAbsorbed(b, w, p, q) => HasAbsorbed(b, after, p, q)
        BY <1>1, <1>5, <2>2, AbsorbStep DEF after
    <3>3. {i, j} = {i, j}
        OBVIOUS
    <3> QED
      BY <1>3, <2>5, <3>1, <3>2, <3>3 DEF D, w
  <2>7. CASE ~CanAbsorb(b[i], b[j])
    <3> DEFINE after == Absorbing(w, j, i)
    <3>1. v = [active |-> u.active - 1, bodies |-> after]
        BY <1>5, <2>2, <2>7 DEF CollideLocally, Absorbing
    <3> HIDE DEF after, w
    <3>2. /\ Merged(D, b, after) /\ HasAbsorbed(b, after, j, i) /\ i \in Alive(w)
          /\ Alive(after) = Alive(w) \ {i}
          /\ \A p \in D, q \in D : HasAbsorbed(b, w, p, q) => HasAbsorbed(b, after, p, q)
        BY <1>1, <1>5, <2>2, <2>3, <2>4, AbsorbStep DEF after
    <3>3. {j, i} = {i, j}
        OBVIOUS
    <3> QED
      BY <1>3, <2>5, <3>1, <3>2, <3>3 DEF D, w
  <2> QED
    BY <2>6, <2>7
<1> QED
    BY <1>4, <1>5

(* The inner loop is a fold.                                               *)
LEMMA InnerFold ==
    ASSUME NEW n \in Nat, NEW u, NEW i, NEW indexes, DOMAIN indexes = 1 .. n
    PROVE  \E h : /\ IsFold("collide", i, u, indexes, n, h)
                  /\ CollideWithOthers(u, i, indexes) = h[1 .. n]
<1> DEFINE P(g) == g = [s \in SUBSET (1 .. n) |->
                          IF s = {} THEN u
                          ELSE LET x == Max(s) IN CollideLocally(g[s \ {x}], i, indexes[x])]
           h == CHOOSE g : P(g)
<1>1. CollideWithOthers(u, i, indexes) = h[1 .. n]
    BY DEF CollideWithOthers, FoldLeft, MapThenFoldSet
<1>2. \A g : P(g) <=> IsFold("collide", i, u, indexes, n, g)
  <2>1. \A g, s : FoldStep("collide", i, u, indexes, g, s)
                    = IF s = {} THEN u
                      ELSE LET x == Max(s) IN CollideLocally(g[s \ {x}], i, indexes[x])
      BY DEF FoldStep, Applied
  <2> QED
    BY <2>1 DEF IsFold
<1>3. IsFold("collide", i, u, indexes, n, h)
  <2>1. PICK g : IsFold("collide", i, u, indexes, n, g)
      BY FoldExists
  <2>2. \E a : P(a)
      BY <1>2, <2>1
  <2>3. P(CHOOSE a : P(a))
    <3> HIDE DEF P
    <3> QED
      BY <2>2
  <2> HIDE DEF P
  <2> QED
      BY <1>2, <2>3
<1> HIDE DEF h
<1> QED
    BY <1>1, <1>3

(* The outer loop is a fold.                                               *)
LEMMA OuterFold ==
    ASSUME NEW n \in Nat, NEW u, DOMAIN u.bodies = 1 .. n,
           NEW indexes, indexes = [i \in 1 .. n |-> i]
    PROVE  \E h : /\ IsFold("collideAll", indexes, u, indexes, n, h)
                  /\ CheckLocalCollisions(u) = h[1 .. n]
<1> DEFINE P(g) == g = [s \in SUBSET (1 .. n) |->
                          IF s = {} THEN u
                          ELSE LET x == Max(s)
                               IN  IF IsActive(g[s \ {x}].bodies[indexes[x]])
                                   THEN CollideWithOthers(g[s \ {x}], indexes[x], indexes)
                                   ELSE g[s \ {x}]]
           h == CHOOSE g : P(g)
<1>1. CheckLocalCollisions(u) = h[1 .. n]
    BY DEF CheckLocalCollisions, FoldLeft, MapThenFoldSet
<1>2. \A g : P(g) <=> IsFold("collideAll", indexes, u, indexes, n, g)
  <2>1. \A g, s : FoldStep("collideAll", indexes, u, indexes, g, s)
                    = IF s = {} THEN u
                      ELSE LET x == Max(s)
                           IN  IF IsActive(g[s \ {x}].bodies[indexes[x]])
                               THEN CollideWithOthers(g[s \ {x}], indexes[x], indexes)
                               ELSE g[s \ {x}]
      BY DEF FoldStep, Applied
  <2> QED
    BY <2>1 DEF IsFold
<1>3. IsFold("collideAll", indexes, u, indexes, n, h)
  <2>1. PICK g : IsFold("collideAll", indexes, u, indexes, n, g)
      BY FoldExists
  <2>2. \E a : P(a)
      BY <1>2, <2>1
  <2>3. P(CHOOSE a : P(a))
    <3> HIDE DEF P
    <3> QED
      BY <2>2
  <2> HIDE DEF P
  <2> QED
      BY <1>2, <2>3
<1> HIDE DEF h
<1> QED
    BY <1>1, <1>3

(* Two bodies that collide are one after the loops have met them.          *)
Settled(b, w, i, j) ==
    (i # j /\ i \in Alive(w) /\ j \in Alive(w)) => ~CheckCollision(b[i], b[j])

(* The inner loop up to an index: the outer body is alive, or absorbed by  *)
(* a body before the index, which it will not meet again.                  *)
InnerReached(n, b, i, alive, k, u) ==
    /\ Counted(1 .. n, b, u) /\ Alive(u.bodies) \subseteq alive
    /\ i \in Alive(u.bodies) \/ \E p \in 1 .. k : HasAbsorbed(b, u.bodies, p, i)
    /\ \A j \in 1 .. k : Settled(b, u.bodies, i, j)

(* One more body that the i-th is compared with keeps what has been      *)
(* reached.                                                              *)
LEMMA InnerStep ==
    ASSUME NEW n \in Nat, NEW b, NEW i \in 1 .. n, NEW alive, NEW k \in 1 .. n, NEW u,
           InnerReached(n, b, i, alive, k - 1, u)
    PROVE  InnerReached(n, b, i, alive, k, CollideLocally(u, i, k))
<1> DEFINE v == CollideLocally(u, i, k)
<1>1. Counted(1 .. n, b, u) /\ Alive(u.bodies) \subseteq alive
    BY DEF InnerReached
<1>2. 1 .. k - 1 \subseteq (1 .. n) \ {k} /\ 1 .. k - 1 \subseteq 1 .. k
      /\ \A j \in 1 .. k : j = k \/ j \in 1 .. k - 1
    OBVIOUS
<1>3. i \in Alive(u.bodies) \/ \E p \in (1 .. n) \ {k} : HasAbsorbed(b, u.bodies, p, i)
    BY <1>2 DEF InnerReached
<1>4. /\ Counted(1 .. n, b, v) /\ Alive(v.bodies) \subseteq Alive(u.bodies)
      /\ \A p \in 1 .. n, q \in 1 .. n :
            HasAbsorbed(b, u.bodies, p, q) => HasAbsorbed(b, v.bodies, p, q)
      /\ i \in Alive(u.bodies) => i \in Alive(v.bodies) \/ HasAbsorbed(b, v.bodies, k, i)
      /\ (i # k /\ i \in Alive(v.bodies) /\ k \in Alive(v.bodies))
            => ~CheckCollision(b[i], b[k])
    BY <1>1, <1>3, MeetStep
<1> HIDE DEF v
<1>5. i \in Alive(v.bodies) \/ \E p \in 1 .. k : HasAbsorbed(b, v.bodies, p, i)
  <2>1. k \in 1 .. k /\ 1 .. k - 1 \subseteq 1 .. n
      BY <1>2
  <2>2. CASE i \in Alive(u.bodies)
      BY <1>4, <2>1, <2>2
  <2>3. CASE \E p \in 1 .. k - 1 : HasAbsorbed(b, u.bodies, p, i)
      BY <1>2, <1>4, <2>1, <2>3
  <2> QED
    BY <2>2, <2>3 DEF InnerReached
<1>6. ASSUME NEW j \in 1 .. k
      PROVE  Settled(b, v.bodies, i, j)
  <2>1. CASE j = k
      BY <1>4, <2>1 DEF Settled
  <2>2. CASE j \in 1 .. k - 1
      BY <1>4, <2>2 DEF Settled, InnerReached
  <2> QED
    BY <1>2, <2>1, <2>2
<1>7. InnerReached(n, b, i, alive, k, v)
    BY <1>1, <1>4, <1>5, <1>6 DEF InnerReached
<1> QED
    BY <1>7 DEF v

(* The inner loop.                                                         *)
LEMMA InnerLoop ==
    ASSUME NEW n \in Nat, NEW b, NEW u, Counted(1 .. n, b, u), NEW i \in 1 .. n,
           i \in Alive(u.bodies), NEW indexes, indexes = [k \in 1 .. n |-> k]
    PROVE  InnerReached(n, b, i, Alive(u.bodies), n, CollideWithOthers(u, i, indexes))
<1> DEFINE alive == Alive(u.bodies)
<1>1. DOMAIN indexes = 1 .. n /\ \A k \in 1 .. n : indexes[k] = k
    OBVIOUS
<1>2. PICK h : /\ IsFold("collide", i, u, indexes, n, h)
               /\ CollideWithOthers(u, i, indexes) = h[1 .. n]
    BY <1>1, InnerFold
<1>3. /\ h[1 .. 0] = u
      /\ \A k \in 1 .. n : h[1 .. k] = Applied("collide", i, h[1 .. k - 1], indexes[k])
    BY <1>2, FoldPrefixes
<1>4. \A k \in 1 .. n : h[1 .. k] = CollideLocally(h[1 .. k - 1], i, k)
    BY <1>1, <1>3 DEF Applied
<1>5. InnerReached(n, b, i, alive, 0, h[1 .. 0])
    BY <1>3 DEF InnerReached
<1> DEFINE Bad == {k \in 0 .. n : ~InnerReached(n, b, i, alive, k, h[1 .. k])}
<1> HIDE DEF alive
<1>6. ASSUME NEW k \in Bad
      PROVE  \E j \in Bad : j < k
  <2>1. k # 0
    <3> SUFFICES ASSUME k = 0 PROVE FALSE
        OBVIOUS
    <3> QED
      BY <1>5
  <2>2. k \in 1 .. n /\ k - 1 \in 0 .. n /\ k - 1 < k
      BY <2>1
  <2>3. k - 1 \in Bad
      BY <1>4, <2>2, InnerStep
  <2> QED
    BY <2>2, <2>3
<1>7. Bad = {}
  <2>1. Bad \subseteq Nat
      OBVIOUS
  <2> HIDE DEF Bad
  <2> QED
    BY <1>6, <2>1, NoLeast
<1>8. n \in 0 .. n
    OBVIOUS
<1> QED
    BY <1>2, <1>7, <1>8 DEF alive

(* The outer loop up to an index.                                          *)
OuterReached(n, b, k, u) ==
    /\ Counted(1 .. n, b, u)
    /\ \A i \in 1 .. k, j \in 1 .. n : Settled(b, u.bodies, i, j)

(* One more body that is compared with all the others.                   *)
LEMMA OuterStep ==
    ASSUME NEW n \in Nat, NEW b, NEW k \in 1 .. n, NEW u, OuterReached(n, b, k - 1, u),
           NEW indexes, indexes = [i \in 1 .. n |-> i],
           NEW v, v = IF IsActive(u.bodies[k]) THEN CollideWithOthers(u, k, indexes) ELSE u
    PROVE  OuterReached(n, b, k, v)
<1>1. Counted(1 .. n, b, u)
    BY DEF OuterReached
<1>2. DOMAIN u.bodies = 1 .. n
    BY <1>1 DEF Counted, Merged
<1>3. \A i \in 1 .. k : i = k \/ i \in 1 .. k - 1
    OBVIOUS
<1>4. CASE IsActive(u.bodies[k])
  <2>1. k \in Alive(u.bodies)
      BY <1>2, <1>4 DEF Alive
  <2>2. InnerReached(n, b, k, Alive(u.bodies), n, v)
      BY <1>1, <1>4, <2>1, InnerLoop
  <2>3. /\ Counted(1 .. n, b, v) /\ Alive(v.bodies) \subseteq Alive(u.bodies)
        /\ \A j \in 1 .. n : Settled(b, v.bodies, k, j)
      BY <2>2 DEF InnerReached
  <2>4. ASSUME NEW i \in 1 .. k - 1, NEW j \in 1 .. n
        PROVE  Settled(b, v.bodies, i, j)
      BY <2>3 DEF Settled, OuterReached
  <2> QED
    BY <1>3, <2>3, <2>4 DEF OuterReached
<1>5. CASE ~IsActive(u.bodies[k])
  <2>1. \A j \in 1 .. n : Settled(b, v.bodies, k, j)
      BY <1>5 DEF Settled, Alive
  <2> QED
    BY <1>1, <1>3, <1>5, <2>1 DEF OuterReached
<1> QED
    BY <1>4, <1>5

(* Universe::checkCollisions(): two bodies of a process that collide are   *)
(* one afterwards, every other body is as it was, and the count is right.  *)
LEMMA LocalCollisionsCount ==
    ASSUME NEW n \in Nat, NEW u, Sound(1 .. n, u), u.bodies \in [1 .. n -> BodyRecords],
           Uncrowded(u.bodies), u.active = Cardinality(Alive(u.bodies))
    PROVE  OuterReached(n, u.bodies, n, CheckLocalCollisions(u))
<1> DEFINE indexes == [i \in 1 .. n |-> i]
           b == u.bodies
<1>1. DOMAIN u.bodies = 1 .. n
    BY DEF Sound
<1>2. PICK h : /\ IsFold("collideAll", indexes, u, indexes, n, h)
               /\ CheckLocalCollisions(u) = h[1 .. n]
    BY <1>1, OuterFold
<1>3. /\ h[1 .. 0] = u
      /\ \A k \in 1 .. n : h[1 .. k] = Applied("collideAll", indexes, h[1 .. k - 1], indexes[k])
  <2> HIDE DEF indexes
  <2> QED
    BY <1>2, FoldPrefixes
<1>4. \A k \in 1 .. n : indexes[k] = k
    OBVIOUS
<1>5. \A k \in 1 .. n : h[1 .. k] = IF IsActive(h[1 .. k - 1].bodies[k])
                                    THEN CollideWithOthers(h[1 .. k - 1], k, indexes)
                                    ELSE h[1 .. k - 1]
  <2> HIDE DEF indexes
  <2> QED
    BY <1>3, <1>4 DEF Applied
<1>6. OuterReached(n, b, 0, h[1 .. 0])
    BY <1>3 DEF OuterReached, Counted, Merged, Sound
<1> DEFINE Bad == {k \in 0 .. n : ~OuterReached(n, b, k, h[1 .. k])}
<1>7. ASSUME NEW k \in Bad
      PROVE  \E j \in Bad : j < k
  <2>1. k # 0
    <3> SUFFICES ASSUME k = 0 PROVE FALSE
        OBVIOUS
    <3> QED
      BY <1>6
  <2>2. k \in 1 .. n /\ k - 1 \in 0 .. n /\ k - 1 < k
      BY <2>1
  <2>3. k - 1 \in Bad
    <3> DEFINE w == h[1 .. k - 1]
               v == h[1 .. k]
    <3>1. v = IF IsActive(w.bodies[k]) THEN CollideWithOthers(w, k, indexes) ELSE w
        BY <1>5, <2>2
    <3>2. indexes = [i \in 1 .. n |-> i]
        OBVIOUS
    <3>3. ~OuterReached(n, b, k, v)
        OBVIOUS
    <3> HIDE DEF w, v, indexes, b
    <3>4. ~OuterReached(n, b, k - 1, w)
        BY <2>2, <3>1, <3>2, <3>3, OuterStep
    <3> QED
      BY <2>2, <3>4 DEF w
  <2> QED
    BY <2>2, <2>3
<1>8. Bad = {}
  <2>1. Bad \subseteq Nat
      OBVIOUS
  <2> HIDE DEF Bad
  <2> QED
    BY <1>7, <2>1, NoLeast
<1>9. n \in 0 .. n
    OBVIOUS
<1> QED
    BY <1>2, <1>8, <1>9

---------------------------------------------------------------------------
(* Collisions across processes *)

(* The bodies S that each process has when a state begins, as one function.*)
Ids(S) == {x \in Ranks \X Nat : x[2] \in DOMAIN S[x[1]]}
Flat(S) == [x \in Ids(S) |-> S[x[1]][x[2]]]

SpreadOut(S) ==
    /\ \A r \in Ranks : DOMAIN S[r] \subseteq Nat /\ S[r] \in [DOMAIN S[r] -> BodyRecords]
    /\ Uncrowded(Flat(S))

(* Two bodies that collide, in whatever processes.                         *)
Partners(S, r, i, q, j) ==
    /\ i \in Alive(S[r]) /\ j \in Alive(S[q]) /\ <<r, i>> # <<q, j>>
    /\ CheckCollision(S[r][i], S[q][j])

(* The bodies of all processes, each by its process and its index.       *)
LEMMA FlatBodies ==
    ASSUME NEW S, SpreadOut(S)
    PROVE  /\ Flat(S) \in [Ids(S) -> BodyRecords]
           /\ \A r \in Ranks : \A i \in Alive(S[r]) :
                 <<r, i>> \in Alive(Flat(S)) /\ Flat(S)[<<r, i>>] = S[r][i]
<1>1. \A r \in Ranks : \A i \in DOMAIN S[r] :
         <<r, i>> \in Ids(S) /\ Flat(S)[<<r, i>>] = S[r][i] /\ S[r][i] \in BodyRecords
    BY DEF SpreadOut, Ids, Flat
<1>2. \A x \in Ids(S) : x[1] \in Ranks /\ x[2] \in DOMAIN S[x[1]]
    BY DEF Ids
<1>3. DOMAIN Flat(S) = Ids(S) /\ \A x \in Ids(S) : Flat(S)[x] = S[x[1]][x[2]]
    BY DEF Flat
<1>4. Flat(S) \in [Ids(S) -> BodyRecords]
  <2>1. \A x \in Ids(S) : S[x[1]][x[2]] \in BodyRecords
      BY <1>2 DEF SpreadOut
  <2> QED
    BY <2>1 DEF Flat
<1> QED
    BY <1>1, <1>3, <1>4 DEF Alive

(* Each of two partners is the partner of the other.                     *)
LEMMA PartnersSymmetric ==
    ASSUME NEW S, SpreadOut(S), NEW r \in Ranks, NEW i, NEW q \in Ranks, NEW j,
           Partners(S, r, i, q, j)
    PROVE  Partners(S, q, j, r, i)
<1>1. S[r][i] \in BodyRecords /\ S[q][j] \in BodyRecords
    BY DEF Partners, Alive, SpreadOut
<1> QED
    BY <1>1, CollisionSymmetric DEF Partners

(* A body has one partner at most.                                         *)
LEMMA OneAcross ==
    ASSUME NEW S, SpreadOut(S), NEW r \in Ranks, NEW i, NEW q \in Ranks, NEW j,
           NEW p \in Ranks, NEW k, Partners(S, r, i, q, j), Partners(S, r, i, p, k)
    PROVE  q = p /\ j = k
<1> DEFINE b == Flat(S)
           X == Ids(S)
           x == <<r, i>>
           y == <<q, j>>
           z == <<p, k>>
<1>1. b \in [X -> BodyRecords] /\ Uncrowded(b)
    BY FlatBodies DEF SpreadOut
<1>2. /\ x \in Alive(b) /\ y \in Alive(b) /\ z \in Alive(b) /\ x # y /\ x # z
      /\ CheckCollision(b[x], b[y]) /\ CheckCollision(b[x], b[z])
    BY FlatBodies DEF Partners
<1>3. y = z => q = p /\ j = k
    OBVIOUS
<1> HIDE DEF b, X, x, y, z
<1>4. y = z
    BY <1>1, <1>2, OnePartner
<1> QED
    BY <1>3, <1>4

(* Within a process bodies are no more crowded than in the whole job.      *)
LEMMA LocallyUncrowded ==
    ASSUME NEW S, SpreadOut(S), NEW r \in Ranks
    PROVE  Uncrowded(S[r])
<1> DEFINE b == S[r]
           a == [k \in Alive(b) |-> b[k]]
           f == Flat(S)
<1>1. SUFFICES ASSUME Crowd(a) PROVE FALSE
    BY DEF Uncrowded
<1>2. DOMAIN a = Alive(b) /\ \A k \in Alive(b) : a[k] = b[k]
    OBVIOUS
<1> HIDE DEF a
<1>3. PICK i \in Alive(b), j \in Alive(b), k \in Alive(b), l \in Alive(b) :
             /\ i # j /\ {i, j} \cap {k, l} = {}
             /\ CheckCollision(b[i], b[j]) /\ CheckCollision(b[k], b[l])
             /\ Distance(b[i].position, b[k].position)
                   < b[i].radius + b[j].radius + b[k].radius + b[l].radius
    BY <1>1, <1>2 DEF Crowd
<1>4. \A m \in Alive(b) : <<r, m>> \in Alive(f) /\ f[<<r, m>>] = b[m]
    BY FlatBodies
<1>5. Uncrowded(f)
    BY DEF SpreadOut
<1> DEFINE x == <<r, i>>
           y == <<r, j>>
           z == <<r, k>>
           t == <<r, l>>
<1>6. x # y /\ z \notin {x, y} /\ t \notin {x, y}
    BY <1>3
<1>7. /\ x \in Alive(f) /\ y \in Alive(f) /\ z \in Alive(f) /\ t \in Alive(f)
      /\ f[x] = b[i] /\ f[y] = b[j] /\ f[z] = b[k] /\ f[t] = b[l]
    BY <1>4
<1> HIDE DEF x, y, z, t, f, b
<1> QED
    BY <1>3, <1>5, <1>6, <1>7, NotCrowd

(* What is left of a body a that collides with o of another process: the   *)
(* process of the higher rank sees the other's body first, and absorbs it  *)
(* or gives its own up; then the one of the lower rank sees what is left.  *)
Like(c, a) == c.mass = a.mass /\ c.radius = a.radius
Grown(c, a, o) ==
    c.mass = a.mass + o.mass /\ a.radius <= c.radius /\ c.radius <= a.radius + o.radius
Outcome(c, a, o, seesFirst) ==
    IF seesFirst THEN IF CanAbsorb(a, o) THEN Grown(c, a, o) ELSE ~IsActive(c)
    ELSE IF CanAbsorb(o, a) THEN ~IsActive(c) ELSE Like(c, a)

(* How large a body may be.                                                *)
Bounded(S, r, i, radius) ==
    \/ radius <= S[r][i].radius
    \/ \E q \in Ranks : \E j \in DOMAIN S[q] :
          Partners(S, r, i, q, j) /\ radius <= S[r][i].radius + S[q][j].radius

(* The bodies w of a process that has met those of some ranks.             *)
Stage(S, r, met, w) ==
    /\ w \in [DOMAIN S[r] -> BodyRecords]
    /\ \A i \in DOMAIN S[r] : w[i].position = S[r][i].position
    /\ \A i \in Alive(w) : i \in Alive(S[r]) /\ Bounded(S, r, i, w[i].radius)
    /\ \A i, j \in Alive(w) : Settled(S[r], w, i, j)
    /\ \A i \in DOMAIN S[r] : \A q \in Ranks \ {r} : \A j \in DOMAIN S[q] :
          Partners(S, r, i, q, j) =>
             IF q \in met THEN Outcome(w[i], S[r][i], S[q][j], q < r) ELSE Like(w[i], S[r][i])

(* Bodies of two processes that touch now are partners.                    *)
LEMMA MeetAcross ==
    ASSUME NEW S, SpreadOut(S), NEW r \in Ranks, NEW q \in Ranks, NEW i, NEW j,
           <<r, i>> # <<q, j>>, NEW c, NEW d, c.radius \in Nat, d.radius \in Nat,
           i \in Alive(S[r]), c.position = S[r][i].position, Bounded(S, r, i, c.radius),
           j \in Alive(S[q]), d.position = S[q][j].position, Bounded(S, q, j, d.radius),
           CheckCollision(c, d)
    PROVE  Partners(S, r, i, q, j)
<1> DEFINE b == Flat(S)
           x == <<r, i>>
           y == <<q, j>>
           e == Distance(b[x].position, b[y].position)
<1>1. b \in [Ids(S) -> BodyRecords] /\ Uncrowded(b)
    BY FlatBodies DEF SpreadOut
<1>2. x \in Alive(b) /\ y \in Alive(b) /\ x # y /\ b[x] = S[r][i] /\ b[y] = S[q][j]
    BY FlatBodies
<1>3. e < c.radius + d.radius
    BY <1>2 DEF CheckCollision
<1>4. PICK m \in Alive(b) :
             \/ m = x /\ c.radius <= b[x].radius
             \/ /\ m # x /\ CheckCollision(b[x], b[m])
                /\ c.radius <= b[x].radius + b[m].radius
  <2>1. CASE c.radius <= S[r][i].radius
      BY <1>2, <2>1
  <2>2. CASE \E p \in Ranks : \E k \in DOMAIN S[p] :
                Partners(S, r, i, p, k) /\ c.radius <= S[r][i].radius + S[p][k].radius
    <3>1. PICK p \in Ranks : \E k \in DOMAIN S[p] :
                  Partners(S, r, i, p, k) /\ c.radius <= S[r][i].radius + S[p][k].radius
        BY <2>2
    <3>2. PICK k \in DOMAIN S[p] :
                  Partners(S, r, i, p, k) /\ c.radius <= S[r][i].radius + S[p][k].radius
        BY <3>1
    <3>3. <<p, k>> \in Alive(b) /\ b[<<p, k>>] = S[p][k] /\ <<p, k>> # x
        BY <3>2, FlatBodies DEF Partners
    <3> QED
      BY <1>2, <3>2, <3>3 DEF Partners
  <2> QED
    BY <2>1, <2>2 DEF Bounded
<1>5. PICK n \in Alive(b) :
             \/ n = y /\ d.radius <= b[y].radius
             \/ /\ n # y /\ CheckCollision(b[y], b[n])
                /\ d.radius <= b[y].radius + b[n].radius
  <2>1. CASE d.radius <= S[q][j].radius
      BY <1>2, <2>1
  <2>2. CASE \E p \in Ranks : \E k \in DOMAIN S[p] :
                Partners(S, q, j, p, k) /\ d.radius <= S[q][j].radius + S[p][k].radius
    <3>1. PICK p \in Ranks : \E k \in DOMAIN S[p] :
                  Partners(S, q, j, p, k) /\ d.radius <= S[q][j].radius + S[p][k].radius
        BY <2>2
    <3>2. PICK k \in DOMAIN S[p] :
                  Partners(S, q, j, p, k) /\ d.radius <= S[q][j].radius + S[p][k].radius
        BY <3>1
    <3>3. <<p, k>> \in Alive(b) /\ b[<<p, k>>] = S[p][k] /\ <<p, k>> # y
        BY <3>2, FlatBodies DEF Partners
    <3> QED
      BY <1>2, <3>2, <3>3 DEF Partners
  <2> QED
    BY <2>1, <2>2 DEF Bounded
<1>6. /\ b[x] \in BodyRecords /\ b[y] \in BodyRecords
      /\ b[m] \in BodyRecords /\ b[n] \in BodyRecords
    BY <1>1, <1>2 DEF Alive
<1> HIDE DEF b, x, y
<1>7. /\ b[x].radius \in Nat \ {0} /\ b[y].radius \in Nat \ {0}
      /\ b[m].radius \in Nat \ {0} /\ b[n].radius \in Nat \ {0}
      /\ c.radius \in Nat /\ d.radius \in Nat /\ e \in Nat
      /\ e = Distance(b[y].position, b[x].position)
    BY <1>6, CollisionSymmetric DEF BodyRecords
<1>8. CheckCollision(b[m], b[x]) /\ CheckCollision(b[n], b[y])
    BY <1>4, <1>5, <1>6, CollisionSymmetric
<1> HIDE DEF e
<1>9. CheckCollision(b[x], b[y])
  <2>1. CASE m = x /\ n = y
    <3>1. c.radius <= b[x].radius /\ d.radius <= b[y].radius
        BY <1>4, <1>5, <2>1
    <3>2. e < b[x].radius + b[y].radius
        BY <1>3, <1>7, <3>1
    <3> QED
      BY <3>2 DEF CheckCollision, e
  <2>2. CASE m # x
    <3>1. CASE m = y
        BY <1>4, <2>2, <3>1
    <3>2. CASE n = x
        BY <1>8, <3>2
    <3>3. CASE m # y /\ n # x
      <4>1. m # n
        <5> SUFFICES ASSUME m = n PROVE FALSE
            OBVIOUS
        <5>1. CheckCollision(b[m], b[x]) /\ CheckCollision(b[m], b[y])
            BY <1>8
        <5> QED
          BY <1>1, <1>2, <2>2, <3>3, <5>1, OnePartner DEF b, x, y
      <4>2. ~(Distance(b[x].position, b[y].position)
                 < b[x].radius + b[m].radius + b[y].radius + b[n].radius)
        <5>1. CheckCollision(b[x], b[m]) /\ CheckCollision(b[y], b[n])
            BY <1>4, <1>5, <1>6, <2>2, CollisionSymmetric
        <5> QED
          BY <1>1, <1>2, <2>2, <3>3, <4>1, <5>1, NotCrowd
      <4>3. c.radius <= b[x].radius + b[m].radius /\ d.radius <= b[y].radius + b[n].radius
          BY <1>4, <1>5, <1>7
      <4> QED
        BY <1>3, <1>7, <4>2, <4>3 DEF e
    <3> QED
      BY <3>1, <3>2, <3>3
  <2>3. CASE m = x /\ n # y
    <3>1. CASE n = x
        BY <1>8, <3>1
    <3>2. CASE n # x
      <4>1. ~(Distance(b[y].position, b[x].position)
                 < b[y].radius + b[n].radius + b[x].radius + b[m].radius)
        <5>1. CheckCollision(b[y], b[n]) /\ CheckCollision(b[x], b[m])
            BY <1>5, <1>6, <2>3, CollisionSymmetric
        <5> QED
          BY <1>1, <1>2, <2>3, <3>2, <5>1, NotCrowd
      <4>2. c.radius <= b[x].radius /\ d.radius <= b[y].radius + b[n].radius
          BY <1>4, <1>5, <2>3
      <4> QED
        BY <1>3, <1>7, <4>1, <4>2
    <3> QED
      BY <3>1, <3>2
  <2> QED
    BY <2>1, <2>2, <2>3
<1> QED
    BY <1>2, <1>9 DEF Partners

(* After the collisions within a process.                                  *)
LEMMA LocalStage ==
    ASSUME NEW S, SpreadOut(S), NEW r \in Ranks, NEW n \in Nat, DOMAIN S[r] = 1 .. n,
           NEW u, OuterReached(n, S[r], n, u)
    PROVE  Stage(S, r, {}, u.bodies)
<1> DEFINE b == S[r]
           w == u.bodies
           D == 1 .. n
<1>1. /\ Merged(D, b, w) /\ b \in [D -> BodyRecords] /\ w \in [D -> BodyRecords]
      /\ \A i \in D, j \in D : Settled(b, w, i, j)
    BY DEF OuterReached, Counted, Merged
<1>2. Alive(w) \subseteq D /\ Alive(b) \subseteq D /\ DOMAIN b = D
    BY <1>1 DEF Alive
<1> HIDE DEF b, w, D
<1>3. ASSUME NEW i \in D
      PROVE  w[i].position = b[i].position
  <2>1. CASE w[i] = b[i]
      BY <2>1
  <2>2. CASE \E j \in D : HasAbsorbed(b, w, i, j) \/ HasAbsorbed(b, w, j, i)
      BY <2>2 DEF HasAbsorbed
  <2> QED
    BY <1>1, <2>1, <2>2 DEF Merged
<1>4. ASSUME NEW i \in Alive(w)
      PROVE  i \in Alive(b) /\ Bounded(S, r, i, w[i].radius)
  <2>1. i \in D
      BY <1>2
  <2>2. i \in Alive(b) /\ \E m \in Alive(b) :
           /\ CheckCollision(b[i], b[m]) /\ CheckCollision(b[m], b[i])
           /\ w[i].radius <= b[i].radius + b[m].radius
           /\ \/ m = i /\ w[i] = b[i]
              \/ m # i /\ (HasAbsorbed(b, w, i, m) \/ HasAbsorbed(b, w, m, i))
      BY <1>1, <2>1, Partner
  <2>3. PICK m \in Alive(b) :
           /\ CheckCollision(b[i], b[m])
           /\ w[i].radius <= b[i].radius + b[m].radius
           /\ m = i => w[i] = b[i]
      BY <2>2
  <2>4. CASE m = i
    <3>1. b[i].radius \in Nat
        BY <1>1, <2>1 DEF BodyRecords
    <3> QED
      BY <2>2, <2>3, <2>4, <3>1 DEF Bounded, b
  <2>5. CASE m # i
    <3>1. Partners(S, r, i, r, m) /\ m \in DOMAIN S[r]
        BY <1>2, <2>2, <2>3, <2>5 DEF Partners, b
    <3> QED
      BY <2>2, <2>3, <3>1 DEF Bounded, b
  <2> QED
    BY <2>4, <2>5
<1>5. ASSUME NEW i \in D, NEW q \in Ranks \ {r}, NEW j \in DOMAIN S[q], Partners(S, r, i, q, j)
      PROVE  Like(w[i], S[r][i])
  <2>1. ASSUME NEW k \in D, HasAbsorbed(b, w, i, k) \/ HasAbsorbed(b, w, k, i)
        PROVE  FALSE
    <3>1. /\ i \in Alive(b) /\ k \in Alive(b) /\ i # k
          /\ CheckCollision(b[i], b[k]) \/ CheckCollision(b[k], b[i])
        BY <2>1 DEF HasAbsorbed
    <3>2. CheckCollision(b[i], b[k])
        BY <1>1, <2>1, <3>1, CollisionSymmetric
    <3>3. Partners(S, r, i, r, k)
        BY <3>1, <3>2 DEF Partners, b
    <3> QED
      BY <1>5, <3>3, OneAcross
  <2>2. w[i] = b[i]
      BY <1>1, <2>1 DEF Merged
  <2> QED
    BY <2>2 DEF Like, b
<1>6. Stage(S, r, {}, w)
  <2>1. \A i, j \in Alive(w) : Settled(S[r], w, i, j)
      BY <1>1, <1>2 DEF b
  <2>2. w \in [DOMAIN S[r] -> BodyRecords] /\ DOMAIN S[r] = D
      BY <1>1, <1>2 DEF b
  <2> QED
    BY <1>3, <1>4, <1>5, <2>1, <2>2 DEF Stage, b
<1> QED
    BY <1>6 DEF w

(* What a process hands over of its bodies wt.                             *)
CollisionRecords == [from : Ranks \X Nat, mass : Int, radius : Nat \ {0},
                     position : Int, velocity : Int]
SameBody(c, b) == c.mass = b.mass /\ c.radius = b.radius /\ c.position = b.position
Lists(wt, data) ==
    /\ data \in Seq(CollisionRecords)
    /\ \A k \in DOMAIN data : \E j \in Alive(wt) : SameBody(data[k], wt[j])
    /\ \A j \in Alive(wt) : \E k \in DOMAIN data : SameBody(data[k], wt[j])

Touching(body, data) == {k \in DOMAIN data : CheckCollision(body, data[k])}

(* The first of the bodies that touch is one of them.                    *)
LEMMA FirstTouching ==
    ASSUME NEW T, NEW data \in Seq(T), NEW body, Touching(body, data) # {}
    PROVE  Min(Touching(body, data)) \in Touching(body, data)
<1> DEFINE S == Touching(body, data)
<1>1. S \subseteq Nat
  <2>1. DOMAIN data = 1 .. Len(data)
      OBVIOUS
  <2> QED
    BY <2>1 DEF Touching
<1> HIDE DEF S
<1>2. PICK k \in S : \A j \in S : ~(j < k)
    BY <1>1, NoLeast DEF S
<1>3. k \in S /\ \A j \in S : k <= j
    BY <1>1, <1>2
<1>4. Min(S) \in S
    BY <1>3 DEF Min
<1> QED
    BY <1>4 DEF S

(* One body meets those of another process, which has given it what it has *)
(* left of them.                                                           *)
LEMMA CollideOne ==
    ASSUME NEW S, SpreadOut(S), NEW r \in Ranks, NEW t \in Ranks, r # t,
           NEW w, Stage(S, r, Lower(t), w), NEW wt, Stage(S, t, Lower(t), wt),
           NEW data, Lists(wt, data), NEW i \in DOMAIN S[r],
           NEW c, c = CollideBody(w[i], data, r, t)
    PROVE  /\ c \in BodyRecords /\ c.position = w[i].position
           /\ IsActive(c) => IsActive(w[i]) /\ Bounded(S, r, i, c.radius)
           /\ \A j \in DOMAIN S[t] :
                 Partners(S, r, i, t, j) => Outcome(c, S[r][i], S[t][j], t < r)
           /\ (\A j \in DOMAIN S[t] : ~Partners(S, r, i, t, j)) => c = w[i]
<1> DEFINE a == w[i]
           T == Touching(a, data)
<1>1. /\ a \in BodyRecords /\ a.position = S[r][i].position /\ S[r][i] \in BodyRecords
      /\ i \in Alive(w) <=> IsActive(a)
      /\ IsActive(a) => i \in Alive(S[r]) /\ Bounded(S, r, i, a.radius)
    BY DEF Stage, SpreadOut, Alive
<1>2. \A j \in DOMAIN S[t] : S[t][j] \in BodyRecords /\ wt[j] \in BodyRecords
    BY DEF Stage, SpreadOut
<1>3. r \in Int /\ t \in Int /\ (r \in Lower(t) <=> r < t)
    BY NBodyAssumption DEF Ranks, Lower
<1>4. t \notin Lower(t)
    BY <1>3 DEF Lower
<1>5. ASSUME NEW j \in DOMAIN S[t], Partners(S, r, i, t, j)
      PROVE  /\ a.mass = S[r][i].mass /\ a.radius = S[r][i].radius /\ IsActive(a)
             /\ S[t][j].mass > 0 /\ S[t][j].mass \in Int /\ S[r][i].mass \in Int
             /\ S[t][j].radius \in Nat \ {0} /\ S[r][i].radius \in Nat \ {0}
             /\ S[r][i].mass > 0
  <2>1. Like(a, S[r][i])
      BY <1>4, <1>5 DEF Stage
  <2>2. S[r][i].mass > 0 /\ S[t][j].mass > 0
      BY <1>5 DEF Partners, Alive, IsActive
  <2> QED
    BY <1>1, <1>2, <2>1, <2>2 DEF Like, IsActive, BodyRecords
<1>6. CASE ~IsActive(a)
  <2>1. c = a
      BY <1>6 DEF CollideBody
  <2>2. \A j \in DOMAIN S[t] : ~Partners(S, r, i, t, j)
      BY <1>5, <1>6
  <2> QED
    BY <1>1, <1>6, <2>1, <2>2
<1>7. CASE IsActive(a) /\ T = {}
  <2>1. c = a
      BY <1>7 DEF CollideBody, Touching
  <2>2. ASSUME NEW j \in DOMAIN S[t], Partners(S, r, i, t, j)
        PROVE  Outcome(c, S[r][i], S[t][j], t < r)
    <3>1. ~(j \in Alive(wt) /\ S[t][j].radius <= wt[j].radius)
      <4> SUFFICES ASSUME j \in Alive(wt), S[t][j].radius <= wt[j].radius PROVE FALSE
          OBVIOUS
      <4>1. PICK k \in DOMAIN data : SameBody(data[k], wt[j])
          BY DEF Lists
      <4>2. wt[j].position = S[t][j].position
          BY DEF Stage
      <4>3. /\ data[k].position = S[t][j].position /\ S[t][j].radius <= data[k].radius
            /\ data[k].radius \in Nat
          BY <1>2, <4>1, <4>2 DEF SameBody, BodyRecords
      <4>4. Distance(S[r][i].position, S[t][j].position) < S[r][i].radius + S[t][j].radius
          BY <2>2 DEF Partners, CheckCollision
      <4>5. Distance(S[r][i].position, S[t][j].position) \in Nat
          BY <1>1, <1>2, CollisionSymmetric
      <4>6. Distance(a.position, data[k].position) < a.radius + data[k].radius
          BY <1>1, <1>5, <2>2, <4>3, <4>4, <4>5
      <4> QED
        BY <1>7, <4>6 DEF CheckCollision, Touching
    <3>2. Partners(S, t, j, r, i)
        BY <2>2, PartnersSymmetric
    <3>3. CASE r < t
      <4>1. Outcome(wt[j], S[t][j], S[r][i], TRUE)
          BY <1>3, <3>2, <3>3 DEF Stage
      <4>2. ~CanAbsorb(S[t][j], S[r][i])
        <5> SUFFICES ASSUME CanAbsorb(S[t][j], S[r][i]) PROVE FALSE
            OBVIOUS
        <5>1. Grown(wt[j], S[t][j], S[r][i])
            BY <4>1 DEF Outcome
        <5>2. wt[j].mass > 0 /\ S[t][j].radius <= wt[j].radius
            BY <1>5, <2>2, <5>1 DEF Grown
        <5>3. j \in Alive(wt)
            BY <5>2 DEF Alive, IsActive, Stage
        <5> QED
          BY <3>1, <5>2, <5>3
      <4>3. ~(t < r)
          BY <1>3, <3>3
      <4> QED
        BY <1>5, <2>1, <2>2, <4>2, <4>3 DEF Outcome, Like
    <3>4. CASE ~(r < t)
      <4>1. Like(wt[j], S[t][j])
          BY <1>3, <3>2, <3>4 DEF Stage
      <4>2. wt[j].mass > 0 /\ S[t][j].radius <= wt[j].radius
          BY <1>5, <2>2, <4>1 DEF Like
      <4>3. j \in Alive(wt)
          BY <4>2 DEF Alive, IsActive, Stage
      <4> QED
        BY <3>1, <4>2, <4>3
    <3> QED
      BY <3>3, <3>4
  <2> QED
    BY <1>1, <2>1, <2>2
<1>8. CASE IsActive(a) /\ T # {}
  <2> DEFINE k == Min(T)
             o == data[k]
  <2>1. k \in DOMAIN data /\ CheckCollision(a, o) /\ o \in CollisionRecords
    <3>1. data \in Seq(CollisionRecords)
        BY DEF Lists
    <3>2. k \in T
        BY <1>8, <3>1, FirstTouching
    <3> QED
      BY <3>1, <3>2 DEF Touching
  <2>2. c = IF a.mass = o.mass /\ r < t THEN Deactivate(a)
            ELSE IF CanAbsorb(a, o) THEN Absorb(a, o)
            ELSE Deactivate(a)
      BY <1>8 DEF CollideBody, Touching
  <2> HIDE DEF k
  <2>3. PICK j \in Alive(wt) : SameBody(o, wt[j])
      BY <2>1 DEF Lists
  <2>4. /\ j \in Alive(S[t]) /\ j \in DOMAIN S[t] /\ Bounded(S, t, j, o.radius)
        /\ o.position = S[t][j].position
      BY <2>3 DEF Stage, SameBody, Alive
  <2>5. /\ o.mass \in Int /\ o.radius \in Nat \ {0} /\ o.velocity \in Int /\ o.radius \in Nat
        /\ a.mass \in Int /\ a.radius \in Nat \ {0} /\ a.radius \in Nat
      BY <1>1, <2>1 DEF CollisionRecords, BodyRecords
  <2> HIDE DEF o, T, a
  <2>6. Partners(S, r, i, t, j)
    <3>1. <<r, i>> # <<t, j>>
        OBVIOUS
    <3> QED
      BY <1>1, <1>8, <2>1, <2>4, <2>5, <3>1, MeetAcross
  <2>7. /\ a.mass = S[r][i].mass /\ a.radius = S[r][i].radius
        /\ S[t][j].mass > 0 /\ S[t][j].mass \in Int /\ S[r][i].mass \in Int
        /\ S[t][j].radius \in Nat \ {0} /\ S[r][i].radius \in Nat \ {0}
        /\ S[r][i].mass > 0
      BY <1>5, <2>4, <2>6
  <2>8. Partners(S, t, j, r, i)
      BY <2>6, PartnersSymmetric
  <2>9. \A l \in DOMAIN S[t] : Partners(S, r, i, t, l) => l = j
      BY <2>6, OneAcross
  <2>10. /\ Deactivate(a) \in BodyRecords /\ Deactivate(a).position = a.position
         /\ ~IsActive(Deactivate(a))
    <3>1. Deactivate(a).mass = -a.mass
        BY <1>1, DeactivateType
    <3> QED
      BY <1>1, <2>7, <3>1, DeactivateType DEF IsActive
  <2>11. CASE t < r
    <3>1. Like(wt[j], S[t][j])
        BY <1>3, <2>4, <2>8, <2>11 DEF Stage
    <3>2. o.mass = S[t][j].mass /\ o.radius = S[t][j].radius
        BY <2>3, <3>1 DEF Like, SameBody
    <3>3. ~(r < t) /\ (CanAbsorb(a, o) <=> CanAbsorb(S[r][i], S[t][j]))
        BY <1>3, <2>7, <2>11, <3>2 DEF CanAbsorb
    <3>4. CASE CanAbsorb(a, o)
      <4>1. c = Absorb(a, o)
          BY <2>2, <3>3, <3>4
      <4>2. /\ c \in BodyRecords /\ c.mass = a.mass + o.mass /\ c.position = a.position
            /\ a.radius <= c.radius /\ c.radius <= a.radius + o.radius
          BY <1>1, <2>5, <4>1, AbsorbType
      <4>3. Grown(c, S[r][i], S[t][j]) /\ Bounded(S, r, i, c.radius)
          BY <2>4, <2>6, <2>7, <3>2, <4>2 DEF Grown, Bounded
      <4>4. Outcome(c, S[r][i], S[t][j], t < r)
          BY <2>11, <3>3, <3>4, <4>3 DEF Outcome
      <4> QED
        BY <1>8, <2>4, <2>6, <2>9, <4>2, <4>3, <4>4 DEF a
    <3>5. CASE ~CanAbsorb(a, o)
      <4>1. c = Deactivate(a)
          BY <2>2, <3>3, <3>5
      <4>2. Outcome(c, S[r][i], S[t][j], t < r)
          BY <2>10, <2>11, <3>3, <3>5, <4>1 DEF Outcome
      <4> QED
        BY <2>4, <2>6, <2>9, <2>10, <4>1, <4>2 DEF a
    <3> QED
      BY <3>4, <3>5
  <2>12. CASE ~(t < r)
    <3>1. r < t
        BY <1>3, <2>12
    <3>2. Outcome(wt[j], S[t][j], S[r][i], TRUE)
        BY <1>3, <2>4, <2>8, <3>1 DEF Stage
    <3>3. IsActive(wt[j])
        BY <2>3 DEF Alive
    <3>4. CanAbsorb(S[t][j], S[r][i]) /\ Grown(wt[j], S[t][j], S[r][i])
        BY <3>2, <3>3 DEF Outcome
    <3>5. o.mass = S[t][j].mass + S[r][i].mass
        BY <2>3, <3>4 DEF Grown, SameBody
    <3>6. ~CanAbsorb(a, o)
        BY <2>5, <2>7, <3>5 DEF CanAbsorb
    <3>7. c = Deactivate(a)
        BY <2>2, <3>6
    <3>8. Outcome(c, S[r][i], S[t][j], t < r)
        BY <2>10, <2>12, <3>4, <3>7 DEF Outcome
    <3> QED
      BY <2>4, <2>6, <2>9, <2>10, <3>7, <3>8 DEF a
  <2> QED
    BY <2>11, <2>12
<1> QED
    BY <1>6, <1>7, <1>8

(* Universe::checkCollisions() with the bodies of another process.         *)
LEMMA RemoteStage ==
    ASSUME NEW S, SpreadOut(S), NEW r \in Ranks, NEW t \in Ranks, r # t,
           NEW n \in Nat, DOMAIN S[r] = 1 .. n,
           NEW u, Stage(S, r, Lower(t), u.bodies), u.active = Cardinality(Alive(u.bodies)),
           NEW wt, Stage(S, t, Lower(t), wt), NEW data, Lists(wt, data),
           NEW v, v = CheckRemoteCollisions(u, data, r, t)
    PROVE  /\ Stage(S, r, Lower(t) \cup {t}, v.bodies)
           /\ v.active = Cardinality(Alive(v.bodies))
<1> DEFINE w == u.bodies
           after == [i \in DOMAIN w |-> CollideBody(w[i], data, r, t)]
           lost == {i \in DOMAIN after : IsActive(w[i]) /\ ~IsActive(after[i])}
<1>1. v = [bodies |-> after, active |-> u.active - Cardinality(lost)]
    BY DEF CheckRemoteCollisions
<1>2. v.bodies = after /\ v.active = u.active - Cardinality(lost)
  <2>1. \A x, y : [bodies |-> x, active |-> y].bodies = x /\ [bodies |-> x, active |-> y].active = y
      OBVIOUS
  <2> QED
    BY <1>1, <2>1, Zenon
<1>3. DOMAIN w = DOMAIN S[r] /\ DOMAIN after = DOMAIN S[r]
    BY DEF Stage
<1>4. \A i \in DOMAIN S[r] : after[i] = CollideBody(w[i], data, r, t)
    BY <1>3
<1>5. lost = Alive(w) \ Alive(after)
    BY <1>3 DEF Alive
<1> HIDE DEF after, lost, w
<1>6. ASSUME NEW i \in DOMAIN S[r]
      PROVE  /\ after[i] \in BodyRecords /\ after[i].position = w[i].position
             /\ IsActive(after[i]) => IsActive(w[i]) /\ Bounded(S, r, i, after[i].radius)
             /\ \A j \in DOMAIN S[t] :
                   Partners(S, r, i, t, j) => Outcome(after[i], S[r][i], S[t][j], t < r)
             /\ (\A j \in DOMAIN S[t] : ~Partners(S, r, i, t, j)) => after[i] = w[i]
  <2> DEFINE c == after[i]
  <2>1. c = CollideBody(w[i], data, r, t)
      BY <1>4
  <2> HIDE DEF c
  <2>2. Stage(S, r, Lower(t), w)
      BY DEF w
  <2>3. /\ c \in BodyRecords /\ c.position = w[i].position
        /\ IsActive(c) => IsActive(w[i]) /\ Bounded(S, r, i, c.radius)
        /\ \A j \in DOMAIN S[t] :
              Partners(S, r, i, t, j) => Outcome(c, S[r][i], S[t][j], t < r)
        /\ (\A j \in DOMAIN S[t] : ~Partners(S, r, i, t, j)) => c = w[i]
      BY <2>1, <2>2, CollideOne
  <2> QED
    BY <2>3 DEF c
<1>7. Stage(S, r, Lower(t), w)
    BY DEF w
<1>8. Alive(after) \subseteq Alive(w) /\ Alive(w) \subseteq DOMAIN S[r]
    BY <1>3, <1>6 DEF Alive
<1>9. after \in [DOMAIN S[r] -> BodyRecords]
    BY <1>3, <1>6 DEF after
<1>10. ASSUME NEW i \in Alive(after)
       PROVE  i \in Alive(S[r]) /\ Bounded(S, r, i, after[i].radius)
  <2>1. i \in Alive(w) /\ i \in DOMAIN S[r] /\ IsActive(after[i])
      BY <1>8 DEF Alive
  <2> QED
    BY <1>6, <1>7, <2>1 DEF Stage
<1>11. ASSUME NEW i \in Alive(after), NEW j \in Alive(after)
       PROVE  Settled(S[r], after, i, j)
  <2>1. Settled(S[r], w, i, j) /\ i \in Alive(w) /\ j \in Alive(w)
      BY <1>7, <1>8 DEF Stage
  <2> QED
    BY <2>1 DEF Settled
<1>12. ASSUME NEW i \in DOMAIN S[r], NEW q \in Ranks \ {r}, NEW j \in DOMAIN S[q],
              Partners(S, r, i, q, j)
       PROVE  IF q \in Lower(t) \cup {t} THEN Outcome(after[i], S[r][i], S[q][j], q < r)
              ELSE Like(after[i], S[r][i])
  <2>1. CASE q = t
      BY <1>6, <1>12, <2>1
  <2>2. CASE q # t
    <3>1. \A k \in DOMAIN S[t] : ~Partners(S, r, i, t, k)
        BY <1>12, <2>2, OneAcross
    <3>2. after[i] = w[i]
        BY <1>6, <3>1
    <3>3. IF q \in Lower(t) THEN Outcome(w[i], S[r][i], S[q][j], q < r) ELSE Like(w[i], S[r][i])
        BY <1>7, <1>12 DEF Stage
    <3> QED
      BY <2>2, <3>2, <3>3
  <2> QED
    BY <2>1, <2>2
<1>13. \A i \in DOMAIN S[r] : after[i].position = S[r][i].position
    BY <1>6, <1>7 DEF Stage
<1>14. Stage(S, r, Lower(t) \cup {t}, after)
    BY <1>9, <1>10, <1>11, <1>12, <1>13 DEF Stage
<1>15. u.active - Cardinality(lost) = Cardinality(Alive(after))
  <2> DEFINE A == Alive(w)
             B == Alive(after)
  <2>1. IsFiniteSet(A) /\ B \subseteq A /\ IsFiniteSet(B)
    <3>1. A \subseteq 1 .. n /\ B \subseteq 1 .. n
        BY <1>8
    <3> HIDE DEF A, B
    <3>2. IsFiniteSet(A) /\ IsFiniteSet(B)
        BY <3>1, PartIsFinite
    <3> QED
      BY <1>8, <3>2 DEF A, B
  <2>2. lost = A \ B /\ u.active = Cardinality(A)
      BY <1>5 DEF w
  <2> HIDE DEF A, B
  <2>3. Cardinality(A \ B) = Cardinality(A) - Cardinality(A \cap B)
      BY <2>1, FS_Difference
  <2>4. A \cap B = B /\ Cardinality(A) \in Nat /\ Cardinality(B) \in Nat
      BY <2>1, FS_CardinalityType
  <2>5. u.active - Cardinality(lost) = Cardinality(B)
    <3> DEFINE a == Cardinality(A)
               e == Cardinality(B)
               l == Cardinality(lost)
    <3>1. a \in Nat /\ e \in Nat /\ u.active = a
        BY <2>2, <2>4
    <3>2. Cardinality(A \cap B) = e
        BY <2>4
    <3>3. l = a - e
        BY <2>2, <2>3, <3>2
    <3> HIDE DEF a, e, l
    <3>4. a - l = e
        BY <3>1, <3>3
    <3> QED
      BY <3>1, <3>4 DEF e, l
  <2> QED
    BY <2>5 DEF B
<1> QED
  <2>1. v.active = Cardinality(Alive(v.bodies))
      BY <1>2, <1>15
  <2> QED
    BY <1>2, <1>14, <2>1

---------------------------------------------------------------------------
(* What pulls a body *)

(* A fold of updateAcceleration().                                         *)
LEMMA PullFold ==
    ASSUME NEW n \in Nat, NEW body, NEW others, DOMAIN others = 1 .. n
    PROVE  \E h : IsFold("pull", 0, body, others, n, h) /\ PulledBy(body, others) = h[1 .. n]
<1> DEFINE P(g) == g = [s \in SUBSET (1 .. n) |->
                          IF s = {} THEN body
                          ELSE LET x == Max(s) IN UpdateAcceleration(g[s \ {x}], others[x])]
           h == CHOOSE g : P(g)
<1>1. PulledBy(body, others) = h[1 .. n]
    BY DEF PulledBy, FoldLeft, MapThenFoldSet
<1>2. \A g : P(g) <=> IsFold("pull", 0, body, others, n, g)
  <2>1. \A g, s : FoldStep("pull", 0, body, others, g, s)
                    = IF s = {} THEN body
                      ELSE LET x == Max(s) IN UpdateAcceleration(g[s \ {x}], others[x])
      BY DEF FoldStep, Applied
  <2> QED
    BY <2>1 DEF IsFold
<1>3. IsFold("pull", 0, body, others, n, h)
  <2>1. PICK g : IsFold("pull", 0, body, others, n, g)
      BY FoldExists
  <2>2. \E a : P(a)
      BY <1>2, <2>1
  <2>3. P(CHOOSE a : P(a))
    <3> HIDE DEF P
    <3> QED
      BY <2>2
  <2> HIDE DEF P
  <2> QED
      BY <1>2, <2>3
<1> HIDE DEF h
<1> QED
    BY <1>1, <1>3

PullRecords == [from : Ranks \X Nat, mass : Int, position : Int]

(* A body after so many of the others have pulled it.                      *)
PulledUpTo(body, others, k, c) ==
    /\ c \in BodyRecords /\ c.mass = body.mass /\ c.radius = body.radius
    /\ c.position = body.position /\ Len(c.acceleration) = Len(body.acceleration) + k
    /\ \A j \in 1 .. Len(body.acceleration) : c.acceleration[j] = body.acceleration[j]
    /\ \A j \in 1 .. k : c.acceleration[Len(body.acceleration) + j].from = others[j].from

(* What another body adds to an acceleration is a number.                *)
LEMMA PullType ==
    ASSUME NEW p \in Int, NEW other \in PullRecords, p # other.position
    PROVE  Pull(p, other) \in Int
<1> DEFINE d == Distance(p, other.position)
           s == other.mass \div (d * d)
<1>1. other.mass \in Int /\ other.position \in Int
    BY DEF PullRecords
<1>2. d \in Nat \ {0}
    BY <1>1 DEF Distance
<1>3. Pull(p, other) = IF p < other.position THEN s ELSE -s
    BY DEF Pull
<1> HIDE DEF d
<1>4. d * d \in Nat \ {0}
    BY <1>2
<1> DEFINE e == d * d
<1>5. e \in Nat \ {0} /\ s = other.mass \div e
    BY <1>4
<1> HIDE DEF e
<1>6. s \in Int
    BY <1>1, <1>5
<1> HIDE DEF s
<1> QED
    BY <1>3, <1>6

(* One more body adds one term to the acceleration.                      *)
LEMMA PullStep ==
    ASSUME NEW body \in BodyRecords, NEW others, NEW k \in Nat, NEW c,
           PulledUpTo(body, others, k, c), others[k + 1] \in PullRecords,
           others[k + 1].position # body.position
    PROVE  PulledUpTo(body, others, k + 1, UpdateAcceleration(c, others[k + 1]))
<1> DEFINE o == others[k + 1]
           term == [from |-> o.from, pull |-> Pull(c.position, o)]
           a == c.acceleration
           l == Len(body.acceleration)
<1>1. /\ c \in BodyRecords /\ a \in Seq(Terms) /\ c.position \in Int /\ c.position # o.position
      /\ l \in Nat /\ Len(a) = l + k
    BY DEF PulledUpTo, BodyRecords
<1>2. term \in Terms /\ term.from = o.from
  <2>1. Pull(c.position, o) \in Int
      BY <1>1, PullType
  <2>2. o.from \in Ranks \X Nat
      BY DEF PullRecords
  <2> HIDE DEF o
  <2> QED
    BY <2>1, <2>2 DEF Terms
<1>3. UpdateAcceleration(c, o) = [c EXCEPT !.acceleration = Append(a, term)]
    BY <1>1 DEF UpdateAcceleration
<1> DEFINE more == Append(a, term)
<1>4. /\ more \in Seq(Terms) /\ Len(more) = l + k + 1 /\ more[l + k + 1] = term
      /\ \A j \in 1 .. l + k : more[j] = a[j]
  <2> HIDE DEF a, term, l
  <2> QED
    BY <1>1, <1>2
<1> HIDE DEF more, a, term, l
<1>5. /\ [c EXCEPT !.acceleration = more] \in BodyRecords
      /\ [c EXCEPT !.acceleration = more].mass = c.mass
      /\ [c EXCEPT !.acceleration = more].radius = c.radius
      /\ [c EXCEPT !.acceleration = more].position = c.position
      /\ [c EXCEPT !.acceleration = more].acceleration = more
    BY <1>1, <1>4 DEF BodyRecords
<1>6. \A j \in 1 .. l : more[j] = body.acceleration[j]
    BY <1>1, <1>4 DEF PulledUpTo, a, l
<1>7. ASSUME NEW j \in 1 .. k + 1
      PROVE  more[l + j].from = others[j].from
  <2>1. CASE j = k + 1
    <3>1. l + j = l + k + 1
        BY <1>1, <2>1
    <3> QED
      BY <1>2, <1>4, <2>1, <3>1
  <2>2. CASE j # k + 1
    <3>1. j \in 1 .. k /\ l + j \in 1 .. l + k
        BY <1>1, <2>2
    <3> QED
      BY <1>4, <3>1 DEF PulledUpTo, a, l
  <2> QED
    BY <2>1, <2>2
<1>8. Len(more) = l + (k + 1)
    BY <1>1, <1>4
<1> HIDE DEF o
<1>9. PulledUpTo(body, others, k + 1, [c EXCEPT !.acceleration = more])
    BY <1>5, <1>6, <1>7, <1>8 DEF PulledUpTo, l
<1> QED
    BY <1>3, <1>9 DEF more, o

(* After the whole list there is a term for each body in it, in order.   *)
LEMMA PulledByAll ==
    ASSUME NEW body \in BodyRecords, NEW others \in Seq(PullRecords),
           \A k \in DOMAIN others : others[k].position # body.position
    PROVE  PulledUpTo(body, others, Len(others), PulledBy(body, others))
<1> DEFINE n == Len(others)
<1>1. n \in Nat /\ DOMAIN others = 1 .. n /\ \A k \in 1 .. n : others[k] \in PullRecords
    OBVIOUS
<1> HIDE DEF n
<1>2. PICK h : IsFold("pull", 0, body, others, n, h) /\ PulledBy(body, others) = h[1 .. n]
    BY <1>1, PullFold
<1>3. /\ h[1 .. 0] = body
      /\ \A k \in 1 .. n : h[1 .. k] = UpdateAcceleration(h[1 .. k - 1], others[k])
  <2>1. /\ h[1 .. 0] = body
        /\ \A k \in 1 .. n : h[1 .. k] = Applied("pull", 0, h[1 .. k - 1], others[k])
      BY <1>1, <1>2, FoldPrefixes
  <2> QED
    BY <2>1 DEF Applied
<1>4. PulledUpTo(body, others, 0, h[1 .. 0])
  <2>1. Len(body.acceleration) \in Nat
      BY DEF BodyRecords
  <2> QED
    BY <1>3, <2>1 DEF PulledUpTo
<1> DEFINE Bad == {k \in 0 .. n : ~PulledUpTo(body, others, k, h[1 .. k])}
<1>5. ASSUME NEW k \in Bad
      PROVE  \E j \in Bad : j < k
  <2>1. k # 0
    <3> SUFFICES ASSUME k = 0 PROVE FALSE
        OBVIOUS
    <3> QED
      BY <1>4
  <2>2. k \in 1 .. n /\ k - 1 \in 0 .. n /\ k - 1 < k
      BY <1>1, <2>1
  <2>3. k - 1 \in Bad
    <3> DEFINE m == k - 1
               w == h[1 .. k - 1]
    <3>1. m \in Nat /\ m + 1 = k
        BY <1>1, <2>2
    <3>2. /\ others[k] \in PullRecords /\ others[k].position # body.position
          /\ h[1 .. k] = UpdateAcceleration(w, others[k])
        BY <1>1, <1>3, <2>2
    <3>3. ~PulledUpTo(body, others, k, h[1 .. k])
        OBVIOUS
    <3> HIDE DEF m, w
    <3>4. ~PulledUpTo(body, others, m, w)
        BY <3>1, <3>2, <3>3, PullStep
    <3> QED
      BY <2>2, <3>4 DEF m, w
  <2> QED
    BY <2>2, <2>3
<1>6. Bad = {}
  <2>1. Bad \subseteq Nat
      BY <1>1
  <2> HIDE DEF Bad
  <2> QED
    BY <1>5, <2>1, NoLeast
<1>7. n \in 0 .. n
    BY <1>1
<1> QED
    BY <1>2, <1>6, <1>7 DEF n

(* The bodies that have pulled a body.                                     *)
FromsOf(terms) == [k \in DOMAIN terms |-> terms[k].from]

(* Bodies that pulled for the first time join those that did, each once. *)
LEMMA PullsMore ==
    ASSUME NEW body \in BodyRecords, NEW others \in Seq(PullRecords), NEW A, NEW B,
           Enumerates(FromsOf(body.acceleration), A), Enumerates(FromsOf(others), B),
           A \cap B = {}, NEW c, PulledUpTo(body, others, Len(others), c)
    PROVE  Enumerates(FromsOf(c.acceleration), A \cup B)
<1> DEFINE s == FromsOf(body.acceleration)
           t == FromsOf(others)
           u == FromsOf(c.acceleration)
           m == Len(body.acceleration)
           n == Len(others)
<1>1. /\ m \in Nat /\ DOMAIN body.acceleration = 1 .. m /\ n \in Nat /\ DOMAIN others = 1 .. n
      /\ c.acceleration \in Seq(Terms) /\ Len(c.acceleration) = m + n
    BY DEF BodyRecords, PulledUpTo
<1>2. DOMAIN c.acceleration = 1 .. m + n
    BY <1>1
<1>3. /\ s = [k \in 1 .. m |-> body.acceleration[k].from]
      /\ t = [k \in 1 .. n |-> others[k].from]
      /\ u = [k \in 1 .. m + n |-> c.acceleration[k].from]
    BY <1>1, <1>2 DEF FromsOf
<1>4. s \in Seq(A) /\ t \in Seq(B)
    BY DEF Enumerates
<1>5. Len(s) = m /\ Len(t) = n
  <2>1. DOMAIN s = 1 .. m /\ DOMAIN t = 1 .. n
      BY <1>3
  <2> HIDE DEF s, t, m, n
  <2> QED
    BY <1>1, <1>4, <2>1
<1>6. /\ \A k \in 1 .. m : u[k] = s[k]
      /\ \A k \in 1 .. n : u[m + k] = t[k]
  <2>1. ASSUME NEW k \in 1 .. m
        PROVE  u[k] = s[k]
    <3>1. k \in 1 .. m + n
        BY <1>1
    <3>2. c.acceleration[k] = body.acceleration[k]
        BY DEF PulledUpTo
    <3> QED
      BY <1>3, <3>1, <3>2
  <2>2. ASSUME NEW k \in 1 .. n
        PROVE  u[m + k] = t[k]
    <3>1. m + k \in 1 .. m + n
        BY <1>1
    <3>2. c.acceleration[m + k].from = others[k].from
        BY DEF PulledUpTo
    <3> QED
      BY <1>3, <3>1, <3>2
  <2> QED
    BY <2>1, <2>2
<1>7. u = [k \in 1 .. m + n |-> u[k]]
    BY <1>3
<1>8. Enumerates(s, A) /\ Enumerates(t, B)
    OBVIOUS
<1> HIDE DEF s, t, u, m, n
<1> DEFINE U == A \cup B
           v == s \o t
<1>9. /\ v \in Seq(U) /\ Len(v) = m + n
      /\ \A k \in 1 .. m : v[k] = s[k]
      /\ \A k \in 1 .. n : v[m + k] = t[k]
  <2>1. s \in Seq(U) /\ t \in Seq(U)
      BY <1>4
  <2> HIDE DEF U
  <2>2. /\ v \in Seq(U) /\ Len(v) = Len(s) + Len(t)
        /\ \A k \in 1 .. Len(s) : v[k] = s[k]
        /\ \A k \in 1 .. Len(t) : v[Len(s) + k] = t[k]
      BY <2>1
  <2> HIDE DEF v
  <2> QED
    BY <1>5, <2>2
<1> HIDE DEF U, v
<1>11. \A k \in 1 .. m + n : u[k] = v[k]
  <2>1. ASSUME NEW k \in 1 .. m + n
        PROVE  u[k] = v[k]
    <3>1. CASE k <= m
      <4>1. k \in 1 .. m
          BY <1>1, <3>1
      <4> QED
        BY <1>6, <1>9, <4>1
    <3>2. CASE ~(k <= m)
      <4>1. PICK j \in 1 .. n : m + j = k
        <5>1. k - m \in 1 .. n /\ m + (k - m) = k
            BY <1>1, <3>2
        <5> QED
          BY <5>1
      <4> QED
        BY <1>6, <1>9, <4>1
    <3> QED
      BY <3>1, <3>2
  <2> QED
    BY <2>1
<1>12. u = v
  <2>1. v = [k \in 1 .. m + n |-> v[k]]
      BY <1>1, <1>9
  <2> QED
    BY <1>7, <1>11, <2>1
<1>10. Enumerates(s \o t, A \cup B)
    BY <1>8, JoinEnumerates
<1> QED
    BY <1>10, <1>12 DEF u, v

---------------------------------------------------------------------------
(* What processes hand over, and what they do with it *)

(* The active bodies of a process are those with a positive mass.        *)
LEMMA ActivesAlive ==
    ASSUME NEW r
    PROVE  Actives(r) = Alive(universe[r].bodies)
    BY DEF Actives, Indexes, Alive

(* The bodies of a process, in the order of a set of indexes.              *)
LEMMA OrderedBodies ==
    ASSUME NEW n \in Nat, NEW S, S \subseteq 1 .. n, NEW r
    PROVE  /\ Enumerates([k \in DOMAIN InOrder(S) |-> <<r, InOrder(S)[k]>>], BodiesOf(r, S))
           /\ InOrder(S) \in Seq(S) /\ Len(InOrder(S)) \in Nat
           /\ DOMAIN InOrder(S) = 1 .. Len(InOrder(S))
<1> DEFINE o == InOrder(S)
           m == Len(o)
           s == [k \in DOMAIN o |-> <<r, o[k]>>]
<1>1. Enumerates(o, S)
    BY OrderEnumerates
<1> HIDE DEF o
<1>2. o \in Seq(S) /\ m \in Nat /\ DOMAIN o = 1 .. m
    BY <1>1 DEF Enumerates
<1>3. s = [k \in 1 .. m |-> <<r, o[k]>>]
    BY <1>2
<1> HIDE DEF m, s
<1>4. s \in Seq(BodiesOf(r, S)) /\ Len(s) = m /\ \A k \in 1 .. m : s[k] = <<r, o[k]>>
  <2>1. \A k \in 1 .. m : o[k] \in S
      BY <1>2 DEF m
  <2>2. \A k \in 1 .. m : <<r, o[k]>> \in BodiesOf(r, S)
      BY <2>1 DEF BodiesOf
  <2>3. s \in [1 .. m -> BodiesOf(r, S)]
      BY <1>3, <2>2
  <2> QED
    BY <1>2, <1>3, <2>3
<1>5. \A x \in BodiesOf(r, S) : \E k \in 1 .. m : s[k] = x
  <2> SUFFICES ASSUME NEW i \in S PROVE \E k \in 1 .. m : s[k] = <<r, i>>
      BY DEF BodiesOf
  <2>1. PICK k \in 1 .. m : o[k] = i
      BY <1>1 DEF Enumerates, m
  <2> QED
    BY <1>4, <2>1
<1>6. \A j, k \in 1 .. m : s[j] = s[k] => j = k
  <2> SUFFICES ASSUME NEW j \in 1 .. m, NEW k \in 1 .. m, s[j] = s[k] PROVE j = k
      OBVIOUS
  <2>1. o[j] = o[k]
      BY <1>4
  <2> QED
    BY <1>1, <2>1 DEF Enumerates, m
<1>7. Enumerates(s, BodiesOf(r, S))
    BY <1>4, <1>5, <1>6 DEF Enumerates
<1> QED
    BY <1>2, <1>7 DEF s, o, m

(* What a process serializes is each of its active bodies, once.         *)
LEMMA SerializedBodies ==
    ASSUME NEW n \in Nat, NEW r \in Ranks, universe[r].bodies \in [1 .. n -> BodyRecords]
    PROVE  /\ Enumerates(Serialized(r), BodiesOf(r, Actives(r)))
           /\ Len(Serialized(r)) \in Nat /\ DOMAIN Serialized(r) = 1 .. Len(Serialized(r))
           /\ \A k \in DOMAIN Serialized(r) : \E j \in Actives(r) :
                 /\ Serialized(r)[k] = <<r, j>> /\ Serialized(r)[k] \in Ranks \X Nat
                 /\ BodyOf(Serialized(r)[k]) = universe[r].bodies[j]
                 /\ universe[r].bodies[j] \in BodyRecords
           /\ \A j \in Actives(r) : \E k \in DOMAIN Serialized(r) : Serialized(r)[k] = <<r, j>>
<1> DEFINE s == Serialized(r)
<1>1. Actives(r) \subseteq 1 .. n
    BY DEF Actives, Indexes
<1>2. /\ Enumerates(s, BodiesOf(r, Actives(r))) /\ Len(s) \in Nat /\ DOMAIN s = 1 .. Len(s)
    BY <1>1, SerializedEnumerates
<1> HIDE DEF s
<1>3. ASSUME NEW k \in DOMAIN s
      PROVE  \E j \in Actives(r) :
                 /\ s[k] = <<r, j>> /\ s[k] \in Ranks \X Nat
                 /\ BodyOf(s[k]) = universe[r].bodies[j]
                 /\ universe[r].bodies[j] \in BodyRecords
  <2>1. s[k] \in BodiesOf(r, Actives(r))
      BY <1>2 DEF Enumerates
  <2>2. PICK j \in Actives(r) : s[k] = <<r, j>>
      BY <2>1 DEF BodiesOf
  <2>3. j \in 1 .. n
      BY <1>1
  <2> QED
    BY <2>2, <2>3 DEF BodyOf
<1>4. ASSUME NEW j \in Actives(r)
      PROVE  \E k \in DOMAIN s : s[k] = <<r, j>>
  <2>1. <<r, j>> \in BodiesOf(r, Actives(r))
      BY DEF BodiesOf
  <2> QED
    BY <1>2, <2>1 DEF Enumerates
<1> QED
    BY <1>2, <1>3, <1>4 DEF s

(* serializeActiveBodies() before the collisions.                          *)
LEMMA CollisionsListed ==
    ASSUME NEW n \in Nat, NEW r \in Ranks, universe[r].bodies \in [1 .. n -> BodyRecords]
    PROVE  Lists(universe[r].bodies, CollisionDataOf(r))
<1> DEFINE s == Serialized(r)
           data == CollisionDataOf(r)
           b == universe[r].bodies
           l == Len(s)
<1>1. l \in Nat /\ DOMAIN s = 1 .. l
    BY SerializedBodies
<1>2. /\ \A k \in DOMAIN s : \E j \in Actives(r) :
            /\ s[k] \in Ranks \X Nat /\ BodyOf(s[k]) = b[j] /\ b[j] \in BodyRecords
      /\ \A j \in Actives(r) : \E k \in DOMAIN s : s[k] = <<r, j>>
    BY SerializedBodies
<1>3. data = [k \in 1 .. l |-> CollisionData(s[k])]
    BY <1>1 DEF CollisionDataOf
<1>4. \A j : BodyOf(<<r, j>>) = b[j]
    BY DEF BodyOf
<1> HIDE DEF s, l, data, b
<1>5. ASSUME NEW k \in 1 .. l
      PROVE  data[k] \in CollisionRecords /\ \E j \in Actives(r) : SameBody(data[k], b[j])
  <2>1. PICK j \in Actives(r) :
           s[k] \in Ranks \X Nat /\ BodyOf(s[k]) = b[j] /\ b[j] \in BodyRecords
      BY <1>1, <1>2
  <2>2. data[k] = [from |-> s[k], mass |-> b[j].mass, radius |-> b[j].radius,
                   position |-> b[j].position, velocity |-> b[j].velocity]
      BY <1>3, <2>1 DEF CollisionData
  <2>3. data[k] \in CollisionRecords /\ SameBody(data[k], b[j])
      BY <2>1, <2>2 DEF CollisionRecords, BodyRecords, SameBody
  <2> QED
    BY <2>3
<1>6. ASSUME NEW j \in Actives(r)
      PROVE  \E k \in 1 .. l : SameBody(data[k], b[j])
  <2>1. PICK k \in 1 .. l : s[k] = <<r, j>>
      BY <1>1, <1>2
  <2>2. data[k] = CollisionData(<<r, j>>) /\ BodyOf(<<r, j>>) = b[j]
      BY <1>3, <1>4, <2>1
  <2>3. SameBody(data[k], b[j])
      BY <2>2 DEF CollisionData, SameBody
  <2> QED
    BY <2>3
<1>7. data \in Seq(CollisionRecords) /\ DOMAIN data = 1 .. l
  <2>1. DOMAIN data = 1 .. l
      BY <1>3
  <2>2. data \in [1 .. l -> CollisionRecords]
      BY <1>3, <1>5, <2>1
  <2> QED
    BY <1>1, <2>1, <2>2
<1>8. Actives(r) = Alive(b)
    BY ActivesAlive DEF b
<1> QED
    BY <1>5, <1>6, <1>7, <1>8 DEF Lists, b, data

(* What a process hands over of its bodies wt, to be pulled by them.       *)
Pulls(q, wt, data) ==
    /\ data \in Seq(PullRecords)
    /\ \A k \in DOMAIN data : \E j \in Alive(wt) : data[k].position = wt[j].position
    /\ Enumerates(FromsOf(data), BodiesOf(q, Alive(wt)))

(* The acceleration data that a process hands over has its active bodies,*)
(* each once, as they are.                                               *)
LEMMA PullsListed ==
    ASSUME NEW n \in Nat, NEW r \in Ranks, universe[r].bodies \in [1 .. n -> BodyRecords]
    PROVE  Pulls(r, universe[r].bodies, AccelerationDataOf(r))
<1> DEFINE s == Serialized(r)
           data == AccelerationDataOf(r)
           b == universe[r].bodies
           l == Len(s)
<1>1. l \in Nat /\ DOMAIN s = 1 .. l /\ Enumerates(s, BodiesOf(r, Actives(r)))
    BY SerializedBodies
<1>2. \A k \in DOMAIN s : \E j \in Actives(r) :
         /\ s[k] \in Ranks \X Nat /\ BodyOf(s[k]) = b[j] /\ b[j] \in BodyRecords
    BY SerializedBodies
<1>3. data = [k \in 1 .. l |-> AccelerationData(s[k])]
    BY <1>1 DEF AccelerationDataOf
<1>4. s = [k \in 1 .. l |-> s[k]]
    BY <1>1 DEF Serialized
<1> HIDE DEF s, l, data, b
<1>5. ASSUME NEW k \in 1 .. l
      PROVE  /\ data[k] \in PullRecords /\ data[k].from = s[k]
             /\ \E j \in Actives(r) : data[k].position = b[j].position
  <2>1. PICK j \in Actives(r) :
           s[k] \in Ranks \X Nat /\ BodyOf(s[k]) = b[j] /\ b[j] \in BodyRecords
      BY <1>1, <1>2
  <2>2. data[k] = [from |-> s[k], mass |-> b[j].mass, position |-> b[j].position]
      BY <1>3, <2>1 DEF AccelerationData
  <2>3. data[k] \in PullRecords /\ data[k].position = b[j].position /\ data[k].from = s[k]
      BY <2>1, <2>2 DEF PullRecords, BodyRecords
  <2> QED
    BY <2>3
<1>6. data \in Seq(PullRecords) /\ DOMAIN data = 1 .. l
  <2>1. DOMAIN data = 1 .. l
      BY <1>3
  <2>2. data \in [1 .. l -> PullRecords]
      BY <1>3, <1>5, <2>1
  <2> QED
    BY <1>1, <2>1, <2>2
<1>7. FromsOf(data) = s
    BY <1>4, <1>5, <1>6 DEF FromsOf
<1>8. Actives(r) = Alive(b)
    BY ActivesAlive DEF b
<1> QED
    BY <1>1, <1>5, <1>6, <1>7, <1>8 DEF Pulls, b, data

(* Two bodies that are left after the collisions are not at one place.     *)
LEMMA LocallyApart ==
    ASSUME NEW S, SpreadOut(S), NEW r \in Ranks, NEW met, NEW w, Stage(S, r, met, w),
           NEW i \in Alive(w), NEW j \in Alive(w), i # j
    PROVE  w[i].position # w[j].position
<1>1. /\ i \in DOMAIN S[r] /\ j \in DOMAIN S[r]
      /\ w[i].position = S[r][i].position /\ w[j].position = S[r][j].position
      /\ Settled(S[r], w, i, j)
    BY DEF Stage, Alive
<1>2. ~CheckCollision(S[r][i], S[r][j])
    BY <1>1 DEF Settled
<1>3. S[r][i] \in BodyRecords /\ S[r][j] \in BodyRecords
    BY <1>1 DEF SpreadOut
<1> QED
    BY <1>1, <1>2, <1>3 DEF CheckCollision, Distance, BodyRecords

(* When all collisions are over, no two bodies of two processes are in   *)
(* the same place: no pull divides by 0.                                 *)
LEMMA Apart ==
    ASSUME NEW S, SpreadOut(S), NEW r \in Ranks, NEW t \in Ranks, r # t,
           NEW w, Stage(S, r, Ranks, w), NEW wt, Stage(S, t, Ranks, wt),
           NEW i \in Alive(w), NEW j \in Alive(wt)
    PROVE  w[i].position # wt[j].position
<1>1. /\ i \in Alive(S[r]) /\ w[i].position = S[r][i].position /\ i \in DOMAIN S[r]
      /\ j \in Alive(S[t]) /\ wt[j].position = S[t][j].position /\ j \in DOMAIN S[t]
    BY DEF Stage, Alive
<1>2. SUFFICES ASSUME S[r][i].position = S[t][j].position PROVE FALSE
    BY <1>1
<1>3. S[r][i] \in BodyRecords /\ S[t][j] \in BodyRecords
    BY <1>1 DEF SpreadOut
<1>4. CheckCollision(S[r][i], S[t][j])
  <2> DEFINE a == S[r][i]
             b == S[t][j]
  <2>1. /\ a.position = b.position /\ a.position \in Int
        /\ a.radius \in Nat \ {0} /\ b.radius \in Nat \ {0}
      BY <1>2, <1>3 DEF BodyRecords
  <2> HIDE DEF a, b
  <2>2. Distance(a.position, b.position) < a.radius + b.radius
      BY <2>1 DEF Distance
  <2> QED
    BY <2>2 DEF CheckCollision, a, b
<1>5. Partners(S, r, i, t, j)
    BY <1>1, <1>4 DEF Partners
<1>6. Partners(S, t, j, r, i)
    BY <1>5, PartnersSymmetric
<1>7. /\ Outcome(w[i], S[r][i], S[t][j], t < r) /\ IsActive(w[i])
      /\ Outcome(wt[j], S[t][j], S[r][i], r < t) /\ IsActive(wt[j])
    BY <1>1, <1>5, <1>6 DEF Stage, Alive
<1>8. r \in Int /\ t \in Int
    BY NBodyAssumption DEF Ranks
<1>9. (t < r /\ ~(r < t)) \/ (r < t /\ ~(t < r))
    BY <1>8
<1> QED
    BY <1>7, <1>9 DEF Outcome

---------------------------------------------------------------------------
(* Accelerations *)

(* Which bodies have pulled one that has met the bodies of some ranks.     *)
PullersOf(r, i, met) ==
    (BodiesOf(r, Actives(r)) \ {<<r, i>>}) \cup
        (UNION {BodiesOf(q, Actives(q)) : q \in met \ {r}})

(* Bodies that are as they were, but for what pulls them.                  *)
Alike(b, w) ==
    /\ DOMAIN w = DOMAIN b
    /\ \A i \in DOMAIN b :
          /\ w[i] \in BodyRecords /\ w[i].mass = b[i].mass
          /\ w[i].radius = b[i].radius /\ w[i].position = b[i].position

(* Accelerations do not matter to what collisions have made of the       *)
(* bodies.                                                               *)
LEMMA AlikeStage ==
    ASSUME NEW S, NEW r, NEW met, NEW b, NEW w, Alike(b, w), Stage(S, r, met, b),
           w = [i \in DOMAIN w |-> w[i]]
    PROVE  Stage(S, r, met, w) /\ Alive(w) = Alive(b)
<1>1. Alive(w) = Alive(b)
    BY DEF Alike, Alive, IsActive
<1>2. DOMAIN b = DOMAIN S[r]
    BY DEF Stage
<1>3. /\ w \in [DOMAIN S[r] -> BodyRecords]
      /\ \A i \in DOMAIN S[r] : w[i].position = S[r][i].position
    BY <1>2 DEF Alike, Stage
<1>4. \A i \in Alive(w) : i \in Alive(S[r]) /\ Bounded(S, r, i, w[i].radius)
  <2>1. \A i \in Alive(w) : w[i].radius = b[i].radius /\ i \in Alive(b)
      BY <1>1 DEF Alike, Alive
  <2> QED
    BY <2>1 DEF Stage
<1>5. \A i, j \in Alive(w) : Settled(S[r], w, i, j)
    BY <1>1 DEF Stage, Settled
<1>6. \A i \in DOMAIN S[r] : \A q \in Ranks \ {r} : \A j \in DOMAIN S[q] :
          Partners(S, r, i, q, j) =>
             IF q \in met THEN Outcome(w[i], S[r][i], S[q][j], q < r) ELSE Like(w[i], S[r][i])
  <2> SUFFICES ASSUME NEW i \in DOMAIN S[r], NEW q \in Ranks \ {r}, NEW j \in DOMAIN S[q],
                      Partners(S, r, i, q, j)
               PROVE  IF q \in met THEN Outcome(w[i], S[r][i], S[q][j], q < r)
                      ELSE Like(w[i], S[r][i])
      OBVIOUS
  <2>1. IF q \in met THEN Outcome(b[i], S[r][i], S[q][j], q < r) ELSE Like(b[i], S[r][i])
      BY DEF Stage
  <2>2. w[i].mass = b[i].mass /\ w[i].radius = b[i].radius
      BY <1>2 DEF Alike
  <2> QED
    BY <2>1, <2>2 DEF Outcome, Like, Grown, IsActive
<1> QED
    BY <1>1, <1>3, <1>4, <1>5, <1>6 DEF Stage

(* A body that others pull is the same, elsewhere.                         *)
LEMMA PulledAlike ==
    ASSUME NEW body, NEW others, NEW k, NEW c, PulledUpTo(body, others, k, c)
    PROVE  /\ c \in BodyRecords /\ c.mass = body.mass /\ c.radius = body.radius
           /\ c.position = body.position
    BY DEF PulledUpTo

(* addAcceleration() among the bodies of a process.                        *)
LEMMA LocalPulls ==
    ASSUME NEW S, SpreadOut(S), NEW r \in Ranks, NEW met, Stage(S, r, met, universe[r].bodies),
           NEW n \in Nat, Indexes(r) = 1 .. n, NEW w, w = LocallyPulled(r)
    PROVE  /\ Alike(universe[r].bodies, w) /\ w = [i \in DOMAIN w |-> w[i]]
           /\ \A i \in Actives(r) : Enumerates(FromsOf(w[i].acceleration), PullersOf(r, i, {}))
<1> DEFINE b == universe[r].bodies
<1>1. /\ DOMAIN b = 1 .. n /\ b \in [1 .. n -> BodyRecords] /\ Actives(r) \subseteq 1 .. n
      /\ Actives(r) = Alive(b)
    BY ActivesAlive DEF Stage, Indexes, Actives
<1>2. \A i : BodyOf(<<r, i>>) = b[i]
    BY DEF BodyOf
<1>3. /\ DOMAIN w = 1 .. n /\ w = [i \in DOMAIN w |-> w[i]]
      /\ \A i \in 1 .. n : w[i] = IF i \in Actives(r)
                                  THEN PulledBy(ResetAcceleration(b[i]), LocalOthers(r, i))
                                  ELSE b[i]
    BY <1>2 DEF LocallyPulled
<1>4. Stage(S, r, met, b)
    OBVIOUS
<1> HIDE DEF b
<1>5. ASSUME NEW i \in Actives(r)
      PROVE  /\ w[i] \in BodyRecords /\ w[i].mass = b[i].mass
             /\ w[i].radius = b[i].radius /\ w[i].position = b[i].position
             /\ Enumerates(FromsOf(w[i].acceleration), PullersOf(r, i, {}))
  <2> DEFINE T == Actives(r) \ {i}
             o == InOrder(T)
             others == LocalOthers(r, i)
             body == ResetAcceleration(b[i])
             m == Len(o)
  <2>1. T \subseteq 1 .. n
      BY <1>1
  <2>2. /\ Enumerates([k \in DOMAIN o |-> <<r, o[k]>>], BodiesOf(r, T))
        /\ o \in Seq(T) /\ m \in Nat /\ DOMAIN o = 1 .. m
    <3> HIDE DEF T
    <3> QED
      BY <2>1, OrderedBodies
  <2>3. others = [k \in DOMAIN o |-> AccelerationData(<<r, o[k]>>)]
      BY DEF LocalOthers
  <2>4. /\ b[i] \in BodyRecords /\ b[i].position \in Int
        /\ body = [b[i] EXCEPT !.acceleration = << >>]
      BY <1>1 DEF ResetAcceleration, BodyRecords
  <2>5. /\ body \in BodyRecords /\ body.mass = b[i].mass /\ body.radius = b[i].radius
        /\ body.position = b[i].position /\ body.acceleration = << >>
    <3>1. << >> \in Seq(Terms)
        OBVIOUS
    <3> HIDE DEF body
    <3> QED
      BY <2>4, <3>1 DEF BodyRecords
  <2> HIDE DEF body, others, o
  <2>6. ASSUME NEW k \in DOMAIN o
        PROVE  /\ others[k] \in PullRecords /\ others[k].position # body.position
               /\ others[k].from = <<r, o[k]>>
    <3>1. o[k] \in T /\ o[k] \in 1 .. n /\ o[k] \in Actives(r) /\ o[k] # i
        BY <1>1, <2>2
    <3>2. others[k] = [from |-> <<r, o[k]>>, mass |-> b[o[k]].mass, position |-> b[o[k]].position]
        BY <1>2, <2>3 DEF AccelerationData
    <3>3. b[o[k]] \in BodyRecords /\ <<r, o[k]>> \in Ranks \X Nat
        BY <1>1, <3>1
    <3>4. b[o[k]].position # b[i].position
        BY <1>1, <1>4, <3>1, LocallyApart
    <3>5. others[k] \in PullRecords /\ others[k].position = b[o[k]].position
          /\ others[k].from = <<r, o[k]>>
      <4> DEFINE c == b[o[k]]
                 x == <<r, o[k]>>
      <4>1. c \in BodyRecords /\ x \in Ranks \X Nat
            /\ others[k] = [from |-> x, mass |-> c.mass, position |-> c.position]
          BY <3>2, <3>3
      <4> HIDE DEF c, x
      <4>2. others[k] \in PullRecords /\ others[k].position = c.position /\ others[k].from = x
          BY <4>1 DEF BodyRecords, PullRecords
      <4> QED
        BY <4>2 DEF c, x
    <3> QED
      BY <2>5, <3>4, <3>5
  <2>7. DOMAIN others = 1 .. m /\ others \in Seq(PullRecords) /\ Len(others) = m
    <3>1. DOMAIN others = 1 .. m /\ others = [k \in 1 .. m |-> others[k]]
        BY <2>2, <2>3
    <3>2. \A k \in 1 .. m : others[k] \in PullRecords
        BY <2>2, <2>6
    <3> HIDE DEF m
    <3>3. others \in [1 .. m -> PullRecords] /\ m \in Nat
        BY <2>2, <3>1, <3>2 DEF m
    <3> QED
      BY <3>1, <3>3
  <2>8. FromsOf(others) = [k \in DOMAIN o |-> <<r, o[k]>>]
      BY <2>2, <2>6, <2>7 DEF FromsOf
  <2>9. w[i] = PulledBy(body, others)
      BY <1>1, <1>3 DEF body, others
  <2>10. PulledUpTo(body, others, Len(others), w[i])
    <3>1. \A k \in DOMAIN others : others[k].position # body.position
        BY <2>2, <2>6, <2>7
    <3> QED
      BY <2>5, <2>7, <2>9, <3>1, PulledByAll
  <2>11. Enumerates(FromsOf(body.acceleration), {})
    <3>1. FromsOf(<< >>) = << >>
        BY DEF FromsOf
    <3> QED
      BY <2>5, <3>1, NothingEnumerates
  <2>12. Enumerates(FromsOf(others), BodiesOf(r, T))
      BY <2>2, <2>8
  <2>13. Enumerates(FromsOf(w[i].acceleration), {} \cup BodiesOf(r, T))
    <3> DEFINE B == BodiesOf(r, T)
    <3>1. {} \cap B = {}
        OBVIOUS
    <3>2. Enumerates(FromsOf(others), B)
        BY <2>12
    <3> HIDE DEF B
    <3>3. Enumerates(FromsOf(w[i].acceleration), {} \cup B)
        BY <2>5, <2>7, <2>10, <2>11, <3>1, <3>2, PullsMore
    <3> QED
      BY <3>3 DEF B
  <2>14. {} \cup BodiesOf(r, T) = PullersOf(r, i, {})
      BY DEF BodiesOf, PullersOf
  <2> QED
    BY <2>5, <2>10, <2>13, <2>14, PulledAlike
<1>6. ASSUME NEW i \in 1 .. n
      PROVE  /\ w[i] \in BodyRecords /\ w[i].mass = b[i].mass
             /\ w[i].radius = b[i].radius /\ w[i].position = b[i].position
  <2>1. CASE i \in Actives(r)
      BY <1>5, <2>1
  <2>2. CASE i \notin Actives(r)
      BY <1>1, <1>3, <2>2
  <2> QED
    BY <2>1, <2>2
<1>7. Alike(b, w)
    BY <1>1, <1>3, <1>6 DEF Alike
<1> QED
    BY <1>3, <1>5, <1>7 DEF b

(* addAcceleration() with the bodies of another process.                   *)
LEMMA RemotePulls ==
    ASSUME NEW S, SpreadOut(S), NEW r \in Ranks, NEW t \in Ranks, r # t,
           Stage(S, r, Ranks, universe[r].bodies), NEW n \in Nat, Indexes(r) = 1 .. n,
           NEW wt, Stage(S, t, Ranks, wt), NEW data, Pulls(t, wt, data), Alive(wt) = Actives(t),
           NEW met, t \notin met,
           \A i \in Actives(r) :
              Enumerates(FromsOf(universe[r].bodies[i].acceleration), PullersOf(r, i, met)),
           NEW w, w = RemotelyPulled(r, data)
    PROVE  /\ Alike(universe[r].bodies, w) /\ w = [i \in DOMAIN w |-> w[i]]
           /\ \A i \in Actives(r) :
                 Enumerates(FromsOf(w[i].acceleration), PullersOf(r, i, met \cup {t}))
<1> DEFINE b == universe[r].bodies
           B == BodiesOf(t, Actives(t))
<1>1. /\ DOMAIN b = 1 .. n /\ b \in [1 .. n -> BodyRecords] /\ Actives(r) \subseteq 1 .. n
      /\ Actives(r) = Alive(b)
    BY ActivesAlive DEF Stage, Indexes, Actives
<1>2. \A i : BodyOf(<<r, i>>) = b[i]
    BY DEF BodyOf
<1>3. /\ DOMAIN w = 1 .. n /\ w = [i \in DOMAIN w |-> w[i]]
      /\ \A i \in 1 .. n : w[i] = IF i \in Actives(r) THEN PulledBy(b[i], data) ELSE b[i]
    BY <1>2 DEF RemotelyPulled
<1>4. /\ Stage(S, r, Ranks, b) /\ data \in Seq(PullRecords) /\ Enumerates(FromsOf(data), B)
      /\ \A i \in Actives(r) : Enumerates(FromsOf(b[i].acceleration), PullersOf(r, i, met))
    BY DEF Pulls
<1> HIDE DEF b
<1>5. ASSUME NEW i \in Actives(r)
      PROVE  /\ w[i] \in BodyRecords /\ w[i].mass = b[i].mass
             /\ w[i].radius = b[i].radius /\ w[i].position = b[i].position
             /\ Enumerates(FromsOf(w[i].acceleration), PullersOf(r, i, met \cup {t}))
  <2> DEFINE A == PullersOf(r, i, met)
  <2>1. i \in Alive(b) /\ i \in 1 .. n /\ b[i] \in BodyRecords
      BY <1>1
  <2>2. \A k \in DOMAIN data : data[k].position # b[i].position
    <3> SUFFICES ASSUME NEW k \in DOMAIN data PROVE data[k].position # b[i].position
        OBVIOUS
    <3>1. PICK j \in Alive(wt) : data[k].position = wt[j].position
        BY DEF Pulls
    <3>2. b[i].position # wt[j].position
        BY <1>4, <2>1, Apart
    <3> QED
      BY <3>1, <3>2
  <2>3. w[i] = PulledBy(b[i], data)
      BY <1>3, <2>1
  <2>4. PulledUpTo(b[i], data, Len(data), w[i])
      BY <1>4, <2>1, <2>2, <2>3, PulledByAll
  <2>5. A \cap B = {}
    <3>1. \A x \in A : x[1] = r \/ x[1] \in met
        BY DEF PullersOf, BodiesOf
    <3>2. \A x \in B : x[1] = t
        BY DEF BodiesOf
    <3> QED
      BY <3>1, <3>2
  <2>6. A \cup B = PullersOf(r, i, met \cup {t})
      BY DEF PullersOf
  <2>7. Enumerates(FromsOf(b[i].acceleration), A)
      BY <1>4
  <2> HIDE DEF A, B
  <2>8. Enumerates(FromsOf(w[i].acceleration), A \cup B)
      BY <1>4, <2>1, <2>4, <2>5, <2>7, PullsMore
  <2>9. Enumerates(FromsOf(w[i].acceleration), PullersOf(r, i, met \cup {t}))
    <3> DEFINE C == A \cup B
    <3>1. C = PullersOf(r, i, met \cup {t}) /\ Enumerates(FromsOf(w[i].acceleration), C)
        BY <2>6, <2>8
    <3> HIDE DEF C
    <3> QED
      BY <3>1
  <2>10. /\ w[i] \in BodyRecords /\ w[i].mass = b[i].mass
         /\ w[i].radius = b[i].radius /\ w[i].position = b[i].position
      BY <2>4, PulledAlike
  <2> QED
    BY <2>9, <2>10
<1>6. ASSUME NEW i \in 1 .. n
      PROVE  /\ w[i] \in BodyRecords /\ w[i].mass = b[i].mass
             /\ w[i].radius = b[i].radius /\ w[i].position = b[i].position
  <2>1. CASE i \in Actives(r)
      BY <1>5, <2>1
  <2>2. CASE i \notin Actives(r)
      BY <1>1, <1>3, <2>2
  <2> QED
    BY <2>1, <2>2
<1>7. Alike(b, w)
    BY <1>1, <1>3, <1>6 DEF Alike
<1> QED
    BY <1>3, <1>5, <1>7 DEF b

(* What has met the bodies of every process is pulled by all the others.   *)
LEMMA PulledByEveryOther ==
    ASSUME NEW r \in Ranks, NEW i \in Actives(r), NEW terms \in Seq(Terms),
           Enumerates(FromsOf(terms), PullersOf(r, i, Ranks))
    PROVE  /\ {terms[k].from : k \in DOMAIN terms} = ActiveBodies \ {<<r, i>>}
           /\ Len(terms) = Cardinality(ActiveBodies) - 1
<1> DEFINE s == FromsOf(terms)
           A == ActiveBodies
           x == <<r, i>>
<1>1. PullersOf(r, i, Ranks) = A \ {x} /\ x \in A
  <2>1. A = UNION {BodiesOf(q, Actives(q)) : q \in Ranks}
      BY DEF ActiveBodies, BodiesOf
  <2>2. \A q \in Ranks \ {r} : x \notin BodiesOf(q, Actives(q))
      BY DEF BodiesOf
  <2>3. x \in BodiesOf(r, Actives(r))
      BY DEF BodiesOf
  <2> HIDE DEF A, x
  <2> QED
    BY <2>1, <2>2, <2>3 DEF PullersOf, x
<1>2. DOMAIN s = DOMAIN terms /\ \A k \in DOMAIN terms : s[k] = terms[k].from
    BY DEF FromsOf
<1>3. Enumerates(s, A \ {x})
    BY <1>1
<1>4. DOMAIN terms = 1 .. Len(terms) /\ Len(terms) \in Nat
    OBVIOUS
<1>5. s \in Seq(A \ {x})
    BY <1>3 DEF Enumerates
<1>6. Len(s) = Len(terms)
  <2> HIDE DEF s, A
  <2> QED
    BY <1>2, <1>4, <1>5
<1> HIDE DEF s, A, x
<1>7. Range(s) = A \ {x} /\ Len(s) = Cardinality(A \ {x}) /\ IsFiniteSet(A \ {x})
    BY <1>3, EnumeratesCounts
<1>8. {terms[k].from : k \in DOMAIN terms} = A \ {x}
    BY <1>2, <1>7 DEF Range
<1>9. IsFiniteSet(A) /\ Cardinality(A) = Cardinality(A \ {x}) + 1
  <2> DEFINE T == A \ {x}
  <2>1. x \notin T /\ T \cup {x} = A /\ IsFiniteSet(T)
      BY <1>1, <1>7
  <2> HIDE DEF T
  <2>2. IsFiniteSet(T \cup {x}) /\ Cardinality(T \cup {x}) = Cardinality(T) + 1
      BY <2>1, FS_AddElement
  <2> QED
    BY <2>1, <2>2 DEF T
<1>10. Cardinality(A \ {x}) \in Nat
    BY <1>7, FS_CardinalityType
<1> QED
    BY <1>6, <1>7, <1>8, <1>9, <1>10 DEF A, x

(* The sum of what pulls a body is a number.                               *)
LEMMA VelocityType ==
    ASSUME NEW body \in BodyRecords
    PROVE  /\ UpdateVelocity(body, DeltaTime) \in BodyRecords
           /\ UpdateVelocity(body, DeltaTime).mass = body.mass
<1> DEFINE terms == body.acceleration
           n == Len(terms)
           P(g) == g = [s \in SUBSET (1 .. n) |->
                          IF s = {} THEN 0 ELSE LET x == Max(s) IN g[s \ {x}] + terms[x].pull]
           h == CHOOSE g : P(g)
           sum == FoldLeft(LAMBDA total_, term : total_ + term.pull, 0, terms)
<1>1. terms \in Seq(Terms) /\ n \in Nat /\ DOMAIN terms = 1 .. n
    BY DEF BodyRecords
<1>2. sum = h[1 .. n]
  <2>1. DOMAIN terms = 1 .. n
      BY <1>1
  <2> HIDE DEF terms, n
  <2> QED
    BY <2>1 DEF FoldLeft, MapThenFoldSet
<1> HIDE DEF sum
<1>3. \A g : P(g) <=> IsFold("sum", 0, 0, terms, n, g)
  <2>1. \A g, s : FoldStep("sum", 0, 0, terms, g, s)
                    = IF s = {} THEN 0 ELSE LET x == Max(s) IN g[s \ {x}] + terms[x].pull
      BY DEF FoldStep, Applied
  <2> QED
    BY <2>1 DEF IsFold
<1> HIDE DEF terms, n
<1>4. IsFold("sum", 0, 0, terms, n, h)
  <2>1. PICK g : IsFold("sum", 0, 0, terms, n, g)
      BY <1>1, FoldExists
  <2>2. \E a : P(a)
      BY <1>3, <2>1
  <2>3. P(CHOOSE a : P(a))
    <3> HIDE DEF P
    <3> QED
      BY <2>2
  <2> HIDE DEF P
  <2> QED
      BY <1>3, <2>3
<1>5. sum \in Int
  <2> HIDE DEF P, h
  <2>1. Kept("sum", 0, 0)
      BY DEF Kept
  <2>2. \A k \in 1 .. n : terms[k].pull \in Int
    <3>1. \A k \in 1 .. n : terms[k] \in Terms
        BY <1>1
    <3> QED
      BY <3>1 DEF Terms
  <2>3. \A w : \A k \in 1 .. n :
           Kept("sum", 0, w) => Kept("sum", 0, Applied("sum", 0, w, terms[k]))
      BY <2>2 DEF Kept, Applied
  <2>4. Kept("sum", 0, h[1 .. n])
      BY <1>1, <1>4, <2>1, <2>3, FoldKeeps
  <2> QED
    BY <1>2, <2>4 DEF Kept
<1>6. UpdateVelocity(body, DeltaTime) = [body EXCEPT !.velocity = @ + sum * DeltaTime]
    BY DEF UpdateVelocity, sum, terms
<1>7. body.velocity + sum * DeltaTime \in Int
  <2>1. body.velocity \in Int /\ DeltaTime \in Int
      BY NBodyAssumption DEF BodyRecords
  <2> QED
    BY <1>5, <2>1
<1> DEFINE v == body.velocity + sum * DeltaTime
<1>8. UpdateVelocity(body, DeltaTime) = [body EXCEPT !.velocity = v] /\ v \in Int
    BY <1>6, <1>7
<1> HIDE DEF v
<1> QED
    BY <1>8 DEF BodyRecords

(* A moved body is a body, of the same mass.                             *)
LEMMA MovedType ==
    ASSUME NEW body \in BodyRecords
    PROVE  Moved(body) \in BodyRecords /\ Moved(body).mass = body.mass
<1> DEFINE c == UpdateVelocity(body, DeltaTime)
           p == c.position + c.velocity * DeltaTime
<1>1. c \in BodyRecords /\ c.mass = body.mass
    BY VelocityType
<1>2. Moved(body) = IF IsActive(body) THEN [c EXCEPT !.position = p] ELSE body
    BY DEF Moved, UpdatePosition
<1> HIDE DEF c
<1>3. p \in Int
  <2>1. c.velocity \in Int /\ c.position \in Int /\ DeltaTime \in Int
      BY <1>1, NBodyAssumption DEF BodyRecords
  <2> QED
    BY <2>1
<1> HIDE DEF p
<1> QED
    BY <1>1, <1>2, <1>3 DEF BodyRecords

---------------------------------------------------------------------------
(* A state of the simulation, in every process *)

(* A process that may leave the reduction of the count is in the next      *)
(* state already.                                                          *)
Finished(q) == pc[q] = "count" /\ EverybodyCame(q)

(* The root of a broadcast has made the call.                              *)
RootsFirst ==
    \A p \in Ranks : \A k \in DOMAIN calls[p] :
       calls[p][k].root \in Ranks => k \in DOMAIN calls[calls[p][k].root]

(* The bodies that a process is going to load.                             *)
Loading(r) == [k \in GoodLines(OwnLines(r)) |-> NewBody(OwnLines(r)[k])]

(* Each body has been pulled by those of the ranks that it has met.        *)
PulledBodies(r, met) ==
    \A i \in Actives(r) :
       Enumerates(FromsOf(universe[r].bodies[i].acceleration), PullersOf(r, i, met))

(* What a process makes of the bodies that it has when the state begins.   *)
InRound(S, r) ==
    LET b == universe[r].bodies
    IN  /\ pc[r] = "start" => S[r] = Loading(r)
        /\ (pc[r] = "collide" \/ Finished(r)) => b = S[r]
        /\ pc[r] = "collideTurn" => Stage(S, r, Lower(turn[r]), b)
        /\ pc[r] \in {"accelerate", "accelerateTurn", "move"} => Stage(S, r, Ranks, b)
        /\ pc[r] = "accelerateTurn" => PulledBodies(r, Lower(turn[r]))
        /\ pc[r] = "move" => PulledBodies(r, Ranks)
        /\ pc[r] = "count" => b \in [Indexes(r) -> BodyRecords]

(* What a process has handed over in this state are the bodies it had.     *)
HandedOver(S, q, actives, call) ==
    /\ call.from = <<"collideTurn", q>> =>
          \E wt : Stage(S, q, Lower(q), wt) /\ Lists(wt, call.data)
    /\ call.from = <<"accelerateTurn", q>> =>
          \E wt : Stage(S, q, Ranks, wt) /\ Pulls(q, wt, call.data) /\ Alive(wt) = actives

HandedIn(S, q) ==
    (pc[q] \in LoopPlaces /\ ~Finished(q)) =>
       \A k \in DOMAIN calls[q] : k > Base(q) => HandedOver(S, q, Actives(q), calls[q][k])

CountsRight == \A r \in Ranks : universe[r].active = Cardinality(Actives(r))

RoundInv ==
    \E S : SpreadOut(S) /\ \A r \in Ranks : InRound(S, r) /\ HandedIn(S, r)

(* While no three bodies meet, every process counts its bodies right and   *)
(* the processes are in a state that began with bodies S.                  *)
CountInv == RootsFirst /\ (~crowded => CountsRight /\ RoundInv)

(* A process is not its own partner.                                       *)
LEMMA StageMet ==
    ASSUME NEW S, NEW r, NEW met, NEW other, NEW w, Stage(S, r, met, w),
           \A q \in Ranks \ {r} : q \in met <=> q \in other
    PROVE  Stage(S, r, other, w)
    BY DEF Stage

(* A process does not meet itself: its own rank adds no puller.          *)
LEMMA PullersMet ==
    ASSUME NEW r, NEW i, NEW met, NEW other, met \ {r} = other \ {r}
    PROVE  PullersOf(r, i, met) = PullersOf(r, i, other)
    BY DEF PullersOf

(* The ranks below the next turn are those below this one, and this one. *)
LEMMA LowerNext ==
    ASSUME NEW t \in Ranks
    PROVE  /\ Lower(0) = {} /\ t \notin Lower(t)
           /\ t < Size - 1 => Lower(t) \cup {t} = Lower(t + 1)
           /\ ~(t < Size - 1) => Lower(t) \cup {t} = Ranks
    BY NBodyAssumption DEF Lower, Ranks

(* What a step of a process leaves alone.                                  *)
LEMMA StepFrame ==
    ASSUME CallInv, BodiesInv, NEW r \in Ranks, Process(r)
    PROVE  /\ UNCHANGED given
           /\ \A q \in Ranks \ {r} : /\ pc'[q] = pc[q] /\ turn'[q] = turn[q]
                                     /\ universe'[q] = universe[q] /\ calls'[q] = calls[q]
           /\ \/ UNCHANGED calls
              \/ \E name, root, data : /\ Call(r, name, root, data)
                                       /\ root \in Ranks => root = r \/ CanReceive(r, root)
           /\ Move(r) \/ UNCHANGED crowded
<1>1. StartInv /\ TurnInv /\ DOMAIN pc = Ranks /\ DOMAIN turn = Ranks /\ DOMAIN universe = Ranks
      /\ CallsAreSequences /\ DOMAIN calls = Ranks
    BY DEF CallInv, StartInv, TurnInv, BodiesInv, CallsAreSequences
<1>2. UNCHANGED given
    BY GivenKept
<1>3. Move(r) \/ UNCHANGED crowded
    BY DEF Process, Start, StartFails, LocalCollisions, CollisionTurn, LocalAccelerations,
       AccelerationTurn, CountBodies, SaveTurn, LeaveBarrier, OwnDistances, DistanceTurn,
       LeaveOutStatistic, EnterStatistic, LeaveStatistic
<1>4. ASSUME NEW q \in Ranks, q # r
      PROVE  universe'[q] = universe[q]
    BY <1>1, <1>4
    DEF Process, Start, StartFails, LocalCollisions, CollisionTurn, LocalAccelerations,
       AccelerationTurn, Move, CountBodies, SaveTurn, LeaveBarrier, OwnDistances, DistanceTurn,
       LeaveOutStatistic, EnterStatistic, LeaveStatistic
<1>5. ASSUME NEW q \in Ranks, q # r
      PROVE  pc'[q] = pc[q] /\ turn'[q] = turn[q]
    BY <1>1, <1>5
    DEF Process, Start, StartFails, LocalCollisions, CollisionTurn, LocalAccelerations,
       AccelerationTurn, Move, CountBodies, SaveTurn, LeaveBarrier, OwnDistances, DistanceTurn,
       LeaveOutStatistic, EnterStatistic, LeaveStatistic, GoTo, NextTurn, NextStatistic
<1>6. \/ UNCHANGED calls
      \/ \E name, root, data : /\ Call(r, name, root, data)
                               /\ root \in Ranks => root = r \/ CanReceive(r, root)
  <2>1. NoRoot \notin Ranks
      BY NBodyAssumption DEF NoRoot, Ranks
  <2>2. CASE CollisionTurn(r) \/ AccelerationTurn(r) \/ DistanceTurn(r)
      BY <2>2 DEF CollisionTurn, AccelerationTurn, DistanceTurn
  <2>3. CASE Move(r) \/ SaveTurn(r) \/ EnterStatistic(r)
      BY <2>1, <2>3 DEF Move, SaveTurn, EnterStatistic
  <2> QED
    BY <2>2, <2>3 DEF Process, Start, StartFails, LocalCollisions, LocalAccelerations,
       CountBodies, LeaveBarrier, OwnDistances, LeaveOutStatistic, LeaveStatistic
<1>7. \A q \in Ranks \ {r} : calls'[q] = calls[q]
    BY <1>1, <1>6 DEF Call
<1> QED
    BY <1>2, <1>3, <1>4, <1>5, <1>6, <1>7

(* Every step keeps it: a process leaves a broadcast when the root has   *)
(* made its call.                                                        *)
LEMMA RootsFirstStep ==
    ASSUME CallInv, BodiesInv, RootsFirst, NEW r \in Ranks, Process(r)
    PROVE  RootsFirst'
<1>1. CASE UNCHANGED calls
    BY <1>1 DEF RootsFirst
<1>2. ASSUME NEW name, NEW root, NEW data, Call(r, name, root, data),
             root \in Ranks => root = r \/ CanReceive(r, root)
      PROVE  RootsFirst'
  <2> DEFINE n == Len(calls[r]) + 1
  <2>1. CallsAreSequences
      BY DEF CallInv, StartInv
  <2>2. /\ n \in DOMAIN calls'[r]
        /\ \A q \in Ranks : \A k \in DOMAIN calls'[q] :
              \/ q = r /\ k = n
              \/ k \in DOMAIN calls[q] /\ calls'[q][k] = calls[q][k]
        /\ \A q \in Ranks \ {r} : calls'[q] = calls[q]
      BY <1>2, <2>1, CallMade
  <2>3. calls'[r][n].root = root /\ DOMAIN calls'[r] = 1 .. n /\ DOMAIN calls[r] = 1 .. n - 1
        /\ Len(calls[r]) \in Nat
    <3> DEFINE call == [call |-> name, root |-> root, data |-> data, from |-> <<pc[r], turn[r]>>]
    <3>1. calls' = [calls EXCEPT ![r] = Append(@, call)]
        BY <1>2 DEF Call
    <3>2. call.root = root
        OBVIOUS
    <3> HIDE DEF call
    <3>3. calls'[r][n] = call /\ DOMAIN calls'[r] = 1 .. n
        BY <2>1, <3>1, CallAppended
    <3> QED
      BY <2>1, <3>2, <3>3, CallsType
  <2>4. \A q \in Ranks : DOMAIN calls[q] \subseteq DOMAIN calls'[q]
      BY <2>2, <2>3
  <2>5. root \in Ranks => n \in DOMAIN calls'[root]
    <3>1. CASE root = r
        BY <2>2, <3>1
    <3>2. CASE root \in Ranks /\ root # r
      <4>1. Len(calls[root]) > Len(calls[r]) /\ Len(calls[root]) \in Nat
            /\ DOMAIN calls[root] = 1 .. Len(calls[root])
          BY <1>2, <2>1, <3>2, CallsType DEF CanReceive
      <4>2. n \in DOMAIN calls[root]
          BY <2>3, <4>1
      <4> QED
        BY <2>4, <3>2, <4>2
    <3> QED
      BY <3>1, <3>2
  <2> HIDE DEF n
  <2> QED
    BY <2>2, <2>3, <2>4, <2>5 DEF RootsFirst
<1> QED
    BY <1>1, <1>2, StepFrame

(* A process that has made as many calls as another one in a loop is in    *)
(* the same state of the simulation.                                       *)
LEMMA AheadInRound ==
    ASSUME CallInv, NEW r \in Ranks, pc[r] \in LoopPlaces, pc[r] # "count",
           NEW q \in Ranks, NEW m \in Nat \ {0}, Len(calls[q]) >= Base(r) + m
    PROVE  /\ SameRound(r, q) /\ Base(q) = Base(r) /\ CallsMade(q) >= m
           /\ pc[q] \in LoopPlaces /\ ~Finished(q)
<1>1. CallsMade(r) \in Nat /\ Base(r) \in Nat /\ Len(calls[r]) = Base(r) + CallsMade(r)
      /\ CallsMade(q) \in Nat /\ Base(q) \in Nat /\ Len(calls[q]) = Base(q) + CallsMade(q)
    BY CallsMadeType
<1>2. ~OneAhead(r, q)
    BY <1>1 DEF OneAhead
<1>3. SameRound(r, q)
    BY <1>2 DEF CallInv, InStep, OneAhead
<1>4. Base(q) = Base(r) /\ CallsMade(q) >= m
    BY <1>1, <1>3 DEF SameRound
<1>5. pc[q] \in LoopPlaces
  <2>1. pc[q] \notin {"start", "failed"}
      BY <1>4, MadeAt DEF CallsMade
  <2>2. InLoop(r) /\ InLoop(q)
      BY <1>3 DEF SameRound, InLoop, Started, LoopPlaces
  <2> QED
    BY <2>1, <2>2 DEF InLoop, Started
<1>6. CallsMade(r) < 2 * Size + 1
  <2>1. turn[r] \in TurnsOf(pc[r]) /\ Few(r) \in BOOLEAN /\ Size \in Nat
      BY NBodyAssumption DEF CallInv, TurnInv, Few
  <2> QED
    BY <1>1, <2>1, MadeInLoop DEF CallsMade
<1>7. ~Finished(q)
  <2> SUFFICES ASSUME Finished(q) PROVE FALSE
      OBVIOUS
  <2>1. CallsMade(q) = 2 * Size + 1 /\ Len(calls[r]) >= Len(calls[q])
      BY MadeAt DEF Finished, EverybodyCame, CallsMade
  <2>2. Size \in Nat
      BY NBodyAssumption
  <2> QED
    BY <1>1, <1>4, <1>6, <2>1, <2>2
<1> QED
    BY <1>3, <1>4, <1>5, <1>7

(* Who has met the bodies of another process knows how far it is.          *)
LEMMA CaughtUp ==
    ASSUME CallInv, RootsFirst, NEW r \in Ranks, pc[r] \in LoopPlaces, pc[r] # "count",
           NEW q \in Ranks, q # r, NEW m \in 1 .. CallsMade(r),
           Planned(TRUE, Few(r), m) = <<"collideTurn", q>>
              \/ Planned(TRUE, Few(r), m) = <<"accelerateTurn", q>>
    PROVE  /\ SameRound(r, q) /\ Base(q) = Base(r) /\ CallsMade(q) >= m
           /\ pc[q] \in LoopPlaces /\ ~Finished(q)
<1>1. CallsMade(r) \in Nat /\ Base(r) \in Nat /\ Len(calls[r]) = Base(r) + CallsMade(r)
    BY CallsMadeType
<1> DEFINE k == Base(r) + m
<1>2. k \in DOMAIN calls[r] /\ m \in Nat \ {0}
    BY <1>1, CallsType DEF CallInv, StartInv
<1>3. calls[r][k].from = Planned(TRUE, Few(r), m)
    BY DEF CallInv, CallsFollowPlan, InLoop, Started, LoopPlaces
<1>4. calls[r][k].root = q
  <2>1. calls[r][k].root = RootOf(calls[r][k].from)
      BY <1>2 DEF CallInv, CallsWellMade
  <2>2. NameOf("collideTurn") = "broadcast" /\ NameOf("accelerateTurn") = "broadcast"
      BY DEF NameOf
  <2>3. /\ RootOf(<<"collideTurn", q>>) = q
        /\ RootOf(<<"accelerateTurn", q>>) = q
      BY <2>2 DEF RootOf
  <2>4. \/ calls[r][k].from = <<"collideTurn", q>>
        \/ calls[r][k].from = <<"accelerateTurn", q>>
      BY <1>3
  <2> QED
    BY <2>1, <2>3, <2>4
<1>5. k \in DOMAIN calls[q]
    BY <1>2, <1>4 DEF RootsFirst
<1>6. Len(calls[q]) >= Base(r) + m
    BY <1>5, CallsType DEF CallInv, StartInv
<1> QED
    BY <1>2, <1>6, AheadInRound

(* Who adds accelerations knows that those of lower rank do.               *)
LEMMA PullersKnown ==
    ASSUME CallInv, RootsFirst, NEW r \in Ranks, NEW q \in Ranks, q # r,
           \/ pc[r] = "accelerateTurn" /\ q \in Lower(turn[r])
           \/ pc[r] = "move"
    PROVE  pc[q] \in {"accelerateTurn", "move", "count"} /\ ~Finished(q) /\ Base(q) = Base(r)
<1> DEFINE m == Size + q + 1
<1>1. Size \in Nat \ {0} /\ q \in 0 .. Size - 1
    BY NBodyAssumption DEF Ranks
<1>2. m \in 1 .. CallsMade(r)
  <2>1. CASE pc[r] = "accelerateTurn" /\ q \in Lower(turn[r])
    <3>1. CallsMade(r) = Size + turn[r] /\ q < turn[r] /\ turn[r] \in Nat
        BY <2>1, MadeAt DEF CallsMade, Lower, CallInv, TurnInv
    <3> QED
      BY <1>1, <3>1
  <2>2. CASE pc[r] = "move"
    <3>1. CallsMade(r) = 2 * Size
        BY <2>2, MadeAt DEF CallsMade
    <3> QED
      BY <1>1, <3>1
  <2> QED
    BY <2>1, <2>2
<1>3. Planned(TRUE, Few(r), m) = <<"accelerateTurn", q>>
  <2>1. ~(m <= Size) /\ m <= 2 * Size /\ m - 1 - Size = q
      BY <1>1
  <2> HIDE DEF m
  <2> QED
    BY <2>1 DEF Planned
<1>4. m > Size /\ m \in Nat
    BY <1>1
<1> HIDE DEF m
<1>5. CallsMade(q) >= m /\ pc[q] \in LoopPlaces /\ ~Finished(q) /\ Base(q) = Base(r)
    BY <1>2, <1>3, CaughtUp DEF LoopPlaces
<1>6. pc[q] \notin {"collide", "collideTurn", "accelerate"}
  <2>1. pc[q] = "collideTurn" => turn[q] \in 0 .. Size - 1
      BY DEF CallInv, TurnInv, TurnsOf, Ranks
  <2> QED
    BY <1>1, <1>4, <1>5, <2>1, MadeAt DEF CallsMade
<1> QED
    BY <1>5, <1>6 DEF LoopPlaces

(* A turn is one more call of the round.                                   *)
LEMMA TurnMade ==
    ASSUME CallInv, NEW r \in Ranks, NEW next, NextTurn(r, next),
           \/ pc[r] = "collideTurn" /\ next = "accelerate"
           \/ pc[r] = "accelerateTurn" /\ next = "move"
    PROVE  /\ CallsMade(r)' = CallsMade(r) + 1 /\ turn[r] \in Ranks
           /\ \/ turn[r] < Size - 1 /\ pc'[r] = pc[r] /\ turn'[r] = turn[r] + 1
              \/ ~(turn[r] < Size - 1) /\ pc'[r] = next /\ turn'[r] = 0
<1>1. /\ DOMAIN pc = Ranks /\ DOMAIN turn = Ranks /\ turn[r] \in 0 .. Size - 1
      /\ Size \in Nat \ {0}
    BY NBodyAssumption DEF CallInv, StartInv, TurnInv, TurnsOf, Ranks
<1>2. CASE turn[r] < Size - 1
  <2>1. pc'[r] = pc[r] /\ turn'[r] = turn[r] + 1
      BY <1>1, <1>2 DEF NextTurn
  <2> QED
    BY <1>1, <1>2, <2>1, MadeAt DEF CallsMade, Ranks
<1>3. CASE ~(turn[r] < Size - 1)
  <2>1. pc'[r] = next /\ turn'[r] = 0 /\ turn[r] = Size - 1
      BY <1>1, <1>3 DEF NextTurn
  <2> QED
    BY <1>1, <1>3, <2>1, MadeAt DEF CallsMade, Ranks
<1> QED
    BY <1>2, <1>3

(* A call of a turn is in the same round as the one before it.           *)
LEMMA CallBase ==
    ASSUME CallInv, NEW r \in Ranks, NEW name, NEW root, NEW data, Call(r, name, root, data),
           CallsMade(r)' = CallsMade(r) + 1
    PROVE  Base(r)' = Base(r)
<1> DEFINE call == [call |-> name, root |-> root, data |-> data, from |-> <<pc[r], turn[r]>>]
<1>1. calls' = [calls EXCEPT ![r] = Append(@, call)]
    BY DEF Call
<1>2. CallsAreSequences
    BY DEF CallInv, StartInv
<1> HIDE DEF call
<1>3. Len(calls'[r]) = Len(calls[r]) + 1 /\ Len(calls[r]) \in Nat
    BY <1>1, <1>2, CallAppended, CallsType
<1>4. CallsMade(r) \in Nat
    BY CallsMadeType
<1> QED
    BY <1>3, <1>4 DEF Base

(* What a process of a loop hands over in its own turn.                    *)
NewlyHanded(S, r, actives, data) ==
    /\ (pc[r] = "collideTurn" /\ turn[r] = r) =>
          \E wt : Stage(S, r, Lower(r), wt) /\ Lists(wt, data)
    /\ (pc[r] = "accelerateTurn" /\ turn[r] = r) =>
          \E wt : Stage(S, r, Ranks, wt) /\ Pulls(r, wt, data) /\ Alive(wt) = actives

(* What was handed over in this round stays what the state needs, if what*)
(* is handed over now is.                                                *)
LEMMA HandedKept ==
    ASSUME CallInv, NEW S, NEW r \in Ranks, HandedIn(S, r), pc[r] \in LoopPlaces, pc[r] # "count",
           Base(r)' = Base(r),
           NEW actives, Actives(r)' = actives,
           actives = Actives(r) \/ pc[r] \in {"collide", "collideTurn"},
           \/ UNCHANGED calls
           \/ \E name, root, data :
                 Call(r, name, root, data) /\ NewlyHanded(S, r, actives, data)
    PROVE  HandedIn(S, r)'
<1>1. CallsAreSequences /\ ~Finished(r)
    BY DEF CallInv, StartInv, Finished
<1>2. Base(r) \in Nat /\ CallsMade(r) \in Nat /\ Len(calls[r]) = Base(r) + CallsMade(r)
    BY CallsMadeType
<1>3. ASSUME NEW k \in DOMAIN calls[r], k > Base(r)
      PROVE  HandedOver(S, r, actives, calls[r][k])
  <2>1. HandedOver(S, r, Actives(r), calls[r][k])
      BY <1>1, <1>3 DEF HandedIn
  <2>2. CASE actives = Actives(r)
      BY <2>1, <2>2
  <2>3. CASE pc[r] \in {"collide", "collideTurn"}
    <3>1. turn[r] \in 0 .. Size - 1 /\ Size \in Nat \ {0}
        BY <2>3, NBodyAssumption DEF CallInv, TurnInv, TurnsOf, Ranks
    <3>2. CallsMade(r) <= Size
        BY <2>3, <3>1, MadeAt DEF CallsMade
    <3>3. PICK j \in 1 .. CallsMade(r) : k = Base(r) + j
      <4>1. k \in 1 .. Len(calls[r])
          BY <1>1, <1>3, CallsType
      <4>2. k - Base(r) \in 1 .. CallsMade(r) /\ k = Base(r) + (k - Base(r))
          BY <1>2, <1>3, <4>1
      <4> QED
        BY <4>2
    <3>4. calls[r][k].from = Planned(InLoop(r), Few(r), j) /\ InLoop(r)
        BY <3>3 DEF CallInv, CallsFollowPlan, InLoop, Started, LoopPlaces
    <3>5. Planned(TRUE, Few(r), j) = <<"collideTurn", j - 1>>
        BY <1>2, <3>1, <3>2 DEF Planned
    <3>6. calls[r][k].from[1] = "collideTurn"
      <4>1. calls[r][k].from = <<"collideTurn", j - 1>>
          BY <3>4, <3>5
      <4> QED
        BY <4>1
    <3>7. calls[r][k].from # <<"accelerateTurn", r>>
      <4>1. <<"accelerateTurn", r>>[1] # "collideTurn"
          OBVIOUS
      <4> QED
        BY <3>6, <4>1, Zenon
    <3> QED
      BY <2>1, <3>7 DEF HandedOver
  <2> QED
    BY <2>2, <2>3
<1>4. CASE UNCHANGED calls
    BY <1>3, <1>4 DEF HandedIn
<1>5. ASSUME NEW name, NEW root, NEW data,
             Call(r, name, root, data), NewlyHanded(S, r, actives, data)
      PROVE  HandedIn(S, r)'
  <2> DEFINE n == Len(calls[r]) + 1
             call == [call |-> name, root |-> root, data |-> data, from |-> <<pc[r], turn[r]>>]
  <2>1. calls' = [calls EXCEPT ![r] = Append(@, call)]
      BY <1>5 DEF Call
  <2>2. call.from = <<pc[r], turn[r]>> /\ call.data = data
      OBVIOUS
  <2> HIDE DEF call
  <2>3. /\ calls'[r][n] = call /\ DOMAIN calls'[r] = 1 .. n /\ DOMAIN calls[r] = 1 .. n - 1
        /\ \A k \in 1 .. n - 1 : calls'[r][k] = calls[r][k]
        /\ Len(calls[r]) \in Nat
    <3>1. Len(calls[r]) \in Nat /\ DOMAIN calls[r] = 1 .. Len(calls[r])
        BY <1>1, CallsType
    <3>2. n - 1 = Len(calls[r])
        BY <3>1
    <3>3. /\ calls'[r][n] = call /\ DOMAIN calls'[r] = 1 .. n
          /\ \A k \in 1 .. Len(calls[r]) : calls'[r][k] = calls[r][k]
        BY <1>1, <2>1, CallAppended
    <3> HIDE DEF n
    <3> QED
      BY <3>1, <3>2, <3>3
  <2>4. HandedOver(S, r, actives, call)
    <3>1. <<pc[r], turn[r]>> = <<"collideTurn", r>> => pc[r] = "collideTurn" /\ turn[r] = r
        OBVIOUS
    <3>2. <<pc[r], turn[r]>> = <<"accelerateTurn", r>> => pc[r] = "accelerateTurn" /\ turn[r] = r
        OBVIOUS
    <3> QED
      BY <1>5, <2>2, <3>1, <3>2 DEF HandedOver, NewlyHanded
  <2>5. \A k \in 1 .. n : k = n \/ k \in 1 .. n - 1
      BY <2>3
  <2> HIDE DEF n
  <2>6. \A k \in DOMAIN calls'[r] : k > Base(r) => HandedOver(S, r, actives, calls'[r][k])
      BY <1>3, <2>3, <2>4, <2>5
  <2> QED
    BY <2>6 DEF HandedIn
<1> QED
    BY <1>4, <1>5

(* Only the call that moves the bodies lets others leave the reduction.    *)
LEMMA OthersFinished ==
    ASSUME CallInv, CallInv', BodiesInv, NEW r \in Ranks, Process(r), pc[r] # "move",
           NEW q \in Ranks, q # r
    PROVE  Finished(q)' <=> Finished(q)
<1>1. /\ \A p \in Ranks \ {r} : pc'[p] = pc[p] /\ calls'[p] = calls[p]
      /\ UNCHANGED calls \/ \E name, root, data : Call(r, name, root, data)
    BY StepFrame
<1>2. CallsAreSequences /\ CallsAreSequences'
    BY DEF CallInv, StartInv
<1>3. CASE UNCHANGED calls
    BY <1>1, <1>3 DEF Finished, EverybodyCame
<1>4. ASSUME NEW name, NEW root, NEW data, Call(r, name, root, data)
      PROVE  Finished(q)' <=> Finished(q)
  <2> DEFINE n == Len(calls[r]) + 1
  <2>1. n \in DOMAIN calls'[r] /\ calls'[r][n].from = <<pc[r], turn[r]>>
      BY <1>2, <1>4, CallMade
  <2>2. Len(calls'[r]) = n /\ Len(calls[r]) \in Nat /\ Len(calls[q]) \in Nat
        /\ DOMAIN calls[q] = 1 .. Len(calls[q])
    <3> DEFINE call == [call |-> name, root |-> root, data |-> data, from |-> <<pc[r], turn[r]>>]
    <3>1. calls' = [calls EXCEPT ![r] = Append(@, call)]
        BY <1>4 DEF Call
    <3> HIDE DEF call
    <3> QED
      BY <1>2, <3>1, CallAppended, CallsType
  <2>3. ASSUME Finished(q) PROVE Finished(q)'
      BY <1>1, <2>2, <2>3 DEF Finished, EverybodyCame
  <2>4. ASSUME Finished(q)', ~Finished(q) PROVE FALSE
    <3>1. pc[q] = "count" /\ \A p \in Ranks : Len(calls'[p]) >= Len(calls[q])
        BY <1>1, <2>4 DEF Finished, EverybodyCame
    <3>2. ~(Len(calls[r]) >= Len(calls[q]))
        BY <1>1, <2>4, <3>1 DEF Finished, EverybodyCame
    <3>3. Len(calls[q]) = n
        BY <2>2, <3>1, <3>2
    <3>4. calls[q][n].from = <<pc[r], turn[r]>>
      <4>1. n \in DOMAIN calls'[q] /\ calls'[q] = calls[q]
          BY <1>1, <2>2, <3>3
      <4> HIDE DEF n
      <4> QED
        BY <2>1, <4>1 DEF CallInv, PlacesMatch
    <3>5. CallsMade(q) = 2 * Size + 1 /\ Base(q) + CallsMade(q) = n
        BY <3>1, <3>3, CallsMadeType, MadeAt DEF CallsMade
    <3>6. Size \in Nat
        BY NBodyAssumption
    <3>7. calls[q][n].from = Planned(TRUE, Few(q), 2 * Size + 1)
      <4>1. InLoop(q) = TRUE
          BY <3>1 DEF InLoop, Started, LoopPlaces
      <4>2. \A j \in 1 .. CallsMade(q) : calls[q][Base(q) + j].from = Planned(TRUE, Few(q), j)
          BY <4>1 DEF CallInv, CallsFollowPlan
      <4>3. CallsMade(q) \in 1 .. CallsMade(q)
          BY <3>5, <3>6
      <4> HIDE DEF n
      <4> QED
        BY <3>5, <4>2, <4>3
    <3>8. Planned(TRUE, Few(q), 2 * Size + 1) = <<"move", 0>>
        BY <3>6 DEF Planned
    <3>9. pc[r] = "move"
      <4>1. <<pc[r], turn[r]>> = <<"move", 0>>
          BY <3>4, <3>7, <3>8
      <4> QED
        BY <4>1
    <3> QED
      BY <3>9
  <2> QED
    BY <2>3, <2>4
<1> QED
    BY <1>1, <1>3, <1>4

(* The pullers are the same while the active bodies are.                 *)
LEMMA PullersSame ==
    ASSUME NEW q, NEW met, \A p \in met \cup {q} : Actives(p)' = Actives(p)
    PROVE  \A i : PullersOf(q, i, met)' = PullersOf(q, i, met)
<1> SUFFICES ASSUME NEW i PROVE PullersOf(q, i, met)' = PullersOf(q, i, met)
    OBVIOUS
<1>1. {BodiesOf(p, Actives(p)') : p \in met \ {q}} = {BodiesOf(p, Actives(p)) : p \in met \ {q}}
    OBVIOUS
<1>2. BodiesOf(q, Actives(q)') = BodiesOf(q, Actives(q))
    OBVIOUS
<1>3. PullersOf(q, i, met)' = (BodiesOf(q, Actives(q)') \ {<<q, i>>}) \cup
                                  (UNION {BodiesOf(p, Actives(p)') : p \in met \ {q}})
    BY DEF PullersOf, BodiesOf
<1> QED
    BY <1>1, <1>2, <1>3 DEF PullersOf

(* What the others have is as it was.                                      *)
LEMMA OthersKept ==
    ASSUME CallInv, BodiesInv, RootsFirst, NEW r \in Ranks, Process(r),
           NEW S, NEW q \in Ranks, q # r, InRound(S, q), HandedIn(S, q),
           Finished(q)' <=> Finished(q),
           \/ Actives(r)' = Actives(r)
           \/ pc[r] \notin {"accelerateTurn", "move", "count"}
    PROVE  InRound(S, q)' /\ HandedIn(S, q)'
<1>1. /\ UNCHANGED given
      /\ \A p \in Ranks \ {r} : /\ pc'[p] = pc[p] /\ turn'[p] = turn[p]
                                /\ universe'[p] = universe[p] /\ calls'[p] = calls[p]
    BY StepFrame
<1>2. \A p \in Ranks \ {r} : Actives(p)' = Actives(p) /\ Indexes(p)' = Indexes(p)
    BY <1>1 DEF Actives, Indexes
<1>3. Loading(q)' = Loading(q)
    BY <1>1 DEF Loading, OwnLines, Lines, GoodLines
<1>4. ASSUME NEW met, met \subseteq Ranks, PulledBodies(q, met),
             pc[q] = "move" \/ (pc[q] = "accelerateTurn" /\ met = Lower(turn[q]))
      PROVE  PulledBodies(q, met)'
  <2>1. \A p \in met \cup {q} : Actives(p)' = Actives(p)
    <3>1. r \in met => Actives(r)' = Actives(r)
        BY <1>4, PullersKnown
    <3> QED
      BY <1>2, <1>4, <3>1
  <2>2. \A i : PullersOf(q, i, met)' = PullersOf(q, i, met)
      BY <2>1, PullersSame
  <2>3. Actives(q)' = Actives(q) /\ universe'[q] = universe[q]
      BY <1>1, <1>2
  <2> QED
    BY <1>4, <2>2, <2>3 DEF PulledBodies
<1>5. pc[q] = "accelerateTurn" => PulledBodies(q, Lower(turn[q]))'
  <2> SUFFICES ASSUME pc[q] = "accelerateTurn" PROVE PulledBodies(q, Lower(turn[q]))'
      OBVIOUS
  <2>1. PICK met : met = Lower(turn[q])
      OBVIOUS
  <2>2. PulledBodies(q, met) /\ met \subseteq Ranks
      BY <2>1 DEF InRound, Lower
  <2>3. PulledBodies(q, met)'
      BY <1>4, <2>1, <2>2
  <2>4. Lower(turn[q])' = met
      BY <1>1, <2>1 DEF Lower
  <2> QED
    BY <2>3, <2>4
<1>6. pc[q] = "move" => PulledBodies(q, Ranks)'
    BY <1>4 DEF InRound
<1>7. InRound(S, q)'
    BY <1>1, <1>2, <1>3, <1>5, <1>6 DEF InRound
<1>8. Base(q)' = Base(q) \/ pc[q] \notin LoopPlaces
    BY <1>1, MadeAt DEF Base, CallsMade, LoopPlaces
<1>9. HandedIn(S, q)'
    BY <1>1, <1>2, <1>8 DEF HandedIn
<1> QED
    BY <1>7, <1>9

(* What a process makes of its own bodies is enough, for every step but    *)
(* the one that ends the state.                                            *)
LEMMA RoundStays ==
    ASSUME CallInv, CallInv', BodiesInv, RootsFirst, CountsRight, NEW r \in Ranks, Process(r),
           NEW S, SpreadOut(S), \A q \in Ranks : InRound(S, q) /\ HandedIn(S, q),
           \A q \in Ranks \ {r} : Finished(q)' <=> Finished(q),
           Actives(r)' = Actives(r) \/ pc[r] \notin {"accelerateTurn", "move", "count"},
           InRound(S, r)', HandedIn(S, r)', universe'[r].active = Cardinality(Actives(r)')
    PROVE  CountsRight' /\ RoundInv'
<1>1. \A q \in Ranks \ {r} : universe'[q] = universe[q]
    BY StepFrame
<1>2. CountsRight'
    BY <1>1 DEF CountsRight, Actives, Indexes
<1>3. ASSUME NEW q \in Ranks, q # r
      PROVE  InRound(S, q)' /\ HandedIn(S, q)'
    BY <1>3, OthersKept
<1>4. \A q \in Ranks : InRound(S, q)' /\ HandedIn(S, q)'
    BY <1>3
<1> QED
    BY <1>2, <1>4 DEF RoundInv

(* A line that is not wrong gives an active body.                        *)
LEMMA GoodLineIsBody ==
    ASSUME GoodUniverses, given.universe \in Universes, NEW r \in Ranks,
           NEW k \in DOMAIN OwnLines(r), OwnLines(r)[k] # BadLine
    PROVE  /\ NewBody(OwnLines(r)[k]) \in BodyRecords
           /\ IsActive(NewBody(OwnLines(r)[k]))
<1> DEFINE line == OwnLines(r)[k]
<1>1. line \in Range(given.universe.lines)
  <2>1. /\ OwnLines(r) \in Seq(Range(given.universe.lines))
        /\ DOMAIN OwnLines(r) = 1 .. Len(OwnLines(r))
      BY OwnLinesFit
  <2> QED
    BY <2>1
<1>2. line \in [mass : Nat \ {0}, radius : Nat \ {0}, position : Int, velocity : Int]
    BY <1>1 DEF GoodUniverses, GoodLines, Range
<1> HIDE DEF line
<1>3. /\ line.mass \in Nat \ {0} /\ line.radius \in Nat \ {0}
      /\ line.position \in Int /\ line.velocity \in Int
    BY <1>2
<1>4. << >> \in Seq(Terms)
    OBVIOUS
<1>5. NewBody(line) = [mass |-> line.mass, radius |-> line.radius, position |-> line.position,
                       velocity |-> line.velocity, acceleration |-> << >>]
    BY DEF NewBody
<1>6. NewBody(line) \in BodyRecords /\ NewBody(line).mass = line.mass
    BY <1>3, <1>4, <1>5 DEF BodyRecords
<1>7. IsActive(NewBody(line))
    BY <1>3, <1>6 DEF IsActive
<1> QED
    BY <1>6, <1>7 DEF line

(* startSimulation() begins the first state with the bodies that it      *)
(* loads, all of them counted.                                           *)
LEMMA StartRound ==
    ASSUME GoodUniverses, CallInv, BodiesInv, NEW r \in Ranks, Start(r), NEW S, InRound(S, r)
    PROVE  InRound(S, r)' /\ HandedIn(S, r)' /\ universe'[r].active = Cardinality(Actives(r)')
<1> DEFINE lines == OwnLines(r)
           bodies == [i \in DOMAIN lines |-> NewBody(lines[i])]
           k == Len(lines)
<1>1. /\ pc[r] = "start" /\ UNCHANGED <<given, calls>>
      /\ universe' = [universe EXCEPT ![r] = [bodies |-> bodies, active |-> Len(bodies)]]
      /\ BadLine \notin Range(lines)
      /\ \E next \in {"collide", "save"} : pc' = [pc EXCEPT ![r] = next]
    BY DEF Start, GoTo, LoopTest, CanStart
<1>2. /\ DOMAIN universe = Ranks /\ DOMAIN pc = Ranks /\ calls[r] = << >>
      /\ given.universe \in Universes
    BY <1>1 DEF BodiesInv, CallInv, StartInv, Started
<1>3. k \in Nat /\ DOMAIN lines = 1 .. k
    BY <1>2, OwnLinesFit
<1>4. \A i \in 1 .. k : lines[i] # BadLine
    BY <1>1, <1>3 DEF Range
<1>5. \A i \in 1 .. k : bodies[i] \in BodyRecords /\ IsActive(bodies[i])
    BY <1>2, <1>3, <1>4, GoodLineIsBody
<1>6. S[r] = bodies
  <2>1. GoodLines(lines) = DOMAIN lines
      BY <1>3, <1>4 DEF GoodLines
  <2>2. S[r] = Loading(r)
      BY <1>1 DEF InRound
  <2> QED
    BY <2>1, <2>2 DEF Loading
<1>7. DOMAIN bodies = 1 .. k
    BY <1>3
<1>8. Len(bodies) = k
  <2>1. bodies \in [1 .. k -> BodyRecords]
      BY <1>5, <1>7
  <2> HIDE DEF bodies, k
  <2>2. bodies \in Seq(BodyRecords)
      BY <1>3, <2>1
  <2> QED
    BY <1>3, <1>7, <2>2
<1> HIDE DEF bodies, lines, k
<1>9. universe'[r].bodies = bodies /\ universe'[r].active = k
    BY <1>1, <1>2, <1>8
<1>10. Actives(r)' = 1 .. k
    BY <1>5, <1>7, <1>9 DEF Actives, Indexes
<1>11. Cardinality(1 .. k) = k
  <2>1. 1 \in Int /\ k \in Int
      BY <1>3
  <2>2. Cardinality(1 .. k) = IF 1 > k THEN 0 ELSE k - 1 + 1
      BY <2>1, FS_Interval
  <2> QED
    BY <1>3, <2>2
<1>12. InRound(S, r)'
    BY <1>1, <1>2, <1>6, <1>9 DEF InRound, Finished
<1>13. HandedIn(S, r)'
    BY <1>1, <1>2 DEF HandedIn
<1> QED
    BY <1>9, <1>10, <1>11, <1>12, <1>13

(* checkLocalCollisions() settles the collisions within the process, and *)
(* counts those that it absorbs.                                         *)
LEMMA LocalCollisionsRound ==
    ASSUME CallInv, BodiesInv, NEW r \in Ranks, LocalCollisions(r),
           universe[r].active = Cardinality(Actives(r)),
           NEW S, SpreadOut(S), InRound(S, r), HandedIn(S, r)
    PROVE  InRound(S, r)' /\ HandedIn(S, r)' /\ universe'[r].active = Cardinality(Actives(r)')
<1> DEFINE u == universe[r]
           v == CheckLocalCollisions(u)
           n == BodyCount(r)
<1>1. /\ pc[r] = "collide" /\ pc' = [pc EXCEPT ![r] = "collideTurn"]
      /\ universe' = [universe EXCEPT ![r] = v] /\ UNCHANGED <<turn, calls>>
    BY DEF LocalCollisions, GoTo
<1>2. /\ DOMAIN universe = Ranks /\ DOMAIN pc = Ranks /\ turn[r] = 0 /\ pc'[r] = "collideTurn"
      /\ universe'[r] = v
    BY <1>1 DEF BodiesInv, CallInv, StartInv, TurnInv, TurnsOf
<1>3. n \in Nat /\ Sound(1 .. n, u)
    BY BodyCountType DEF BodiesInv, CallInv, StartInv
<1>4. /\ u.bodies = S[r] /\ DOMAIN S[r] = 1 .. n
      /\ u.bodies \in [1 .. n -> BodyRecords] /\ Uncrowded(u.bodies)
  <2>1. u.bodies = S[r]
      BY <1>1 DEF InRound
  <2>2. DOMAIN S[r] = 1 .. n
      BY <1>3, <2>1 DEF Sound
  <2>3. Uncrowded(S[r])
      BY LocallyUncrowded
  <2> QED
    BY <2>1, <2>2, <2>3 DEF SpreadOut
<1>5. u.active = Cardinality(Alive(u.bodies))
    BY DEF Actives, Indexes, Alive
<1> HIDE DEF u, n
<1>6. OuterReached(n, u.bodies, n, v)
    BY <1>3, <1>4, <1>5, LocalCollisionsCount
<1> HIDE DEF v
<1>7. Stage(S, r, {}, v.bodies)
    BY <1>3, <1>4, <1>6, LocalStage
<1>8. v.active = Cardinality(Alive(v.bodies))
    BY <1>6 DEF OuterReached, Counted
<1>9. Actives(r)' = Alive(v.bodies)
    BY <1>2 DEF Actives, Indexes, Alive
<1>10. Stage(S, r, Lower(turn[r])', universe'[r].bodies)
  <2>1. 0 \in Ranks
      BY NBodyAssumption DEF Ranks
  <2>2. Lower(0) = {}
      BY <2>1, LowerNext
  <2>3. Lower(turn[r])' = {}
      BY <1>1, <1>2, <2>2 DEF Lower
  <2> QED
    BY <1>2, <1>7, <2>3
<1>11. InRound(S, r)'
    BY <1>2, <1>10 DEF InRound, Finished
<1>12. Base(r)' = Base(r)
    BY <1>1, <1>2, MadeAt DEF Base, CallsMade
<1>13. HandedIn(S, r)'
  <2>1. PICK actives : actives = Actives(r)'
      OBVIOUS
  <2> QED
    BY <1>1, <1>12, <2>1, HandedKept DEF LoopPlaces
<1> QED
    BY <1>2, <1>8, <1>9, <1>11, <1>13

(* What a process receives is what another one has handed over in the same *)
(* state.                                                                  *)
LEMMA Reception ==
    ASSUME CallInv, NEW r \in Ranks, NEW t \in Ranks, t # r, turn[r] = t,
           pc[r] \in {"collideTurn", "accelerateTurn"}, CanReceive(r, t),
           NEW S, HandedIn(S, t)
    PROVE  /\ pc[r] = "collideTurn" =>
                 \E wt : Stage(S, t, Lower(t), wt) /\ Lists(wt, Received(r, t))
           /\ pc[r] = "accelerateTurn" =>
                 \E wt : /\ Stage(S, t, Ranks, wt) /\ Pulls(t, wt, Received(r, t))
                         /\ Alive(wt) = Actives(t)
<1> DEFINE m == CallsMade(r) + 1
           k == Len(calls[r]) + 1
           call == calls[t][k]
<1>1. /\ CallsMade(r) \in Nat /\ Base(r) \in Nat /\ Len(calls[r]) = Base(r) + CallsMade(r)
      /\ CallsMade(t) \in Nat /\ Base(t) \in Nat /\ Len(calls[t]) = Base(t) + CallsMade(t)
    BY CallsMadeType
<1>2. m \in Nat \ {0} /\ Len(calls[t]) >= Base(r) + m
    BY <1>1 DEF CanReceive
<1>3. /\ SameRound(r, t) /\ Base(t) = Base(r) /\ CallsMade(t) >= m
      /\ pc[t] \in LoopPlaces /\ ~Finished(t)
  <2> HIDE DEF m
  <2> QED
    BY <1>2, AheadInRound DEF LoopPlaces
<1>4. k = Base(t) + m /\ k \in DOMAIN calls[t] /\ k > Base(t) /\ m \in 1 .. CallsMade(t)
  <2>1. DOMAIN calls[t] = 1 .. Len(calls[t])
      BY CallsType DEF CallInv, StartInv
  <2> QED
    BY <1>1, <1>3, <2>1
<1>5. call.from = Planned(TRUE, Few(t), m)
  <2>1. InLoop(t) = TRUE
      BY <1>3 DEF InLoop, Started, LoopPlaces
  <2>2. \A j \in 1 .. CallsMade(t) : calls[t][Base(t) + j].from = Planned(TRUE, Few(t), j)
      BY <2>1 DEF CallInv, CallsFollowPlan
  <2> HIDE DEF m, k
  <2> QED
    BY <1>4, <2>2
<1>6. Planned(TRUE, Few(t), m) = <<pc[r], t>>
  <2>1. Size \in Nat \ {0} /\ t \in 0 .. Size - 1
      BY NBodyAssumption DEF Ranks
  <2>2. CASE pc[r] = "collideTurn"
    <3>1. m = t + 1
        BY <2>2, MadeAt DEF CallsMade
    <3>2. m <= Size /\ m - 1 = t
        BY <2>1, <3>1
    <3> HIDE DEF m
    <3> QED
      BY <2>2, <3>2 DEF Planned
  <2>3. CASE pc[r] = "accelerateTurn"
    <3>1. m = Size + t + 1
        BY <2>3, MadeAt DEF CallsMade
    <3>2. ~(m <= Size) /\ m <= 2 * Size /\ m - 1 - Size = t
        BY <2>1, <3>1
    <3> HIDE DEF m
    <3> QED
      BY <2>3, <3>2 DEF Planned
  <2> QED
    BY <2>2, <2>3
<1>7. HandedOver(S, t, Actives(t), call)
    BY <1>3, <1>4 DEF HandedIn
<1>8. Received(r, t) = call.data
    BY DEF Received
<1> QED
    BY <1>5, <1>6, <1>7, <1>8 DEF HandedOver

(* Bodies that are counted right, and a process that meets those of        *)
(* another one.                                                            *)
CountedStage(S, r, met, u) ==
    Stage(S, r, met, u.bodies) /\ u.active = Cardinality(Alive(u.bodies))

TurnReady(S, r, t, n, u, wt, data) ==
    /\ SpreadOut(S) /\ r \in Ranks /\ t \in Ranks /\ r # t
    /\ n \in Nat /\ DOMAIN S[r] = 1 .. n /\ CountedStage(S, r, Lower(t), u)
    /\ Stage(S, t, Lower(t), wt) /\ Lists(wt, data)

(* checkRemoteCollisions() settles those with the bodies of one more     *)
(* rank, and keeps the count.                                            *)
LEMMA RemoteTurn ==
    ASSUME NEW S, NEW r, NEW t, NEW n, NEW u, NEW wt, NEW data,
           TurnReady(S, r, t, n, u, wt, data)
    PROVE  CountedStage(S, r, Lower(t) \cup {t}, CheckRemoteCollisions(u, data, r, t))
<1> DEFINE v == CheckRemoteCollisions(u, data, r, t)
<1>1. Stage(S, r, Lower(t) \cup {t}, v.bodies) /\ v.active = Cardinality(Alive(v.bodies))
    BY RemoteStage DEF TurnReady, CountedStage
<1> QED
    BY <1>1 DEF CountedStage

(* A turn of the collisions: the process of the turn hands over its      *)
(* bodies, every other one meets them.                                   *)
LEMMA CollisionRound ==
    ASSUME CallInv, BodiesInv, NEW r \in Ranks, CollisionTurn(r),
           universe[r].active = Cardinality(Actives(r)),
           NEW S, SpreadOut(S), \A q \in Ranks : InRound(S, q) /\ HandedIn(S, q)
    PROVE  InRound(S, r)' /\ HandedIn(S, r)' /\ universe'[r].active = Cardinality(Actives(r)')
<1> DEFINE u == universe[r]
           b == u.bodies
           t == turn[r]
           n == BodyCount(r)
<1>1. pc[r] = "collideTurn" /\ NextTurn(r, "accelerate")
    BY DEF CollisionTurn
<1>2. /\ CallsMade(r)' = CallsMade(r) + 1 /\ t \in Ranks
      /\ \/ t < Size - 1 /\ pc'[r] = "collideTurn" /\ turn'[r] = t + 1
         \/ ~(t < Size - 1) /\ pc'[r] = "accelerate" /\ turn'[r] = 0
    BY <1>1, TurnMade
<1>3. /\ DOMAIN universe = Ranks /\ n \in Nat /\ Sound(1 .. n, u) /\ DOMAIN b = 1 .. n
    BY BodyCountType DEF BodiesInv, CallInv, StartInv, Sound
<1>4. Stage(S, r, Lower(t), b)
    BY <1>1 DEF InRound
<1>5. DOMAIN S[r] = 1 .. n /\ b \in [1 .. n -> BodyRecords]
    BY <1>3, <1>4 DEF Stage
<1>6. u.active = Cardinality(Alive(b)) /\ Actives(r) = Alive(b)
    BY DEF Actives, Indexes, Alive
<1>7. \E w : /\ universe'[r] = w /\ Stage(S, r, Lower(t) \cup {t}, w.bodies)
             /\ w.active = Cardinality(Alive(w.bodies))
  <2>1. CASE t = r /\ UNCHANGED universe
    <3>1. Stage(S, r, Lower(t) \cup {t}, b)
        BY <1>4, <2>1, StageMet
    <3> QED
      BY <1>6, <2>1, <3>1
  <2>2. CASE /\ t # r /\ CanReceive(r, t)
             /\ universe' = [universe EXCEPT
                   ![r] = CheckRemoteCollisions(universe[r], Received(r, t), r, t)]
    <3> DEFINE v == CheckRemoteCollisions(u, Received(r, t), r, t)
    <3>1. PICK wt : Stage(S, t, Lower(t), wt) /\ Lists(wt, Received(r, t))
        BY <1>1, <1>2, <2>2, Reception
    <3>2. universe'[r] = v
        BY <1>3, <2>2
    <3>3. PICK data : data = Received(r, t)
        OBVIOUS
    <3>4. v = CheckRemoteCollisions(u, data, r, t) /\ Lists(wt, data)
        BY <3>1, <3>3
    <3>5. Stage(S, r, Lower(t) \cup {t}, v.bodies) /\ v.active = Cardinality(Alive(v.bodies))
      <4>1. t \in Ranks /\ r # t /\ n \in Nat /\ DOMAIN S[r] = 1 .. n
          BY <1>2, <1>3, <1>5, <2>2
      <4>2. Stage(S, r, Lower(t), u.bodies) /\ u.active = Cardinality(Alive(u.bodies))
          BY <1>4, <1>6
      <4> HIDE DEF u, v, t, n
      <4>3. TurnReady(S, r, t, n, u, wt, data)
          BY <3>1, <3>4, <4>1, <4>2 DEF TurnReady, CountedStage
      <4>4. CountedStage(S, r, Lower(t) \cup {t}, CheckRemoteCollisions(u, data, r, t))
          BY <4>3, RemoteTurn
      <4>5. CountedStage(S, r, Lower(t) \cup {t}, v)
          BY <3>4, <4>4
      <4> QED
        BY <4>5 DEF CountedStage
    <3> QED
      BY <3>2, <3>5
  <2> QED
    BY <2>1, <2>2 DEF CollisionTurn
<1>8. Actives(r)' = Alive(universe'[r].bodies)
    BY DEF Actives, Indexes, Alive
<1>9. InRound(S, r)'
  <2>1. Stage(S, r, Lower(t) \cup {t}, universe'[r].bodies)
      BY <1>7
  <2>2. CASE t < Size - 1
    <3>1. pc'[r] = "collideTurn" /\ turn'[r] = t + 1
        BY <1>2, <2>2
    <3>2. Lower(t) \cup {t} = Lower(turn[r])'
        BY <1>2, <2>2, <3>1, LowerNext DEF Lower
    <3>3. Stage(S, r, Lower(turn[r])', universe'[r].bodies)
        BY <2>1, <3>2
    <3> QED
      BY <3>1, <3>3 DEF InRound, Finished
  <2>3. CASE ~(t < Size - 1)
    <3>1. pc'[r] = "accelerate"
        BY <1>2, <2>3
    <3>2. Stage(S, r, Ranks, universe'[r].bodies)
        BY <1>2, <2>1, <2>3, LowerNext
    <3> QED
      BY <3>1, <3>2 DEF InRound, Finished
  <2> QED
    BY <2>2, <2>3
<1>10. \E name, root, data : Call(r, name, root, data) /\ NewlyHanded(S, r, Actives(r)', data)
  <2>1. CASE t = r /\ Call(r, "broadcast", r, CollisionDataOf(r))
    <3>1. Lists(b, CollisionDataOf(r))
        BY <1>3, <1>5, CollisionsListed
    <3>2. \E wt : Stage(S, r, Lower(r), wt) /\ Lists(wt, CollisionDataOf(r))
        BY <1>4, <2>1, <3>1
    <3> QED
      BY <1>1, <2>1, <3>2 DEF NewlyHanded
  <2>2. CASE t # r /\ Call(r, "broadcast", t, << >>)
      BY <1>1, <2>2 DEF NewlyHanded
  <2> QED
    BY <2>1, <2>2 DEF CollisionTurn
<1>11. Base(r)' = Base(r)
    BY <1>2, <1>10, CallBase
<1>12. HandedIn(S, r)'
  <2>1. PICK actives : actives = Actives(r)'
      OBVIOUS
  <2>2. \E name, root, data : Call(r, name, root, data) /\ NewlyHanded(S, r, actives, data)
      BY <1>10, <2>1
  <2> QED
    BY <1>1, <1>11, <2>1, <2>2, HandedKept DEF LoopPlaces
<1> QED
    BY <1>7, <1>8, <1>9, <1>12

(* updateAccelerations() with the bodies of the process: each is pulled  *)
(* by all the others.                                                    *)
LEMMA AccelerateRound ==
    ASSUME CallInv, BodiesInv, NEW r \in Ranks, LocalAccelerations(r),
           universe[r].active = Cardinality(Actives(r)),
           NEW S, SpreadOut(S), InRound(S, r), HandedIn(S, r)
    PROVE  /\ InRound(S, r)' /\ HandedIn(S, r)'
           /\ universe'[r].active = Cardinality(Actives(r)') /\ Actives(r)' = Actives(r)
<1> DEFINE b == universe[r].bodies
           n == BodyCount(r)
<1>1. PICK w : w = LocallyPulled(r)
    OBVIOUS
<1>2. /\ pc[r] = "accelerate" /\ pc' = [pc EXCEPT ![r] = "accelerateTurn"]
      /\ universe' = [universe EXCEPT ![r].bodies = w] /\ UNCHANGED <<turn, calls>>
    BY <1>1 DEF LocalAccelerations, GoTo
<1>3. /\ DOMAIN universe = Ranks /\ turn[r] = 0 /\ pc'[r] = "accelerateTurn"
      /\ n \in Nat /\ Sound(1 .. n, universe[r]) /\ Indexes(r) = 1 .. n
    BY <1>2, BodyCountType
    DEF BodiesInv, CallInv, StartInv, TurnInv, TurnsOf, Sound, Indexes
<1>4. universe'[r].bodies = w /\ universe'[r].active = universe[r].active
    BY <1>2, <1>3 DEF Sound
<1>5. Stage(S, r, Ranks, b)
    BY <1>2 DEF InRound
<1> HIDE DEF n
<1>6. /\ Alike(b, w) /\ w = [i \in DOMAIN w |-> w[i]]
      /\ \A i \in Actives(r) : Enumerates(FromsOf(w[i].acceleration), PullersOf(r, i, {}))
    BY <1>1, <1>3, <1>5, LocalPulls
<1>7. Stage(S, r, Ranks, w) /\ Alive(w) = Alive(b)
    BY <1>5, <1>6, AlikeStage
<1>8. Actives(r)' = Actives(r)
    BY <1>4, <1>7, ActivesAlive DEF Actives, Indexes, Alive
<1>9. Lower(turn[r])' = {}
  <2>1. 0 \in Ranks
      BY NBodyAssumption DEF Ranks
  <2> QED
    BY <1>2, <1>3, <2>1, LowerNext DEF Lower
<1>10. PulledBodies(r, Lower(turn[r]))'
  <2>1. PICK met : met = {}
      OBVIOUS
  <2>2. \A p \in met \cup {r} : Actives(p)' = Actives(p)
      BY <1>8, <2>1
  <2>3. \A i : PullersOf(r, i, met)' = PullersOf(r, i, met)
      BY <2>2, PullersSame
  <2>4. \A i \in Actives(r) : Enumerates(FromsOf(w[i].acceleration), PullersOf(r, i, met))
      BY <1>6, <2>1
  <2>5. PulledBodies(r, met)'
      BY <1>4, <1>8, <2>3, <2>4 DEF PulledBodies
  <2> QED
    BY <1>9, <2>1, <2>5
<1>11. InRound(S, r)'
    BY <1>3, <1>4, <1>7, <1>10 DEF InRound, Finished
<1>12. Base(r)' = Base(r)
  <2>1. Size \in Nat
      BY NBodyAssumption
  <2> QED
    BY <1>2, <1>3, <2>1, MadeAt DEF Base, CallsMade
<1>13. HandedIn(S, r)'
  <2>1. PICK actives : actives = Actives(r)'
      OBVIOUS
  <2> QED
    BY <1>2, <1>8, <1>12, <2>1, HandedKept DEF LoopPlaces
<1> QED
    BY <1>4, <1>8, <1>11, <1>13

(* A turn of the accelerations: those of one more rank pull each body,   *)
(* and no body is given up.                                              *)
LEMMA AccelerationRound ==
    ASSUME CallInv, BodiesInv, RootsFirst, NEW r \in Ranks, AccelerationTurn(r),
           universe[r].active = Cardinality(Actives(r)),
           NEW S, SpreadOut(S), \A q \in Ranks : InRound(S, q) /\ HandedIn(S, q)
    PROVE  /\ InRound(S, r)' /\ HandedIn(S, r)'
           /\ universe'[r].active = Cardinality(Actives(r)') /\ Actives(r)' = Actives(r)
<1> DEFINE b == universe[r].bodies
           t == turn[r]
           n == BodyCount(r)
<1>1. pc[r] = "accelerateTurn" /\ NextTurn(r, "move")
    BY DEF AccelerationTurn
<1>2. /\ CallsMade(r)' = CallsMade(r) + 1 /\ t \in Ranks
      /\ \/ t < Size - 1 /\ pc'[r] = "accelerateTurn" /\ turn'[r] = t + 1
         \/ ~(t < Size - 1) /\ pc'[r] = "move" /\ turn'[r] = 0
    BY <1>1, TurnMade
<1>3. /\ DOMAIN universe = Ranks /\ n \in Nat /\ Sound(1 .. n, universe[r])
      /\ Indexes(r) = 1 .. n /\ DOMAIN b = 1 .. n
    BY BodyCountType DEF BodiesInv, CallInv, StartInv, Sound, Indexes
<1>4. Stage(S, r, Ranks, b) /\ PulledBodies(r, Lower(t))
    BY <1>1 DEF InRound
<1>5. b \in [1 .. n -> BodyRecords] /\ Actives(r) = Alive(b)
    BY <1>3, <1>4, ActivesAlive DEF Stage
<1>6. PICK met : met = Lower(t)
    OBVIOUS
<1>7. t \notin met /\ \A i \in Actives(r) :
                         Enumerates(FromsOf(b[i].acceleration), PullersOf(r, i, met))
    BY <1>2, <1>4, <1>6, LowerNext DEF PulledBodies
<1>8. PICK w : /\ universe'[r].bodies = w /\ universe'[r].active = universe[r].active
               /\ Alive(w) = Alive(b) /\ Stage(S, r, Ranks, w)
               /\ \A i \in Actives(r) :
                     Enumerates(FromsOf(w[i].acceleration), PullersOf(r, i, met \cup {t}))
  <2>1. CASE t = r /\ UNCHANGED universe
    <3>1. \A i : PullersOf(r, i, met) = PullersOf(r, i, met \cup {t})
        BY <2>1, PullersMet
    <3>2. \A i \in Actives(r) :
             Enumerates(FromsOf(b[i].acceleration), PullersOf(r, i, met \cup {t}))
        BY <1>7, <3>1
    <3> QED
      BY <1>4, <2>1, <3>2
  <2>2. CASE /\ t # r /\ CanReceive(r, t)
             /\ universe' = [universe EXCEPT ![r].bodies = RemotelyPulled(r, Received(r, t))]
    <3>1. PICK data : data = Received(r, t)
        OBVIOUS
    <3>2. PICK wt : Stage(S, t, Ranks, wt) /\ Pulls(t, wt, data) /\ Alive(wt) = Actives(t)
        BY <1>1, <1>2, <2>2, <3>1, Reception
    <3>3. PICK w : w = RemotelyPulled(r, data)
        OBVIOUS
    <3>4. universe'[r].bodies = w /\ universe'[r].active = universe[r].active
        BY <1>3, <2>2, <3>1, <3>3 DEF Sound
    <3> HIDE DEF n, t
    <3>5. /\ Alike(b, w) /\ w = [i \in DOMAIN w |-> w[i]]
          /\ \A i \in Actives(r) :
                Enumerates(FromsOf(w[i].acceleration), PullersOf(r, i, met \cup {t}))
        BY <1>2, <1>3, <1>4, <1>7, <2>2, <3>2, <3>3, RemotePulls
    <3>6. Stage(S, r, Ranks, w) /\ Alive(w) = Alive(b)
        BY <1>4, <3>5, AlikeStage
    <3> QED
      BY <3>4, <3>5, <3>6
  <2> QED
    BY <2>1, <2>2 DEF AccelerationTurn
<1>9. Actives(r)' = Actives(r)
    BY <1>5, <1>8 DEF Actives, Indexes, Alive
<1>10. PICK ranks : ranks = met \cup {t}
    OBVIOUS
<1>11. PulledBodies(r, ranks)'
  <2>1. \A p \in Ranks \ {r} : Actives(p)' = Actives(p)
    <3>1. \A p \in Ranks \ {r} : universe'[p] = universe[p]
        BY StepFrame DEF Process
    <3> QED
      BY <3>1 DEF Actives, Indexes
  <2>2. \A p \in ranks \cup {r} : Actives(p)' = Actives(p)
      BY <1>2, <1>6, <1>9, <1>10, <2>1 DEF Lower
  <2>3. \A i : PullersOf(r, i, ranks)' = PullersOf(r, i, ranks)
      BY <2>2, PullersSame
  <2>4. \A i \in Actives(r) : Enumerates(FromsOf(w[i].acceleration), PullersOf(r, i, ranks))
      BY <1>8, <1>10
  <2> QED
    BY <1>8, <1>9, <2>3, <2>4 DEF PulledBodies
<1>12. InRound(S, r)'
  <2>1. CASE t < Size - 1
    <3>1. pc'[r] = "accelerateTurn" /\ turn'[r] = t + 1
        BY <1>2, <2>1
    <3>2. ranks = Lower(turn[r])'
        BY <1>2, <1>6, <1>10, <2>1, <3>1, LowerNext DEF Lower
    <3>3. PulledBodies(r, Lower(turn[r]))'
        BY <1>11, <3>2
    <3> QED
      BY <1>8, <3>1, <3>3 DEF InRound, Finished
  <2>2. CASE ~(t < Size - 1)
    <3>1. pc'[r] = "move"
        BY <1>2, <2>2
    <3>2. ranks = Ranks
        BY <1>2, <1>6, <1>10, <2>2, LowerNext
    <3>3. PulledBodies(r, Ranks)'
        BY <1>11, <3>2
    <3> QED
      BY <1>8, <3>1, <3>3 DEF InRound, Finished
  <2> QED
    BY <2>1, <2>2
<1>13. \E name, root, data : Call(r, name, root, data) /\ NewlyHanded(S, r, Actives(r), data)
  <2>1. CASE t = r /\ Call(r, "broadcast", r, AccelerationDataOf(r))
    <3>1. Pulls(r, b, AccelerationDataOf(r))
        BY <1>3, <1>5, PullsListed
    <3>2. \E wt : /\ Stage(S, r, Ranks, wt) /\ Pulls(r, wt, AccelerationDataOf(r))
                  /\ Alive(wt) = Actives(r)
        BY <1>4, <1>5, <3>1
    <3> QED
      BY <1>1, <2>1, <3>2 DEF NewlyHanded
  <2>2. CASE t # r /\ Call(r, "broadcast", t, << >>)
      BY <1>1, <2>2 DEF NewlyHanded
  <2> QED
    BY <2>1, <2>2 DEF AccelerationTurn
<1>14. Base(r)' = Base(r)
    BY <1>2, <1>13, CallBase
<1>15. HandedIn(S, r)'
  <2>1. PICK actives : actives = Actives(r)
      OBVIOUS
  <2>2. \E name, root, data : Call(r, name, root, data) /\ NewlyHanded(S, r, actives, data)
      BY <1>13, <2>1
  <2> QED
    BY <1>1, <1>9, <1>14, <2>1, <2>2, HandedKept DEF LoopPlaces
<1> QED
    BY <1>8, <1>9, <1>12, <1>15

(* Counting the bodies of the job changes none of them.                  *)
LEMMA CountRound ==
    ASSUME CallInv, NEW r \in Ranks, CountBodies(r), NEW S, InRound(S, r)
    PROVE  InRound(S, r)' /\ HandedIn(S, r)' /\ universe'[r] = universe[r]
<1>1. /\ Finished(r) /\ UNCHANGED <<universe, calls>> /\ DOMAIN pc = Ranks
      /\ \E next \in {"collide", "save"} : pc' = [pc EXCEPT ![r] = next]
    BY DEF CountBodies, GoTo, LoopTest, Finished, CallInv, StartInv
<1>2. universe[r].bodies = S[r]
    BY <1>1 DEF InRound
<1>3. InRound(S, r)'
    BY <1>1, <1>2 DEF InRound, Finished
<1>4. ASSUME pc'[r] = "collide" PROVE Base(r)' = Len(calls[r])
  <2>1. Len(calls[r]) \in Nat
      BY CallsType DEF CallInv, StartInv
  <2> QED
    BY <1>1, <1>4, <2>1, MadeAt DEF Base, CallsMade
<1>5. HandedIn(S, r)'
  <2>1. CASE pc'[r] = "collide"
    <3>1. DOMAIN calls[r] = 1 .. Len(calls[r]) /\ Len(calls[r]) \in Nat
        BY CallsType DEF CallInv, StartInv
    <3>2. \A k \in DOMAIN calls[r] : ~(k > Base(r)')
        BY <1>4, <2>1, <3>1
    <3> QED
      BY <1>1, <3>2 DEF HandedIn
  <2>2. CASE pc'[r] = "save"
      BY <2>2 DEF HandedIn, LoopPlaces
  <2> QED
    BY <1>1, <2>1, <2>2
<1> QED
    BY <1>1, <1>3, <1>5

(* Nothing is left to say once a process has left the loop.                *)
LEMMA LateRound ==
    ASSUME CallInv, NEW r \in Ranks,
           \/ StartFails(r) \/ SaveTurn(r) \/ LeaveBarrier(r) \/ OwnDistances(r)
           \/ DistanceTurn(r) \/ LeaveOutStatistic(r) \/ EnterStatistic(r) \/ LeaveStatistic(r),
           NEW S
    PROVE  /\ InRound(S, r)' /\ HandedIn(S, r)' /\ universe'[r] = universe[r]
           /\ pc[r] \notin {"accelerateTurn", "move", "count"}
<1>1. DOMAIN pc = Ranks
    BY DEF CallInv, StartInv
<1>2. /\ pc'[r] \notin LoopPlaces \cup {"start"} /\ UNCHANGED universe
      /\ pc[r] \notin {"accelerateTurn", "move", "count"}
    BY <1>1 DEF StartFails, SaveTurn, LeaveBarrier, OwnDistances, DistanceTurn,
       LeaveOutStatistic, EnterStatistic, LeaveStatistic, GoTo, NextTurn, NextStatistic, LoopPlaces
<1> QED
    BY <1>2 DEF InRound, HandedIn, Finished, LoopPlaces

(* The bodies T of the processes, none of which meet two others.           *)
LEMMA NextSpreadOut ==
    ASSUME NEW T, NEW bodies, DOMAIN T = Ranks,
           \A q \in Ranks : DOMAIN T[q] \subseteq Nat /\ T[q] \in [DOMAIN T[q] -> BodyRecords],
           \A x \in bodies : x \in Ranks \X Nat /\ x[2] \in Alive(T[x[1]]),
           \A q \in Ranks : \A i \in Alive(T[q]) : <<q, i>> \in bodies,
           ~Crowd([x \in bodies |-> T[x[1]][x[2]]])
    PROVE  SpreadOut(T)
<1> DEFINE F == Flat(T)
<1>1. /\ DOMAIN F = Ids(T) /\ \A x \in Ids(T) : F[x] = T[x[1]][x[2]]
    BY DEF Flat
<1>2. ASSUME NEW x \in Alive(F)
      PROVE  x \in bodies /\ F[x] = T[x[1]][x[2]]
  <2>1. x \in Ids(T) /\ IsActive(F[x]) /\ F[x] = T[x[1]][x[2]]
      BY <1>1 DEF Alive
  <2>2. x[1] \in Ranks /\ x[2] \in Alive(T[x[1]]) /\ x = <<x[1], x[2]>>
      BY <2>1 DEF Ids, Alive
  <2> QED
    BY <2>1, <2>2
<1>3. ASSUME NEW x \in bodies
      PROVE  x \in Alive(F)
  <2>1. x \in Ids(T) /\ IsActive(T[x[1]][x[2]])
      BY DEF Ids, Alive
  <2> QED
    BY <1>1, <2>1 DEF Alive
<1> HIDE DEF F
<1>4. Alive(F) = bodies
    BY <1>2, <1>3
<1>5. [x \in Alive(F) |-> F[x]] = [x \in bodies |-> T[x[1]][x[2]]]
    BY <1>2, <1>4
<1>6. Uncrowded(F)
    BY <1>5 DEF Uncrowded
<1> QED
    BY <1>6 DEF SpreadOut, F

(* Moving the bodies ends the state: unless three of them meet, the next *)
(* one begins with the bodies as they are.                               *)
LEMMA MoveRound ==
    ASSUME CallInv, CallInv', BodiesInv, RootsFirst, CountsRight, NEW r \in Ranks, Move(r),
           ~crowded', NEW S, SpreadOut(S), \A q \in Ranks : InRound(S, q) /\ HandedIn(S, q)
    PROVE  CountsRight' /\ RoundInv'
<1> DEFINE b == universe[r].bodies
           n == BodyCount(r)
           w == [i \in Indexes(r) |-> Moved(b[i])]
           full == Base(r) + 2 * Size + 1
<1>1. /\ DOMAIN universe = Ranks /\ DOMAIN pc = Ranks /\ DOMAIN turn = Ranks
      /\ n \in Nat /\ Sound(1 .. n, universe[r])
      /\ Indexes(r) = 1 .. n /\ DOMAIN b = 1 .. n /\ Size \in Nat \ {0}
    BY BodyCountType, NBodyAssumption
    DEF BodiesInv, CallInv, StartInv, TurnInv, Sound, Indexes
<1>2. /\ pc[r] = "move" /\ pc'[r] = "count" /\ Call(r, "allReduce", NoRoot, universe[r].active)
      /\ universe' = [universe EXCEPT ![r].bodies = w] /\ UNCHANGED turn
    BY <1>1 DEF Move, GoTo
<1>3. universe'[r].bodies = w /\ universe'[r].active = universe[r].active
    BY <1>1, <1>2 DEF Sound
<1>4. Process(r) /\ \A q \in Ranks \ {r} : /\ pc'[q] = pc[q] /\ turn'[q] = turn[q]
                                           /\ universe'[q] = universe[q] /\ calls'[q] = calls[q]
  <2>1. Process(r)
      BY DEF Process
  <2> QED
    BY <2>1, StepFrame
<1>5. Stage(S, r, Ranks, b)
    BY <1>2 DEF InRound
<1>6. b \in [1 .. n -> BodyRecords]
    BY <1>1, <1>5 DEF Stage
<1>7. w \in [1 .. n -> BodyRecords] /\ \A i \in 1 .. n : w[i].mass = b[i].mass
  <2>1. \A i \in 1 .. n : Moved(b[i]) \in BodyRecords /\ Moved(b[i]).mass = b[i].mass
      BY <1>6, MovedType
  <2> QED
    BY <1>1, <2>1
<1>8. Indexes(r)' = 1 .. n /\ Actives(r)' = Actives(r)
  <2>1. \A i \in 1 .. n : IsActive(w[i]) <=> IsActive(b[i])
      BY <1>7 DEF IsActive
  <2>2. DOMAIN w = 1 .. n
      BY <1>1
  <2> HIDE DEF w, n
  <2> QED
    BY <1>1, <1>3, <2>1, <2>2 DEF Actives, Indexes
<1> HIDE DEF w, n
<1>9. universe'[r].active = Cardinality(Actives(r)')
    BY <1>3, <1>8 DEF CountsRight
<1>10. /\ CallsMade(r) = 2 * Size /\ CallsMade(r)' = 2 * Size + 1 /\ Base(r) \in Nat
       /\ Len(calls[r]) = Base(r) + 2 * Size
    BY <1>2, MadeAt, CallsMadeType DEF CallsMade
<1>11. Base(r)' = Base(r)
  <2>1. CallsMade(r)' = CallsMade(r) + 1
      BY <1>10
  <2> QED
    BY <1>2, <2>1, CallBase
<1>12. Len(calls'[r]) = full
  <2> DEFINE call == [call |-> "allReduce", root |-> NoRoot, data |-> universe[r].active,
                      from |-> <<pc[r], turn[r]>>]
  <2>1. calls' = [calls EXCEPT ![r] = Append(@, call)]
      BY <1>2 DEF Call
  <2>2. CallsAreSequences
      BY DEF CallInv, StartInv
  <2> HIDE DEF call
  <2>3. Len(calls'[r]) = Len(calls[r]) + 1
      BY <2>1, <2>2, CallAppended
  <2> QED
    BY <1>1, <1>10, <2>3
<1>13. ASSUME NEW q \in Ranks, q # r
       PROVE  /\ Len(calls'[q]) \in Nat /\ ~Finished(q)
              /\ pc[q] = "count" => Len(calls'[q]) = full
              /\ pc[q] # "count" => Len(calls'[q]) < full
  <2>1. pc[q] \in {"accelerateTurn", "move", "count"} /\ ~Finished(q) /\ Base(q) = Base(r)
      BY <1>2, <1>13, PullersKnown
  <2>2. CallsMade(q) \in Nat /\ Len(calls[q]) = Base(q) + CallsMade(q) /\ calls'[q] = calls[q]
      BY <1>4, <1>13, CallsMadeType
  <2>3. pc[q] = "count" => CallsMade(q) = 2 * Size + 1
      BY MadeAt DEF CallsMade
  <2>4. pc[q] # "count" => CallsMade(q) < 2 * Size + 1
    <3>1. turn[q] \in TurnsOf(pc[q]) /\ Few(q) \in BOOLEAN /\ pc[q] \in LoopPlaces
        BY <2>1 DEF CallInv, TurnInv, Few, LoopPlaces
    <3> QED
      BY <1>1, <2>2, <3>1, MadeInLoop DEF CallsMade
  <2> QED
    BY <1>1, <1>10, <2>1, <2>2, <2>3, <2>4
<1> HIDE DEF full
<1>14. full \in Nat
    BY <1>1, <1>10 DEF full
<1>15. CASE \A q \in Ranks \ {r} : pc[q] = "count"
  <2>1. \A q \in Ranks : pc'[q] = "count" /\ Len(calls'[q]) = full
      BY <1>2, <1>4, <1>12, <1>13, <1>15
  <2>2. \A q \in Ranks : Finished(q)'
      BY <1>14, <2>1 DEF Finished, EverybodyCame
  <2>3. PICK T : T = [q \in Ranks |-> universe'[q].bodies]
      OBVIOUS
  <2>4. ASSUME NEW q \in Ranks
        PROVE  /\ DOMAIN T[q] \subseteq Nat /\ T[q] \in [DOMAIN T[q] -> BodyRecords]
               /\ DOMAIN T[q] = Indexes(q)' /\ Actives(q) = Alive(T[q])
               /\ Actives(q)' = Actives(q)
    <3>1. CASE q = r
      <4>1. T[r] = w /\ DOMAIN w = 1 .. n
          BY <1>3, <1>7, <2>3
      <4>2. Actives(r)' = Alive(T[r])
          BY <2>3 DEF Actives, Indexes, Alive
      <4> QED
        BY <1>1, <1>7, <1>8, <3>1, <4>1, <4>2
    <3>2. CASE q # r
      <4>1. T[q] = universe[q].bodies /\ universe'[q] = universe[q] /\ pc[q] = "count"
          BY <1>4, <1>15, <2>3, <3>2
      <4>2. universe[q].bodies \in [Indexes(q) -> BodyRecords]
          BY <4>1 DEF InRound
      <4>3. Indexes(q) \subseteq Nat
        <5>1. Sound(1 .. BodyCount(q), universe[q]) /\ BodyCount(q) \in Nat
            BY BodyCountType DEF BodiesInv, CallInv, StartInv
        <5> QED
          BY <5>1 DEF Sound, Indexes
      <4> QED
        BY <4>1, <4>2, <4>3 DEF Actives, Indexes, Alive
    <3> QED
      BY <3>1, <3>2
  <2>5. PICK bodies : bodies = ActiveBodies
      OBVIOUS
  <2>6. SpreadOut(T)
    <3>1. \A x \in bodies : x \in Ranks \X Nat /\ x[2] \in Alive(T[x[1]])
      <4>1. \A x \in bodies : \E q \in Ranks : \E i \in Actives(q) : x = <<q, i>>
          BY <2>5 DEF ActiveBodies
      <4>2. \A q \in Ranks : \A i \in Actives(q) : i \in Nat /\ i \in Alive(T[q])
          BY <2>4 DEF Alive
      <4> QED
        BY <4>1, <4>2
    <3>2. \A q \in Ranks : \A i \in Alive(T[q]) : <<q, i>> \in bodies
        BY <2>4, <2>5 DEF ActiveBodies
    <3>3. ~Crowd([x \in bodies |-> universe'[x[1]].bodies[x[2]]])
        BY <1>15, <2>5 DEF Move
    <3>4. [x \in bodies |-> universe'[x[1]].bodies[x[2]]] = [x \in bodies |-> T[x[1]][x[2]]]
        BY <2>3, <3>1
    <3>5. ~Crowd([x \in bodies |-> T[x[1]][x[2]]])
        BY <3>3, <3>4
    <3>6. DOMAIN T = Ranks
        BY <2>3
    <3> QED
      BY <2>4, <3>1, <3>2, <3>5, <3>6, NextSpreadOut
  <2>7. \A q \in Ranks : InRound(T, q)'
    <3>1. \A q \in Ranks : universe'[q].bodies = T[q]
        BY <2>3
    <3>2. \A q \in Ranks : universe'[q].bodies \in [Indexes(q)' -> BodyRecords]
        BY <2>4, <3>1
    <3> QED
      BY <2>1, <3>1, <3>2 DEF InRound
  <2>8. \A q \in Ranks : HandedIn(T, q)'
      BY <2>2 DEF HandedIn
  <2>9. CountsRight'
    <3>1. \A q \in Ranks \ {r} : universe'[q].active = Cardinality(Actives(q)')
        BY <1>4, <2>4 DEF CountsRight
    <3> QED
      BY <1>9, <3>1 DEF CountsRight
  <2> QED
    BY <2>6, <2>7, <2>8, <2>9 DEF RoundInv
<1>16. CASE \E p \in Ranks \ {r} : pc[p] # "count"
  <2>1. PICK p \in Ranks \ {r} : Len(calls'[p]) < full /\ Len(calls'[p]) \in Nat
      BY <1>13, <1>16
  <2>2. \A q \in Ranks : ~Finished(q)'
    <3> SUFFICES ASSUME NEW q \in Ranks, Finished(q)' PROVE FALSE
        OBVIOUS
    <3>1. Len(calls'[q]) = full
      <4>1. q # r => pc[q] = "count"
          BY <1>4 DEF Finished
      <4> QED
        BY <1>12, <1>13, <4>1
    <3>2. Len(calls'[p]) >= Len(calls'[q])
        BY DEF Finished, EverybodyCame
    <3> QED
      BY <1>14, <2>1, <3>1, <3>2
  <2>3. \A q \in Ranks \ {r} : Finished(q)' <=> Finished(q)
      BY <1>13, <2>2
  <2>4. InRound(S, r)'
    <3>1. universe'[r].bodies \in [Indexes(r)' -> BodyRecords]
        BY <1>3, <1>7, <1>8
    <3> QED
      BY <1>2, <2>2, <3>1 DEF InRound
  <2>5. HandedIn(S, r)'
    <3>1. PICK actives : actives = Actives(r)'
        OBVIOUS
    <3>2. \E name, root, data : Call(r, name, root, data) /\ NewlyHanded(S, r, actives, data)
        BY <1>2 DEF NewlyHanded
    <3> QED
      BY <1>2, <1>8, <1>11, <3>1, <3>2, HandedKept DEF LoopPlaces
  <2> QED
    BY <1>4, <1>8, <1>9, <2>3, <2>4, <2>5, RoundStays
<1> QED
    BY <1>15, <1>16

(* Where in the file a line is that a process reads.                       *)
Place(r, i) == CalculateStart(r, given.universe.count, Size) + i

(* A line that a process reads is in its block of the file.              *)
LEMMA LinesPlaced ==
    ASSUME given.universe \in Universes, NEW r \in Ranks, NEW i \in DOMAIN OwnLines(r)
    PROVE  /\ Place(r, i) \in DOMAIN given.universe.lines
           /\ OwnLines(r)[i] = given.universe.lines[Place(r, i)]
           /\ CalculateStart(r, given.universe.count, Size) < Place(r, i)
           /\ Place(r, i) <= CalculateFinish(r, given.universe.count, Size)
<1> DEFINE lines == given.universe.lines
           count == given.universe.count
           start == CalculateStart(r, count, Size)
           finish == CalculateFinish(r, count, Size)
           end == IF finish < Len(lines) THEN finish ELSE Len(lines)
           S == Range(lines)
           own == OwnLines(r)
<1>1. count \in Nat /\ lines \in Seq(S) /\ Size \in Nat \ {0} /\ r \in 0 .. Size - 1
    BY NBodyAssumption DEF Ranks
<1>2. start \in Nat /\ finish \in Nat
  <2> HIDE DEF count
  <2> QED
    BY <1>1, BlockFits
<1>3. Len(lines) \in Nat /\ end \in Nat /\ end <= Len(lines) /\ end <= finish
      /\ DOMAIN lines = 1 .. Len(lines) /\ \A k \in 1 .. Len(lines) : lines[k] \in S
    BY <1>1, <1>2 DEF Range
<1>4. own = SubSeq(lines, start + 1, end)
    BY DEF OwnLines, Lines
<1>5. Place(r, i) = start + i /\ i \in DOMAIN own
    BY DEF Place
<1> HIDE DEF lines, count, start, finish, end, S, own
<1>6. \A k \in start + 1 .. end : lines[k] \in S
    BY <1>2, <1>3
<1>7. CASE start + 1 <= end
  <2>1. Len(own) = end - start /\ own \in Seq(S)
        /\ \A k \in 1 .. end - start : own[k] = lines[start + k]
      BY <1>2, <1>3, <1>4, <1>6, <1>7
  <2>2. i \in 1 .. end - start
      BY <1>5, <2>1
  <2>3. start + i \in 1 .. Len(lines) /\ start < start + i /\ start + i <= finish
      BY <1>2, <1>3, <2>2
  <2>4. own[i] = lines[start + i]
      BY <2>1, <2>2
  <2> QED
    BY <1>3, <1>5, <2>3, <2>4 DEF own, lines, start, finish, count
<1>8. CASE ~(start + 1 <= end)
  <2>1. own \in Seq(S) /\ Len(own) = 0
      BY <1>2, <1>3, <1>4, <1>6, <1>8, SubSeqProperties
  <2>2. DOMAIN own = {}
      BY <2>1
  <2> QED
    BY <1>5, <2>2
<1> QED
    BY <1>7, <1>8

(* Different lines, of one process or of two.                              *)
LEMMA PlacesDiffer ==
    ASSUME given.universe \in Universes,
           NEW r \in Ranks, NEW i \in DOMAIN OwnLines(r),
           NEW q \in Ranks, NEW j \in DOMAIN OwnLines(q), Place(r, i) = Place(q, j)
    PROVE  r = q /\ i = j
<1> DEFINE count == given.universe.count
<1>1. count \in Nat /\ Size \in Nat \ {0} /\ r \in 0 .. Size - 1 /\ q \in 0 .. Size - 1
    BY NBodyAssumption DEF Ranks
<1>2. i \in Nat /\ j \in Nat
    BY OwnLinesFit
<1>3. /\ CalculateStart(r, count, Size) \in Nat /\ CalculateStart(q, count, Size) \in Nat
      /\ CalculateFinish(r, count, Size) \in Nat /\ CalculateFinish(q, count, Size) \in Nat
      /\ r < q => CalculateFinish(r, count, Size) <= CalculateStart(q, count, Size)
      /\ q < r => CalculateFinish(q, count, Size) <= CalculateStart(r, count, Size)
  <2> HIDE DEF count
  <2>1. r \in Nat /\ q \in Nat
      BY <1>1
  <2> QED
    BY <1>1, <2>1, BlockFits, BlocksInOrder
<1>4. /\ CalculateStart(r, count, Size) < Place(r, i)
      /\ Place(r, i) <= CalculateFinish(r, count, Size)
      /\ CalculateStart(q, count, Size) < Place(q, j)
      /\ Place(q, j) <= CalculateFinish(q, count, Size)
    BY LinesPlaced
<1>5. /\ Place(r, i) = CalculateStart(r, count, Size) + i
      /\ Place(q, j) = CalculateStart(q, count, Size) + j
    BY DEF Place
<1> HIDE DEF count
<1>6. Place(r, i) \in Int
    BY <1>2, <1>3, <1>5
<1>7. r = q
  <2>1. ~(r < q)
      BY <1>1, <1>3, <1>4, <1>6
  <2>2. ~(q < r)
      BY <1>1, <1>3, <1>4, <1>6
  <2> QED
    BY <1>1, <2>1, <2>2
<1>8. CalculateStart(r, count, Size) = CalculateStart(q, count, Size)
    BY <1>7
<1>9. i = j
  <2>1. PICK start \in Nat : /\ start = CalculateStart(r, count, Size)
                             /\ start = CalculateStart(q, count, Size)
      BY <1>3, <1>8
  <2>2. start + i = start + j
      BY <1>5, <2>1
  <2> QED
    BY <1>2, <2>2
<1> QED
    BY <1>7, <1>9

(* The bodies that the processes load are those of the file.               *)
LEMMA LoadedSpreadOut ==
    ASSUME GoodUniverses, given.universe \in Universes,
           ~Crowd([k \in GoodLines(given.universe.lines) |-> given.universe.lines[k]]),
           NEW S, S = [r \in Ranks |-> Loading(r)]
    PROVE  SpreadOut(S)
<1> DEFINE lines == given.universe.lines
           all == [k \in GoodLines(lines) |-> lines[k]]
           F == Flat(S)
           a == [x \in Alive(F) |-> F[x]]
<1>1. ASSUME NEW r \in Ranks
      PROVE  /\ DOMAIN S[r] = GoodLines(OwnLines(r)) /\ DOMAIN S[r] \subseteq DOMAIN OwnLines(r)
             /\ DOMAIN S[r] \subseteq Nat /\ S[r] \in [DOMAIN S[r] -> BodyRecords]
             /\ \A i \in DOMAIN S[r] : /\ S[r][i] = NewBody(OwnLines(r)[i])
                                       /\ OwnLines(r)[i] # BadLine
  <2>1. /\ DOMAIN S[r] = GoodLines(OwnLines(r))
        /\ S[r] = [i \in GoodLines(OwnLines(r)) |-> NewBody(OwnLines(r)[i])]
      BY DEF Loading
  <2>2. /\ GoodLines(OwnLines(r)) \subseteq DOMAIN OwnLines(r)
        /\ \A i \in GoodLines(OwnLines(r)) : OwnLines(r)[i] # BadLine
      BY DEF GoodLines
  <2>3. DOMAIN OwnLines(r) \subseteq Nat
      BY OwnLinesFit
  <2>4. \A i \in GoodLines(OwnLines(r)) : NewBody(OwnLines(r)[i]) \in BodyRecords
      BY <2>2, GoodLineIsBody
  <2> QED
    BY <2>1, <2>2, <2>3, <2>4
<1>2. ASSUME NEW x \in Alive(F)
      PROVE  /\ x[1] \in Ranks /\ x[2] \in DOMAIN OwnLines(x[1]) /\ x = <<x[1], x[2]>>
             /\ Place(x[1], x[2]) \in GoodLines(lines)
             /\ F[x] = NewBody(lines[Place(x[1], x[2])])
  <2>1. x \in Ids(S) /\ F[x] = S[x[1]][x[2]]
      BY DEF Alive, Flat
  <2>2. x[1] \in Ranks /\ x[2] \in DOMAIN S[x[1]] /\ x = <<x[1], x[2]>>
      BY <2>1 DEF Ids
  <2>3. /\ x[2] \in DOMAIN OwnLines(x[1]) /\ F[x] = NewBody(OwnLines(x[1])[x[2]])
        /\ OwnLines(x[1])[x[2]] # BadLine
      BY <1>1, <2>1, <2>2
  <2>4. /\ Place(x[1], x[2]) \in DOMAIN lines
        /\ OwnLines(x[1])[x[2]] = lines[Place(x[1], x[2])]
      BY <2>2, <2>3, LinesPlaced
  <2> QED
    BY <2>2, <2>3, <2>4 DEF GoodLines
<1>3. ASSUME NEW x \in Alive(F), NEW y \in Alive(F), x # y
      PROVE  Place(x[1], x[2]) # Place(y[1], y[2])
  <2>1. x[1] # y[1] \/ x[2] # y[2]
      BY <1>2, <1>3
  <2>2. /\ x[1] \in Ranks /\ x[2] \in DOMAIN OwnLines(x[1])
        /\ y[1] \in Ranks /\ y[2] \in DOMAIN OwnLines(y[1])
      BY <1>2
  <2> QED
    BY <2>1, <2>2, PlacesDiffer
<1>4. ~Crowd(a)
  <2> SUFFICES ASSUME Crowd(a) PROVE FALSE
      OBVIOUS
  <2>1. DOMAIN a = Alive(F) /\ \A x \in Alive(F) : a[x] = F[x]
      OBVIOUS
  <2> HIDE DEF a, F
  <2>2. PICK x \in Alive(F), y \in Alive(F), z \in Alive(F), t \in Alive(F) :
               /\ x # y /\ {x, y} \cap {z, t} = {}
               /\ CheckCollision(F[x], F[y]) /\ CheckCollision(F[z], F[t])
               /\ Distance(F[x].position, F[z].position)
                     < F[x].radius + F[y].radius + F[z].radius + F[t].radius
      BY <2>1 DEF Crowd
  <2> DEFINE i == Place(x[1], x[2])
             j == Place(y[1], y[2])
             k == Place(z[1], z[2])
             l == Place(t[1], t[2])
  <2>3. i \in GoodLines(lines) /\ j \in GoodLines(lines)
        /\ k \in GoodLines(lines) /\ l \in GoodLines(lines)
        /\ F[x] = NewBody(lines[i]) /\ F[y] = NewBody(lines[j])
        /\ F[z] = NewBody(lines[k]) /\ F[t] = NewBody(lines[l])
      BY <1>2
  <2>4. x # y /\ x # z /\ x # t /\ y # z /\ y # t
      BY <2>2
  <2>5. i # j /\ i # k /\ i # l /\ j # k /\ j # l
      BY <1>3, <2>4
  <2>6. DOMAIN all = GoodLines(lines) /\ \A m \in GoodLines(lines) : all[m] = lines[m]
      OBVIOUS
  <2> HIDE DEF i, j, k, l, all, lines
  <2>7. \A m : NewBody(lines[m]).position = lines[m].position
               /\ NewBody(lines[m]).radius = lines[m].radius
      BY DEF NewBody
  <2>8. /\ CheckCollision(all[i], all[j]) /\ CheckCollision(all[k], all[l])
        /\ Distance(all[i].position, all[k].position)
              < all[i].radius + all[j].radius + all[k].radius + all[l].radius
      BY <2>2, <2>3, <2>6, <2>7 DEF CheckCollision
  <2>9. {i, j} \cap {k, l} = {}
      BY <2>5
  <2>10. Crowd(all)
      BY <2>3, <2>5, <2>6, <2>8, <2>9 DEF Crowd
  <2> QED
    BY <2>10 DEF all, lines
<1> HIDE DEF F
<1> QED
    BY <1>1, <1>4 DEF SpreadOut, Uncrowded, F

(* Before any process loads a body, the first state is spread out, or    *)
(* crowded.                                                              *)
LEMMA CountInvInitial ==
    ASSUME GoodUniverses, Init
    PROVE  CountInv
<1>1. /\ given.universe \in Universes
      /\ \A r \in Ranks : /\ pc[r] = "start" /\ universe[r] = [bodies |-> << >>, active |-> 0]
                          /\ calls[r] = << >>
    BY DEF Init
<1>2. RootsFirst
    BY <1>1 DEF RootsFirst
<1>3. CountsRight
  <2> SUFFICES ASSUME NEW r \in Ranks PROVE universe[r].active = Cardinality(Actives(r))
      BY DEF CountsRight
  <2>1. Actives(r) = {}
      BY <1>1 DEF Actives, Indexes
  <2>2. universe[r].active = 0
      BY <1>1
  <2> QED
    BY <2>1, <2>2, FS_EmptySet
<1>4. ASSUME ~crowded PROVE RoundInv
  <2>1. PICK S : S = [r \in Ranks |-> Loading(r)]
      OBVIOUS
  <2>2. ~Crowd([k \in GoodLines(given.universe.lines) |-> given.universe.lines[k]])
      BY <1>4 DEF Init
  <2>3. SpreadOut(S)
      BY <1>1, <2>1, <2>2, LoadedSpreadOut
  <2>4. \A r \in Ranks : InRound(S, r) /\ HandedIn(S, r)
      BY <1>1, <2>1 DEF InRound, HandedIn, Finished, LoopPlaces
  <2> QED
    BY <2>3, <2>4 DEF RoundInv
<1> QED
    BY <1>2, <1>3, <1>4 DEF CountInv

(* Nothing of it changes when nothing does.                              *)
LEMMA CountInvStutters ==
    ASSUME CountInv, UNCHANGED vars
    PROVE  CountInv'
<1>1. UNCHANGED <<given, pc, turn, universe, total, calls, crowded>>
    BY DEF vars
<1>2. \A q : Actives(q)' = Actives(q) /\ Indexes(q)' = Indexes(q)
    BY <1>1 DEF Actives, Indexes
<1>3. RootsFirst' = RootsFirst /\ CountsRight' = CountsRight
    BY <1>1, <1>2 DEF RootsFirst, CountsRight
<1>4. \A q : (Finished(q)' <=> Finished(q)) /\ Base(q)' = Base(q)
    BY <1>1 DEF Finished, EverybodyCame, Base, CallsMade, Few, Total, Started
<1>5. \A q : Loading(q)' = Loading(q)
    BY <1>1 DEF Loading, OwnLines, Lines, GoodLines
<1>6. \A q, met : PulledBodies(q, met)' <=> PulledBodies(q, met)
  <2> SUFFICES ASSUME NEW q, NEW met PROVE PulledBodies(q, met)' <=> PulledBodies(q, met)
      OBVIOUS
  <2>1. \A i : PullersOf(q, i, met)' = PullersOf(q, i, met)
      BY <1>2, PullersSame
  <2> QED
    BY <1>1, <1>2, <2>1 DEF PulledBodies
<1>7. \A S, q : InRound(S, q) => InRound(S, q)'
  <2> SUFFICES ASSUME NEW S, NEW q, InRound(S, q) PROVE InRound(S, q)'
      OBVIOUS
  <2>1. PICK met : met = Lower(turn[q])
      OBVIOUS
  <2>2. Lower(turn[q])' = met
      BY <1>1, <2>1 DEF Lower
  <2>3. pc[q] = "accelerateTurn" => PulledBodies(q, met)
      BY <2>1 DEF InRound
  <2>4. pc'[q] = "accelerateTurn" => PulledBodies(q, met)'
      BY <1>1, <1>6, <2>3
  <2>5. pc'[q] = "accelerateTurn" => PulledBodies(q, Lower(turn[q]))'
      BY <2>2, <2>4
  <2> QED
    BY <1>1, <1>2, <1>4, <1>5, <1>6, <2>5 DEF InRound
<1>8. \A S, q : HandedIn(S, q) => HandedIn(S, q)'
    BY <1>1, <1>2, <1>4 DEF HandedIn
<1>9. RoundInv => RoundInv'
    BY <1>7, <1>8 DEF RoundInv
<1> QED
    BY <1>1, <1>3, <1>9 DEF CountInv

(* Every step of a process keeps it.                                     *)
LEMMA CountInvStep ==
    ASSUME GoodUniverses
    PROVE  NBodyInv /\ NBodyInv' /\ CountInv /\ [Next]_vars => CountInv'
<1> SUFFICES ASSUME NBodyInv, NBodyInv', CountInv, [Next]_vars PROVE CountInv'
    OBVIOUS
<1>1. CASE UNCHANGED vars
    BY <1>1, CountInvStutters
<1>2. CASE Next
  <2>1. PICK r \in Ranks : Process(r)
      BY <1>2 DEF Next
  <2>2. CallInv /\ CallInv' /\ BodiesInv /\ RootsFirst
      BY DEF NBodyInv, CountInv
  <2>3. RootsFirst'
      BY <2>1, <2>2, RootsFirstStep
  <2>4. ASSUME ~crowded' PROVE CountsRight' /\ RoundInv'
    <3>1. ~crowded
        BY <2>1, <2>2, <2>4, StepFrame DEF Move
    <3>2. CountsRight /\ RoundInv
        BY <3>1 DEF CountInv
    <3>3. PICK S : SpreadOut(S) /\ \A q \in Ranks : InRound(S, q) /\ HandedIn(S, q)
        BY <3>2 DEF RoundInv
    <3>4. universe[r].active = Cardinality(Actives(r))
        BY <3>2 DEF CountsRight
    <3>5. ASSUME pc[r] # "move", InRound(S, r)', HandedIn(S, r)',
                 universe'[r].active = Cardinality(Actives(r)'),
                 Actives(r)' = Actives(r) \/ pc[r] \notin {"accelerateTurn", "move", "count"}
          PROVE  CountsRight' /\ RoundInv'
      <4>1. \A q \in Ranks \ {r} : Finished(q)' <=> Finished(q)
          BY <2>1, <2>2, <3>5, OthersFinished
      <4> QED
        BY <2>1, <2>2, <3>2, <3>3, <3>5, <4>1, RoundStays
    <3>6. CASE Start(r)
      <4>1. pc[r] = "start"
          BY <3>6 DEF Start
      <4> QED
        BY <2>2, <3>3, <3>5, <3>6, <4>1, StartRound
    <3>7. CASE LocalCollisions(r)
      <4>1. pc[r] = "collide"
          BY <3>7 DEF LocalCollisions
      <4> QED
        BY <2>2, <3>3, <3>4, <3>5, <3>7, <4>1, LocalCollisionsRound
    <3>8. CASE CollisionTurn(r)
      <4>1. pc[r] = "collideTurn"
          BY <3>8 DEF CollisionTurn
      <4> QED
        BY <2>2, <3>3, <3>4, <3>5, <3>8, <4>1, CollisionRound
    <3>9. CASE LocalAccelerations(r)
      <4>1. pc[r] = "accelerate"
          BY <3>9 DEF LocalAccelerations
      <4> QED
        BY <2>2, <3>3, <3>4, <3>5, <3>9, <4>1, AccelerateRound
    <3>10. CASE AccelerationTurn(r)
      <4>1. pc[r] = "accelerateTurn"
          BY <3>10 DEF AccelerationTurn
      <4> QED
        BY <2>2, <3>3, <3>4, <3>5, <3>10, <4>1, AccelerationRound
    <3>11. CASE Move(r)
        BY <2>2, <2>4, <3>2, <3>3, <3>11, MoveRound
    <3>12. CASE CountBodies(r)
      <4>1. pc[r] = "count" /\ InRound(S, r)' /\ HandedIn(S, r)' /\ universe'[r] = universe[r]
          BY <2>2, <3>3, <3>12, CountRound DEF CountBodies
      <4>2. Actives(r)' = Actives(r)
          BY <4>1 DEF Actives, Indexes
      <4> QED
        BY <3>4, <3>5, <4>1, <4>2
    <3>13. CASE \/ StartFails(r) \/ SaveTurn(r) \/ LeaveBarrier(r) \/ OwnDistances(r)
                \/ DistanceTurn(r) \/ LeaveOutStatistic(r) \/ EnterStatistic(r)
                \/ LeaveStatistic(r)
      <4>1. /\ InRound(S, r)' /\ HandedIn(S, r)' /\ universe'[r] = universe[r]
            /\ pc[r] \notin {"accelerateTurn", "move", "count"}
          BY <2>2, <3>13, LateRound
      <4>2. Actives(r)' = Actives(r)
          BY <4>1 DEF Actives, Indexes
      <4> QED
        BY <3>4, <3>5, <4>1, <4>2
    <3> QED
      BY <2>1, <3>6, <3>7, <3>8, <3>9, <3>10, <3>11, <3>12, <3>13 DEF Process
  <2> QED
    BY <2>3, <2>4 DEF CountInv
<1> QED
    BY <1>1, <1>2

(* While no three bodies meet, the processes go through each state of the  *)
(* simulation with the bodies they had when it began: of two that collide  *)
(* one is left, and what was handed over is of the same state.             *)
THEOREM CountInvariant ==
    ASSUME GoodUniverses
    PROVE  Spec => []CountInv
<1>1. Init => CountInv
    BY CountInvInitial
<1>2. NBodyInv /\ NBodyInv' /\ CountInv /\ [Next]_vars => CountInv'
    BY CountInvStep
<1> QED
    BY <1>1, <1>2, NBodyInvariant, PTL DEF Spec

(* activeBodiesCount is the number of active bodies as long as bodies      *)
(* collide two at a time, within a process or across two.                  *)
THEOREM CountsAreActive ==
    ASSUME GoodUniverses
    PROVE  Spec => []CountIsActive
<1>1. CountInv => CountIsActive
    BY DEF CountInv, CountsRight, CountIsActive
<1> QED
    BY <1>1, CountInvariant, PTL

(* A process that is about to move its bodies has let every other active   *)
(* body of the job pull each of them, and each once.                       *)
THEOREM EveryPullCounted ==
    ASSUME GoodUniverses
    PROVE  Spec => []PullsComplete
<1>1. NBodyInv /\ CountInv => PullsComplete
  <2> SUFFICES ASSUME NBodyInv, CountInv, ~crowded, NEW r \in Ranks, pc[r] = "move",
                      NEW i \in Actives(r), NEW terms, terms = universe[r].bodies[i].acceleration
               PROVE  /\ {terms[k].from : k \in DOMAIN terms} = ActiveBodies \ {<<r, i>>}
                      /\ Len(terms) = Cardinality(ActiveBodies) - 1
      BY DEF PullsComplete
  <2>1. PICK S : InRound(S, r)
      BY DEF CountInv, RoundInv
  <2>2. Stage(S, r, Ranks, universe[r].bodies) /\ PulledBodies(r, Ranks)
      BY <2>1 DEF InRound
  <2>3. universe[r].bodies[i] \in BodyRecords
      BY <2>2 DEF Stage, Actives, Indexes
  <2>4. terms \in Seq(Terms)
      BY <2>3 DEF BodyRecords
  <2>5. Enumerates(FromsOf(terms), PullersOf(r, i, Ranks))
      BY <2>2 DEF PulledBodies
  <2> QED
    BY <2>4, <2>5, PulledByEveryOther
<1> QED
    BY <1>1, NBodyInvariant, CountInvariant, PTL

====
