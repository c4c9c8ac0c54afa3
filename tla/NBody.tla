---- MODULE NBody ----
(***************************************************************************)
(* The distributed n-body simulation: Simulation::run() in each process of *)
(* an MPI job, over the Universe that the process holds.                   *)
(*                                                                         *)
(*   load -> (collisions -> accelerations -> positions -> count)* -> save  *)
(*        -> distances -> statistics                                       *)
(*                                                                         *)
(* Processes share nothing but MPI's collective calls, and the universe    *)
(* file.  A collective call is matched by order: the k-th call of a        *)
(* process meets the k-th call of every other one.  A broadcast lets its   *)
(* root go on at once; a reduction and a barrier let nobody go on until    *)
(* everybody has come.  Broadcasting a vector is two calls, its size and   *)
(* its values, which are one here.  The parallel loops of OpenMP inside a  *)
(* process write only the body of their own index and are atomic here.     *)
(***************************************************************************)
EXTENDS Bodies, BlockDistribution, FiniteSets, FiniteSetsExt

CONSTANTS
    Size,       \* number of processes
    Universes,  \* universes given: [count, lines], lines of bodies or BadLine
    BadLine,    \* a line that std::stod rejects
    MaxTimes,   \* values of the argument max_time
    DeltaTime   \* the argument delta_t

ASSUME NBodyAssumption ==
    /\ Size \in Nat \ {0}
    /\ MaxTimes \subseteq Nat
    /\ DeltaTime \in Nat \ {0}
    /\ \A u \in Universes : u.count \in Nat /\ u.lines \in Seq(Range(u.lines))

VARIABLES
    given,     \* the arguments of the job, the same for every process
    pc,        \* what each process is about to do
    turn,      \* the rank whose turn it is, in a loop over ranks
    universe,  \* bodies, and activeBodiesCount
    total,     \* totalActiveBodiesCount
    time,      \* currentTime
    calls,     \* the collective calls made, with what was handed to them
    file,      \* the file of final states
    distances, \* getMyDistances(): pairs of bodies
    report,    \* the statistics that rank 0 has
    crowded    \* history: more than two bodies have met at once

vars == <<given, pc, turn, universe, total, time, calls, file, distances, report, crowded>>

Ranks == 0 .. Size - 1
NoRoot == -1

\* A collision within reach of what another one makes, or of another body, which
\* collides with itself here.
Crowd(bodies) ==
    \E i, j, k, l \in DOMAIN bodies :
       /\ i # j /\ {i, j} \cap {k, l} = {}
       /\ CheckCollision(bodies[i], bodies[j]) /\ CheckCollision(bodies[k], bodies[l])
       /\ Distance(bodies[i].position, bodies[k].position)
             < bodies[i].radius + bodies[j].radius + bodies[k].radius + bodies[l].radius

GoodLines(lines) == {k \in DOMAIN lines : lines[k] # BadLine}

\* Every line is of a body that is active, or wrong.  A file of final states, given
\* again, has the negated masses of the bodies that were absorbed.
GoodUniverses ==
    \A u \in Universes : \A k \in GoodLines(u.lines) :
       u.lines[k] \in [mass : Nat \ {0}, radius : Nat \ {0}, position : Int, velocity : Int]

Init ==
    /\ given \in [universe : Universes, maxTime : MaxTimes]
    /\ pc = [r \in Ranks |-> "start"]
    /\ turn = [r \in Ranks |-> 0]
    /\ universe = [r \in Ranks |-> [bodies |-> << >>, active |-> 0]]
    /\ total = [r \in Ranks |-> 0]
    /\ time = [r \in Ranks |-> 0]
    /\ calls = [r \in Ranks |-> << >>]
    /\ file = [count |-> 0, lines |-> << >>]
    /\ distances = [r \in Ranks |-> << >>]
    /\ report = << >>
    /\ crowded = Crowd([k \in GoodLines(given.universe.lines) |-> given.universe.lines[k]])

Indexes(r) == DOMAIN universe[r].bodies
Actives(r) == {i \in Indexes(r) : IsActive(universe[r].bodies[i])}
\* Every active body of the job, as the process that owns it and its index.
ActiveBodies == UNION {{<<r, i>> : i \in Actives(r)} : r \in Ranks}
BodyOf(b) == universe[b[1]].bodies[b[2]]

---------------------------------------------------------------------------
(* Mpi.hpp *)

\* Where in the program the call is made is kept with it.
Call(r, name, root, data) ==
    calls' = [calls EXCEPT ![r] = Append(@,
                 [call |-> name, root |-> root, data |-> data, from |-> <<pc[r], turn[r]>>])]

\* A receiver needs the root to have made the call that it makes.
CanReceive(r, root) == Len(calls[root]) > Len(calls[r])
Received(r, root) == calls[root][Len(calls[r]) + 1].data

\* Has everybody made the last call of r?
EverybodyCame(r) == \A q \in Ranks : Len(calls[q]) >= Len(calls[r])

\* What the processes handed to the last call of r, in the order of ranks.
Reduced(r) == [q \in 1 .. Size |-> calls[q - 1][Len(calls[r])].data]

\* MPI_SUM, of one number of each process.
TotalOf(counts) == FoldLeft(LAMBDA a, b : a + b, 0, counts)

\* A turn of a loop over ranks: the process broadcasts in its own turn.
NextTurn(r, next) ==
    IF turn[r] < Size - 1
    THEN /\ turn' = [turn EXCEPT ![r] = @ + 1]
         /\ UNCHANGED pc
    ELSE /\ turn' = [turn EXCEPT ![r] = 0]
         /\ pc' = [pc EXCEPT ![r] = next]

GoTo(r, next) == pc' = [pc EXCEPT ![r] = next]

\* A set of indexes as a sequence, in their order.
InOrder(indexes) ==
    CHOOSE s \in [1 .. Cardinality(indexes) -> indexes] :
        Range(s) = indexes /\ \A j, k \in DOMAIN s : j < k => s[j] < s[k]

\* The active bodies of a process in their order, as it serializes them.
Serialized(r) == [k \in 1 .. Cardinality(Actives(r)) |-> <<r, InOrder(Actives(r))[k]>>]

---------------------------------------------------------------------------
(* startSimulation() *)

\* while (currentTime < maxTime && totalActiveBodiesCount > 1)
LoopTest(now, active) ==
    IF now < given.maxTime /\ active > 1 THEN "collide" ELSE "save"

\* The lines from an index to another, or to the end of the file.
Lines(u, start, finish) ==
    SubSeq(u.lines, start + 1, IF finish < Len(u.lines) THEN finish ELSE Len(u.lines))

\* The lines that a process reads: a file may end before its block does.
OwnLines(r) ==
    LET u == given.universe
    IN  Lines(u, CalculateStart(r, u.count, Size), CalculateFinish(r, u.count, Size))

(* Faulty variant: a universe with fewer bodies than processes is accepted. *)
StartsWithAnything(r) == BadLine \notin Range(OwnLines(r))

CanStart(r) ==
    /\ given.universe.count >= Size
    /\ BadLine \notin Range(OwnLines(r))

(* Faulty variant: startSimulation() reports an error and goes on.          *)
StartAnyway(r) ==
    LET lines == SelectSeq(OwnLines(r), LAMBDA l : l # BadLine)
        bodies == [i \in DOMAIN lines |-> NewBody(lines[i])]
    IN  /\ pc[r] = "start"
        /\ universe' = [universe EXCEPT ![r] = [bodies |-> bodies, active |-> Len(bodies)]]
        /\ total' = [total EXCEPT ![r] = given.universe.count]
        /\ GoTo(r, LoopTest(0, given.universe.count))
        /\ UNCHANGED <<given, turn, time, calls, file, distances, report, crowded>>

\* A process that fails returns from main(); nobody tells the others.  One that cannot
\* open the file does the same, as if its own line were bad.
StartFails(r) ==
    /\ pc[r] = "start"
    /\ ~CanStart(r)
    /\ GoTo(r, "failed")
    /\ UNCHANGED <<given, turn, universe, total, time, calls, file, distances, report, crowded>>

Start(r) ==
    LET lines == OwnLines(r)
        bodies == [i \in DOMAIN lines |-> NewBody(lines[i])]
    IN  /\ pc[r] = "start"
        /\ CanStart(r)
        /\ universe' = [universe EXCEPT ![r] = [bodies |-> bodies, active |-> Len(bodies)]]
        /\ total' = [total EXCEPT ![r] = given.universe.count]
        /\ GoTo(r, LoopTest(0, given.universe.count))
        /\ UNCHANGED <<given, turn, time, calls, file, distances, report, crowded>>

---------------------------------------------------------------------------
(* stateCollisions() *)

\* Two bodies of one process, i the outer index.
CollideLocally(u, i, j) ==
    LET body == u.bodies[i]
        other == u.bodies[j]
    IN  IF i = j \/ ~IsActive(other) \/ ~CheckCollision(body, other) THEN u
        ELSE [active |-> u.active - 1,
              bodies |-> IF CanAbsorb(body, other)
                         THEN [u.bodies EXCEPT ![i] = Absorb(body, other), ![j] = Deactivate(other)]
                         ELSE [u.bodies EXCEPT ![j] = Absorb(other, body), ![i] = Deactivate(body)]]

\* The inner loop.
CollideWithOthers(u, i, indexes) == FoldLeft(LAMBDA v, j : CollideLocally(v, i, j), u, indexes)

\* Whether the outer body is active is asked once, before the inner loop.
CheckLocalCollisions(u) ==
    LET indexes == [i \in DOMAIN u.bodies |-> i]
    IN  FoldLeft(LAMBDA v, i : IF IsActive(v.bodies[i]) THEN CollideWithOthers(v, i, indexes)
                               ELSE v,
                 u, indexes)

LocalCollisions(r) ==
    /\ pc[r] = "collide"
    /\ universe' = [universe EXCEPT ![r] = CheckLocalCollisions(@)]
    /\ GoTo(r, "collideTurn")
    /\ UNCHANGED <<given, turn, total, time, calls, file, distances, report, crowded>>

CollisionData(b) == [from |-> b, mass |-> BodyOf(b).mass, radius |-> BodyOf(b).radius,
                     position |-> BodyOf(b).position, velocity |-> BodyOf(b).velocity]
CollisionDataOf(r) == [k \in DOMAIN Serialized(r) |-> CollisionData(Serialized(r)[k])]

\* The first of the other process's bodies that touches decides.
CollideBody(body, others, rank, otherRank) ==
    LET touching == {k \in DOMAIN others : CheckCollision(body, others[k])}
        other == others[Min(touching)]
    IN  IF ~IsActive(body) \/ touching = {} THEN body
        ELSE IF body.mass = other.mass /\ rank < otherRank THEN Deactivate(body)
        ELSE IF CanAbsorb(body, other) THEN Absorb(body, other)
        ELSE Deactivate(body)

(* Faulty variant: collideBodies() does not count what it deactivates.     *)
CheckRemoteUncounted(u, others, rank, otherRank) ==
    [u EXCEPT !.bodies = [i \in DOMAIN u.bodies |->
                             CollideBody(u.bodies[i], others, rank, otherRank)]]

CheckRemoteCollisions(u, others, rank, otherRank) ==
    LET after == [i \in DOMAIN u.bodies |-> CollideBody(u.bodies[i], others, rank, otherRank)]
        lost == {i \in DOMAIN after : IsActive(u.bodies[i]) /\ ~IsActive(after[i])}
    IN  [bodies |-> after, active |-> u.active - Cardinality(lost)]

CollisionTurn(r) ==
    /\ pc[r] = "collideTurn"
    /\ \/ /\ turn[r] = r
          /\ Call(r, "broadcast", r, CollisionDataOf(r))
          /\ UNCHANGED universe
       \/ /\ turn[r] # r
          /\ CanReceive(r, turn[r])
          /\ universe' = [universe EXCEPT
                ![r] = CheckRemoteCollisions(@, Received(r, turn[r]), r, turn[r])]
          /\ Call(r, "broadcast", turn[r], << >>)
    /\ NextTurn(r, "accelerate")
    /\ UNCHANGED <<given, total, time, file, distances, report, crowded>>

---------------------------------------------------------------------------
(* stateAccelerations() and statePositions() *)

AccelerationData(b) == [from |-> b, mass |-> BodyOf(b).mass, position |-> BodyOf(b).position]
AccelerationDataOf(r) == [k \in DOMAIN Serialized(r) |-> AccelerationData(Serialized(r)[k])]

PulledBy(body, others) == FoldLeft(LAMBDA b, other : UpdateAcceleration(b, other), body, others)

\* The data of the bodies of this process that pull body i.
LocalOthers(r, i) ==
    LET others == InOrder(Actives(r) \ {i})
    IN  [k \in DOMAIN others |-> AccelerationData(<<r, others[k]>>)]

(* Faulty variant: accelerations are not reset, and grow with each state.   *)
LocallyPulledWithoutReset(r) ==
    [i \in Indexes(r) |->
        IF i \in Actives(r) THEN PulledBy(BodyOf(<<r, i>>), LocalOthers(r, i))
        ELSE BodyOf(<<r, i>>)]

LocallyPulled(r) ==
    [i \in Indexes(r) |->
        IF i \in Actives(r) THEN PulledBy(ResetAcceleration(BodyOf(<<r, i>>)), LocalOthers(r, i))
        ELSE BodyOf(<<r, i>>)]

RemotelyPulled(r, others) ==
    [i \in Indexes(r) |-> IF i \in Actives(r) THEN PulledBy(BodyOf(<<r, i>>), others)
                          ELSE BodyOf(<<r, i>>)]

LocalAccelerations(r) ==
    /\ pc[r] = "accelerate"
    /\ universe' = [universe EXCEPT ![r].bodies = LocallyPulled(r)]
    /\ GoTo(r, "accelerateTurn")
    /\ UNCHANGED <<given, turn, total, time, calls, file, distances, report, crowded>>

AccelerationTurn(r) ==
    /\ pc[r] = "accelerateTurn"
    /\ \/ /\ turn[r] = r
          /\ Call(r, "broadcast", r, AccelerationDataOf(r))
          /\ UNCHANGED universe
       \/ /\ turn[r] # r
          /\ CanReceive(r, turn[r])
          /\ universe' = [universe EXCEPT ![r].bodies = RemotelyPulled(r, Received(r, turn[r]))]
          /\ Call(r, "broadcast", turn[r], << >>)
    /\ NextTurn(r, "move")
    /\ UNCHANGED <<given, total, time, file, distances, report, crowded>>

Moved(body) ==
    IF IsActive(body) THEN UpdatePosition(UpdateVelocity(body, DeltaTime), DeltaTime) ELSE body

\* The bodies move, and the process enters the reduction of the count.  The
\* last one to come sees every body where it is for the next state.
Move(r) ==
    /\ pc[r] = "move"
    /\ universe' = [universe EXCEPT ![r].bodies = [i \in Indexes(r) |-> Moved(@[i])]]
    /\ Call(r, "allReduce", NoRoot, universe[r].active)
    /\ crowded' = (crowded \/ /\ \A q \in Ranks \ {r} : pc[q] = "count"
                              /\ Crowd([b \in ActiveBodies |-> universe'[b[1]].bodies[b[2]]]))
    /\ GoTo(r, "count")
    /\ UNCHANGED <<given, turn, total, time, file, distances, report>>

(* Faulty variant: a process tests the loop with its own bodies.           *)
CountOwnBodies(r) ==
    /\ pc[r] = "count"
    /\ EverybodyCame(r)
    /\ total' = [total EXCEPT ![r] = universe[r].active]
    /\ time' = [time EXCEPT ![r] = @ + DeltaTime]
    /\ GoTo(r, LoopTest(time'[r], total'[r]))
    /\ UNCHANGED <<given, turn, universe, calls, file, distances, report, crowded>>

CountBodies(r) ==
    /\ pc[r] = "count"
    /\ EverybodyCame(r)
    /\ total' = [total EXCEPT ![r] = TotalOf(Reduced(r))]
    /\ time' = [time EXCEPT ![r] = @ + DeltaTime]
    /\ GoTo(r, LoopTest(time'[r], total'[r]))
    /\ UNCHANGED <<given, turn, universe, calls, file, distances, report, crowded>>

---------------------------------------------------------------------------
(* saveFinalState() *)

Written(r) == [i \in Indexes(r) |-> ToLine(universe[r].bodies[i])]

\* Rank 0 starts the file again; the others append in their turn.
SaveTurn(r) ==
    /\ pc[r] = "save"
    /\ file' = IF turn[r] # r THEN file
               ELSE IF r = 0 THEN [count |-> given.universe.count, lines |-> Written(r)]
               ELSE [file EXCEPT !.lines = @ \o Written(r)]
    /\ Call(r, "barrier", NoRoot, 0)
    /\ GoTo(r, "barrier")
    /\ UNCHANGED <<given, turn, universe, total, time, distances, report, crowded>>

(* Faulty variant: no process waits for the one that writes.               *)
LeaveAtOnce(r) ==
    /\ pc[r] = "barrier"
    /\ IF turn[r] < Size - 1
       THEN turn' = [turn EXCEPT ![r] = @ + 1] /\ GoTo(r, "save")
       ELSE turn' = [turn EXCEPT ![r] = 0] /\ GoTo(r, "distances")
    /\ UNCHANGED <<given, universe, total, time, calls, file, distances, report, crowded>>

LeaveBarrier(r) ==
    /\ pc[r] = "barrier"
    /\ EverybodyCame(r)
    /\ IF turn[r] < Size - 1
       THEN turn' = [turn EXCEPT ![r] = @ + 1] /\ GoTo(r, "save")
       ELSE turn' = [turn EXCEPT ![r] = 0] /\ GoTo(r, "distances")
    /\ UNCHANGED <<given, universe, total, time, calls, file, distances, report, crowded>>

---------------------------------------------------------------------------
(* reportResults() *)

\* aggregateOwnDistances(): each active body with the active ones after it.
OwnPairs(r) ==
    LET After(i) == InOrder({j \in Actives(r) : j > i /\ i \in Actives(r)})
    IN  FoldLeft(LAMBDA list, i : list \o [k \in DOMAIN After(i) |->
                                              {<<r, i>>, <<r, After(i)[k]>>}],
                 << >>, [i \in Indexes(r) |-> i])

\* Without bodies the bound of the loop, size() - 1, is the largest size_t, and
\* the loop reads what follows the empty vector.
OwnDistances(r) ==
    /\ pc[r] = "distances"
    /\ distances' = [distances EXCEPT ![r] = OwnPairs(r)]
    /\ GoTo(r, IF universe[r].bodies = << >> THEN "undefined" ELSE "distanceTurn")
    /\ UNCHANGED <<given, turn, universe, total, time, calls, file, report, crowded>>

PositionData(b) == [from |-> b, position |-> BodyOf(b).position]
PositionDataOf(r) == [k \in DOMAIN Serialized(r) |-> PositionData(Serialized(r)[k])]

\* aggregateDistances(): each own active body with each of the received ones.
RemotePairs(r, others) ==
    FoldLeft(LAMBDA list, own : list \o [k \in DOMAIN others |-> {own, others[k].from}],
             << >>, Serialized(r))

(* Faulty variant: both processes count the distances between their bodies. *)
CountsDistancesAlways(r, other) == TRUE

CountsDistances(r, other) == r > other

DistanceTurn(r) ==
    /\ pc[r] = "distanceTurn"
    /\ \/ /\ turn[r] = r
          /\ Call(r, "broadcast", r, PositionDataOf(r))
          /\ UNCHANGED distances
       \/ /\ turn[r] # r
          /\ CanReceive(r, turn[r])
          /\ distances' = IF CountsDistances(r, turn[r])
                          THEN [distances EXCEPT
                                   ![r] = @ \o RemotePairs(r, Received(r, turn[r]))]
                          ELSE distances
          /\ Call(r, "broadcast", turn[r], << >>)
    /\ NextTurn(r, "statistic")
    /\ UNCHANGED <<given, universe, total, time, file, report, crowded>>

\* getMyVelocities(): of every body, active or not.
Velocities(r) == [i \in Indexes(r) |-> <<r, i>>]

\* The mean and the standard deviation of the distances, then of the
\* velocities: four statistics, each a sum over the processes.
Summed(r, statistic) == IF statistic < 2 THEN distances[r] ELSE Velocities(r)


\* One body has no deviation, and nobody makes the call.
LeavesOut(r, statistic) == statistic % 2 = 1 /\ total[r] <= 1

(* Faulty variant: a fifth statistic.                                      *)
NextStatisticTooMany(r) ==
    /\ turn' = [turn EXCEPT ![r] = @ + 1]
    /\ GoTo(r, IF turn[r] = 4 THEN "done" ELSE "statistic")

NextStatistic(r) ==
    /\ turn' = [turn EXCEPT ![r] = @ + 1]
    /\ GoTo(r, IF turn[r] = 3 THEN "done" ELSE "statistic")

LeaveOutStatistic(r) ==
    /\ pc[r] = "statistic"
    /\ LeavesOut(r, turn[r])
    /\ report' = IF r = 0 THEN Append(report, << >>) ELSE report
    /\ NextStatistic(r)
    /\ UNCHANGED <<given, universe, total, time, calls, file, distances, crowded>>

EnterStatistic(r) ==
    /\ pc[r] = "statistic"
    /\ ~LeavesOut(r, turn[r])
    /\ Call(r, "allReduce", NoRoot, Summed(r, turn[r]))
    /\ GoTo(r, "reducing")
    /\ UNCHANGED <<given, turn, universe, total, time, file, distances, report, crowded>>

LeaveStatistic(r) ==
    /\ pc[r] = "reducing"
    /\ EverybodyCame(r)
    /\ report' = IF r = 0 THEN Append(report, FlattenSeq(Reduced(r))) ELSE report
    /\ NextStatistic(r)
    /\ UNCHANGED <<given, universe, total, time, calls, file, distances, crowded>>

---------------------------------------------------------------------------

Process(r) ==
    \/ Start(r) \/ StartFails(r)
    \/ LocalCollisions(r) \/ CollisionTurn(r)
    \/ LocalAccelerations(r) \/ AccelerationTurn(r)
    \/ Move(r) \/ CountBodies(r)
    \/ SaveTurn(r) \/ LeaveBarrier(r)
    \/ OwnDistances(r) \/ DistanceTurn(r)
    \/ LeaveOutStatistic(r) \/ EnterStatistic(r) \/ LeaveStatistic(r)

Next == \E r \in Ranks : Process(r)

Spec == Init /\ [][Next]_vars

\* The operating system runs every process.
FairSpec == Spec /\ \A r \in Ranks : WF_vars(Process(r))

---------------------------------------------------------------------------
(* What the simulation promises *)

WellFormed(u) ==
    /\ u.count >= Size
    /\ Len(u.lines) >= u.count
    /\ BadLine \notin Range(SubSeq(u.lines, 1, u.count))

PCs == {"start", "failed", "collide", "collideTurn", "accelerate", "accelerateTurn", "move",
        "count", "save", "barrier", "distances", "undefined", "distanceTurn", "statistic",
        "reducing", "done"}

(* Every variable has its type; the turns and the statistics are as many   *)
(* as the loops of Simulation.cpp make, and a process holds at most the    *)
(* bodies of its block.                                                    *)
TypeOK ==
    /\ pc \in [Ranks -> PCs]
    /\ \A r \in Ranks :
          /\ turn[r] \in IF pc[r] \in {"statistic", "reducing", "done"} THEN 0 .. 4 ELSE Ranks
          /\ Len(universe[r].bodies) <= Cardinality(Block(r, given.universe.count, Size))
          /\ universe[r].active \in Int /\ total[r] \in Int
          /\ time[r] \in 0 .. given.maxTime + DeltaTime
    /\ Len(report) <= 4
    /\ crowded \in BOOLEAN

(* The k-th collective call of every process is the same call, with the    *)
(* same root and from the same place of the program, whatever each of them *)
(* found in its block: otherwise the job hangs, or reads a vector of       *)
(* something else.                                                         *)
CollectivesMatch ==
    \A p, q \in Ranks : \A k \in DOMAIN calls[p] \cap DOMAIN calls[q] :
       /\ calls[p][k].call = calls[q][k].call
       /\ calls[p][k].root = calls[q][k].root
       /\ calls[p][k].from = calls[q][k].from

(* The results are printed only if every process loaded its bodies: a      *)
(* process that fails to start leaves the job without an answer, not with  *)
(* one about a part of the universe.                                       *)
ReportOnlyOfWholeUniverse ==
    pc[0] = "done" => BadLine \notin Range(Lines(given.universe, 0, given.universe.count))

(* The loop of aggregateOwnDistances(), whose bound is size() - 1, runs on *)
(* an empty vector only where the file has fewer lines than it says: no    *)
(* process is left without bodies by the distribution.                     *)
OnlyShortFilesLeaveNoBodies ==
    (\E r \in Ranks : pc[r] = "undefined") => Len(given.universe.lines) < given.universe.count

(* The file of final states is whole when a process reports: loaded again  *)
(* by as many processes, it gives each of them the bodies it has, the      *)
(* absorbed ones included.                                                 *)
SavedFileReloads ==
    (WellFormed(given.universe) /\ \E r \in Ranks : pc[r] = "distances") =>
       /\ file.count = Len(file.lines)
       /\ \A r \in Ranks : Written(r) =
             SubSeq(file.lines, CalculateStart(r, file.count, Size) + 1,
                    CalculateFinish(r, file.count, Size))

(* activeBodiesCount, which is kept apart, is the number of active bodies, *)
(* as long as bodies collide two at a time: the sum of these counts ends   *)
(* the loop and divides the statistics.                                    *)
CountIsActive ==
    ~crowded => \A r \in Ranks : universe[r].active = Cardinality(Actives(r))

(* When a process is about to move its bodies, each of them has been       *)
(* pulled in this state by every other active body of every process, and   *)
(* by each once.                                                           *)
PullsComplete ==
    ~crowded => \A r \in Ranks : pc[r] = "move" => \A i \in Actives(r) :
       LET terms == universe[r].bodies[i].acceleration
       IN  /\ {terms[k].from : k \in DOMAIN terms} = ActiveBodies \ {<<r, i>>}
           /\ Len(terms) = Cardinality(ActiveBodies) - 1

(* The distances that rank 0 reports are those of each pair of active      *)
(* bodies, once, in whatever processes they are.                           *)
EachPairOnce ==
    report # << >> =>
       LET pairs == {{a, b} : a, b \in ActiveBodies} \ {{a} : a \in ActiveBodies}
       IN  Range(report[1]) = pairs /\ Len(report[1]) = Cardinality(pairs)


(* "Upon collision, the body with greater mass absorbs the smaller one"    *)
(* (src/nbody/readme.adoc): no mass is lost while bodies collide two at a  *)
(* time.                                                                   *)
MassIsKept ==
    LET Mass(bodies) == MapThenSumSet(LAMBDA b : bodies[b].mass, DOMAIN bodies)
    IN  (~crowded /\ WellFormed(given.universe) /\ \A r \in Ranks : pc[r] = "done") =>
           Mass([b \in ActiveBodies |-> BodyOf(b)])
             = Mass(SubSeq(given.universe.lines, 1, given.universe.count))
====
