---- MODULE StopProofs ----
(***************************************************************************)
(* How the line ends, for any number of threads, workers and requests: the *)
(* stop conditions that are sent are those that are heeded and those that  *)
(* are queued, none overtakes what someone has to process, and, as long as *)
(* no worker crashes, the process ends when every request is answered, so  *)
(* that ProductionLine implements RequestService.                          *)
(***************************************************************************)
EXTENDS ProductionLineProofs

(* What each thread that sends or counts stop conditions says by its       *)
(* position of how many it has.                                            *)
CountsInv ==
    /\ main.at \in {"accepting", "handing"} => main.stops = 0
    /\ main.at = "done" => main.stops = Cardinality(Handlers) /\ ThreadsFinished
    /\ master.at \notin {"stopping", "done"} => master.stops = 0
    /\ master.at = "done" => master.stops = Cardinality(WorkerHandlers)
    /\ decomposer.at \in {"halt", "done"} => decomposer.stops = Cardinality(Handlers)
    /\ distributor.at \notin {"halt", "done"} => distributor.stops = 0
    /\ distributor.at = "done" => distributor.stops = Cardinality(Calculators)
    /\ assembler.at \in {"halt", "done"} => assembler.stops = StopsToAssemble

QueuesInv ==
    /\ Passed(Stop, queue["sockets"], main.stops, Cardinality(Heeded(handler)))
    /\ Passed(Stop, queue["workers"], master.stops, Cardinality(Heeded(workerHandler)))
    /\ Gathered(Stop, queue["decomposer"], Cardinality(Ended(handler)), decomposer.stops,
                AllEnded(handler))
    /\ Passed(Stop, queue["distributor"], Count(decomposer.at = "done"),
              Count(distributor.at \in {"stopWorkers", "halt", "done"}))
    /\ Passed(Stop, queue["units"], distributor.stops, Cardinality(Heeded(calculator)))
    /\ Gathered(Stop, queue["assembler"],
                Cardinality(Ended(calculator)) + Cardinality(Ended(workerHandler)),
                assembler.stops, AllEnded(calculator) /\ AllEnded(workerHandler))
    /\ Passed(Stop, queue["responder"], Count(assembler.at = "done"), Count(responder = "done"))

StopInv == CountsInv /\ QueuesInv

(* A connection whose answers someone is to read: it is on its way to a    *)
(* WorkerConnectionHandler or in the hands of one.                         *)
Attended ==
    Queued \cup Served \cup {w \in Workers : master.at = "handing" /\ master.peer = w}

Idle(w) ==
    /\ Range(remote[w].inbox) \subseteq {Stop}
    /\ remote[w].held = {}
    /\ Range(remote[w].outbox) \subseteq {Stop}

(* The last message of either side is the stop condition, and a worker     *)
(* that does not listen has nothing left to do.                            *)
Orderly(rec) ==
    /\ StopLast(Stop, rec.inbox) /\ StopLast(Stop, rec.outbox)
    /\ rec.state # "serving" => rec.inbox = << >>
    /\ rec.state \notin {"serving", "draining"} => rec.held = {}
    /\ Stop \in Range(rec.outbox) => rec.state = "gone"
    /\ rec.state = "absent" => rec.outbox = << >>

ConversationInv == \A w \in Workers : Orderly(remote[w])

(* Nothing is left at a connection that nobody reads.                      *)
AttendedInv ==
    /\ distributor.at # "send" => distributor.worker = Nothing
    /\ \A k \in WorkerHandlers :
          workerHandler[k].at \notin {"read", "produce"} => workerHandler[k].worker = Nothing
    /\ pool \subseteq Attended
    /\ distributor.worker # Nothing =>
          distributor.worker \in Attended \/ ~Remote!Listens(distributor.worker)
    /\ \A w \in Workers \ Attended : Idle(w)

DrainInv == ConversationInv /\ AttendedInv

----
(* Which steps change a queue.                                             *)
LEMMA OneQueue ==
    ASSUME TypeInv, NEW q \in QueueNames, NEW e, Enqueue(q, e) \/ Dequeue(q, e)
    PROVE  /\ \A x \in QueueNames \ {q} : queue'[x] = queue[x]
           /\ Enqueue(q, e) => queue'[q] = Append(queue[q], e)
           /\ Dequeue(q, e) =>
                 queue[q] # << >> /\ e = Head(queue[q]) /\ queue'[q] = Tail(queue[q])
  BY DEF Enqueue, Dequeue, TypeInv, SharedInv, QueueType

SameBut(Q) == \A q \in QueueNames \ Q : queue'[q] = queue[q]

LEMMA QueueSteps ==
    ASSUME TypeInv, [Next]_vars
    PROVE  /\ queue'["sockets"] = queue["sockets"]
              \/ MainHands \/ MainStops \/ \E h \in Handlers : HandlerTakes(h)
           /\ queue'["workers"] = queue["workers"]
              \/ MasterHands \/ MasterStops \/ \E k \in WorkerHandlers : WorkerHandlerTakes(k)
           /\ queue'["decomposer"] = queue["decomposer"]
              \/ DecomposerTakes \/ \E h \in Handlers : HandlerProduces(h) \/ HandlerHalts(h)
           /\ queue'["distributor"] = queue["distributor"]
              \/ DecomposerProduces \/ DecomposerHalts \/ DistributorTakes
           /\ queue'["units"] = queue["units"]
              \/ DistributorProduces \/ DistributorHalts
              \/ \E c \in Calculators : CalculatorProcesses(c)
           /\ queue'["assembler"] = queue["assembler"]
              \/ AssemblerMarks \/ AssemblerCountsStop
              \/ (\E c \in Calculators : CalculatorProduces(c) \/ CalculatorHalts(c))
              \/ \E k \in WorkerHandlers : WorkerHandlerProduces(k) \/ WorkerHandlerHalts(k)
           /\ queue'["responder"] = queue["responder"]
              \/ AssemblerProduces \/ AssemblerHalts \/ ResponderAnswers \/ ResponderEnds
<1> USE DEF SameBut, QueueNames
<1>1. CASE UNCHANGED queue
  BY <1>1
<1>2. CASE MainSteps
  <2>1. CASE MainHands \/ MainStops
    BY <2>1, OneQueue DEF MainHands, MainStops
  <2> QED
    BY <1>1, <1>2, <2>1 DEF MainSteps, MainAccepts, MainFailsToAccept, MainJoins
<1>3. CASE MasterSteps
  <2>1. CASE MasterHands \/ MasterStops
    BY <2>1, OneQueue DEF MasterHands, MasterStops
  <2> QED
    BY <1>1, <1>3, <2>1 DEF MasterSteps, MasterListens, MasterAdmits, MasterRejects,
       MasterFails, MasterEnds, MasterAccepts
<1>4. CASE HandleSignal \/ Finished \/ UNCHANGED vars
  BY <1>1, <1>4 DEF HandleSignal, Finished, vars
<1>5. ASSUME NEW h \in Handlers, HandlerTakes(h) PROVE SameBut({"sockets"})
  BY <1>5, OneQueue DEF HandlerTakes
<1>6. ASSUME NEW h \in Handlers, HandlerProduces(h) \/ HandlerHalts(h)
      PROVE  SameBut({"decomposer"})
  BY <1>6, OneQueue DEF HandlerProduces, HandlerHalts
<1>7. ASSUME NEW h \in Handlers,
             HandlerLeaves(h) \/ \E r \in Requests : HandlerAnswers(h, r) \/ HandlerCreates(h, r)
      PROVE  UNCHANGED queue
  BY <1>7 DEF HandlerLeaves, HandlerAnswers, HandlerCreates
<1>8. DecomposerTakes => SameBut({"decomposer"})
  BY OneQueue DEF DecomposerTakes
<1>9. DecomposerProduces \/ DecomposerHalts => SameBut({"distributor"})
  BY OneQueue DEF DecomposerProduces, DecomposerHalts
<1>10. DistributorTakes => SameBut({"distributor"})
  BY OneQueue DEF DistributorTakes
<1>11. DistributorProduces \/ DistributorHalts => SameBut({"units"})
  BY OneQueue DEF DistributorProduces, DistributorHalts
<1>12. DistributorFindsNobody \/ DistributorSends \/ DistributorStopsWorkers
       \/ (\E w \in Workers : DistributorChooses(w)) => UNCHANGED queue
  BY DEF DistributorFindsNobody, DistributorSends, DistributorStopsWorkers,
     DistributorChooses
<1>13. ASSUME NEW c \in Calculators, CalculatorProcesses(c) PROVE SameBut({"units"})
  BY <1>13, OneQueue DEF CalculatorProcesses
<1>14. ASSUME NEW c \in Calculators, CalculatorProduces(c) \/ CalculatorHalts(c)
       PROVE  SameBut({"assembler"})
  BY <1>14, OneQueue DEF CalculatorProduces, CalculatorHalts
<1>15. ASSUME NEW k \in WorkerHandlers, WorkerHandlerTakes(k) PROVE SameBut({"workers"})
  BY <1>15, OneQueue DEF WorkerHandlerTakes
<1>16. ASSUME NEW k \in WorkerHandlers, WorkerHandlerProduces(k) \/ WorkerHandlerHalts(k)
       PROVE  SameBut({"assembler"})
  BY <1>16, OneQueue DEF WorkerHandlerProduces, WorkerHandlerHalts
<1>17. ASSUME NEW k \in WorkerHandlers, WorkerHandlerReads(k) \/ WorkerHandlerDrops(k)
       PROVE  UNCHANGED queue
  BY <1>17 DEF WorkerHandlerReads, WorkerHandlerDrops
<1>18. AssemblerMarks \/ AssemblerCountsStop => SameBut({"assembler"})
  BY OneQueue DEF AssemblerMarks, AssemblerCountsStop
<1>19. AssemblerProduces \/ AssemblerHalts => SameBut({"responder"})
  BY OneQueue DEF AssemblerProduces, AssemblerHalts
<1>20. ResponderWorks => SameBut({"responder"})
  BY OneQueue DEF ResponderWorks, ResponderAnswers, ResponderEnds
<1>21. ASSUME NEW w \in Workers, WorkerWorks(w) \/ WorkerCrashes(w) PROVE UNCHANGED queue
  BY <1>21 DEF WorkerWorks, WorkerCrashes, OnlyRemote
<1>22. ASSUME NEW h \in Handlers,
              \/ HandlerWorks(h) \/ HandlerLeaves(h)
              \/ \E r \in Requests : HandlerAnswers(h, r) \/ HandlerCreates(h, r)
       PROVE  \/ UNCHANGED queue
              \/ HandlerTakes(h) /\ SameBut({"sockets"})
              \/ (HandlerProduces(h) \/ HandlerHalts(h)) /\ SameBut({"decomposer"})
  BY <1>5, <1>6, <1>7, <1>22 DEF HandlerWorks
<1>23. ASSUME DecomposerWorks \/ DistributorWorks
       PROVE  \/ UNCHANGED queue
              \/ DecomposerTakes /\ SameBut({"decomposer"})
              \/ (DecomposerProduces \/ DecomposerHalts \/ DistributorTakes)
                 /\ SameBut({"distributor"})
              \/ (DistributorProduces \/ DistributorHalts) /\ SameBut({"units"})
  BY <1>8, <1>9, <1>10, <1>11, <1>12, <1>23 DEF DecomposerWorks, DistributorWorks
<1>24. ASSUME NEW c \in Calculators, CalculatorWorks(c)
       PROVE  \/ CalculatorProcesses(c) /\ SameBut({"units"})
              \/ (CalculatorProduces(c) \/ CalculatorHalts(c)) /\ SameBut({"assembler"})
  BY <1>13, <1>14, <1>24 DEF CalculatorWorks
<1>25. ASSUME NEW k \in WorkerHandlers, WorkerHandlerWorks(k)
       PROVE  \/ UNCHANGED queue
              \/ WorkerHandlerTakes(k) /\ SameBut({"workers"})
              \/ (WorkerHandlerProduces(k) \/ WorkerHandlerHalts(k)) /\ SameBut({"assembler"})
  BY <1>15, <1>16, <1>17, <1>25 DEF WorkerHandlerWorks
<1>26. ASSUME AssemblerWorks \/ ResponderWorks
       PROVE  \/ (AssemblerMarks \/ AssemblerCountsStop) /\ SameBut({"assembler"})
              \/ (AssemblerProduces \/ AssemblerHalts \/ ResponderAnswers \/ ResponderEnds)
                 /\ SameBut({"responder"})
  BY <1>18, <1>19, <1>20, <1>26 DEF AssemblerWorks, ResponderWorks
<1> QED
  <2>1. ASSUME NEW h \in Handlers,
               \/ HandlerWorks(h) \/ HandlerLeaves(h)
               \/ \E r \in Requests : HandlerAnswers(h, r) \/ HandlerCreates(h, r)
        PROVE  \/ UNCHANGED queue
               \/ (\E x \in Handlers : HandlerTakes(x)) /\ SameBut({"sockets"})
               \/ (\E x \in Handlers : HandlerProduces(x) \/ HandlerHalts(x))
                  /\ SameBut({"decomposer"})
    BY <1>22, <2>1
  <2>2. ASSUME NEW c \in Calculators, CalculatorWorks(c)
        PROVE  \/ (\E x \in Calculators : CalculatorProcesses(x)) /\ SameBut({"units"})
               \/ (\E x \in Calculators : CalculatorProduces(x) \/ CalculatorHalts(x))
                  /\ SameBut({"assembler"})
    BY <1>24, <2>2
  <2>3. ASSUME NEW k \in WorkerHandlers, WorkerHandlerWorks(k)
        PROVE  \/ UNCHANGED queue
               \/ (\E x \in WorkerHandlers : WorkerHandlerTakes(x)) /\ SameBut({"workers"})
               \/ (\E x \in WorkerHandlers : WorkerHandlerProduces(x) \/ WorkerHandlerHalts(x))
                  /\ SameBut({"assembler"})
    BY <1>25, <2>3
  <2>4. \/ UNCHANGED queue \/ MainSteps \/ MasterSteps
        \/ (\E h \in Handlers : HandlerTakes(h)) /\ SameBut({"sockets"})
        \/ (\E k \in WorkerHandlers : WorkerHandlerTakes(k)) /\ SameBut({"workers"})
        \/ (DecomposerTakes \/ \E h \in Handlers : HandlerProduces(h) \/ HandlerHalts(h))
           /\ SameBut({"decomposer"})
        \/ (DecomposerProduces \/ DecomposerHalts \/ DistributorTakes)
           /\ SameBut({"distributor"})
        \/ (\/ DistributorProduces \/ DistributorHalts
            \/ \E c \in Calculators : CalculatorProcesses(c)) /\ SameBut({"units"})
        \/ (\/ AssemblerMarks \/ AssemblerCountsStop
            \/ \E c \in Calculators : CalculatorProduces(c) \/ CalculatorHalts(c)
            \/ \E k \in WorkerHandlers : WorkerHandlerProduces(k) \/ WorkerHandlerHalts(k))
           /\ SameBut({"assembler"})
        \/ (AssemblerProduces \/ AssemblerHalts \/ ResponderAnswers \/ ResponderEnds)
           /\ SameBut({"responder"})
    BY <1>4, <1>21, <1>23, <1>26, <2>1, <2>2, <2>3 DEF Next, HandleSignal, Finished, vars
  <2> QED
    BY <1>1, <1>2, <1>3, <2>4


----
LEMMA ThreadDomains ==
    ASSUME TypeInv
    PROVE  /\ DOMAIN handler = Handlers /\ IsFiniteSet(DOMAIN handler)
           /\ DOMAIN calculator = Calculators /\ IsFiniteSet(DOMAIN calculator)
           /\ DOMAIN workerHandler = WorkerHandlers /\ IsFiniteSet(DOMAIN workerHandler)
  BY LineAssumption DEF TypeInv, ThreadsInv, HandlerInv, HandlerType, CalculatorInv,
     CalculatorType, WorkerHandlerInv, WorkerHandlerType

(* The moves of the threads of which there are several, and what each does *)
(* to its queue.                                                           *)
LEMMA HandlerMoves ==
    ASSUME TypeInv, NEW h \in Handlers
    PROVE  /\ HandlerTakes(h) =>
                 /\ queue["sockets"] # << >> /\ queue'["sockets"] = Tail(queue["sockets"])
                 /\ Moved(handler, handler', h, "take",
                          IF Head(queue["sockets"]) = Stop THEN "halt" ELSE "serve")
           /\ HandlerProduces(h) =>
                 /\ queue'["decomposer"] = Append(queue["decomposer"], handler[h].data)
                 /\ handler[h].data \in Requests
                 /\ Moved(handler, handler', h, "produce", "serve")
           /\ HandlerHalts(h) =>
                 /\ queue'["decomposer"] = Append(queue["decomposer"], Stop)
                 /\ Moved(handler, handler', h, "halt", "done")
           /\ HandlerLeaves(h) => Moved(handler, handler', h, "serve", "take")
           /\ \A r \in Requests :
                 HandlerCreates(h, r) => Moved(handler, handler', h, "serve", "produce")
<1> USE DEF Moved
<1>1. /\ handler \in [Handlers -> [at : {"take", "serve", "produce", "halt", "done"},
                                   data : Requests \cup {Nothing}]]
      /\ handler[h].at = "produce" => handler[h].data \in Requests
      /\ "sockets" \in QueueNames /\ "decomposer" \in QueueNames
  BY DEF TypeInv, ThreadsInv, HandlerInv, HandlerType, QueueNames
<1>2. ASSUME HandlerTakes(h)
      PROVE  /\ queue["sockets"] # << >> /\ queue'["sockets"] = Tail(queue["sockets"])
             /\ Moved(handler, handler', h, "take",
                      IF Head(queue["sockets"]) = Stop THEN "halt" ELSE "serve")
  BY <1>1, <1>2, OneQueue DEF HandlerTakes
<1>3. ASSUME HandlerProduces(h)
      PROVE  /\ queue'["decomposer"] = Append(queue["decomposer"], handler[h].data)
             /\ handler[h].data \in Requests
             /\ Moved(handler, handler', h, "produce", "serve")
  BY <1>1, <1>3, OneQueue DEF HandlerProduces
<1>4. ASSUME HandlerHalts(h)
      PROVE  /\ queue'["decomposer"] = Append(queue["decomposer"], Stop)
             /\ Moved(handler, handler', h, "halt", "done")
  BY <1>1, <1>4, OneQueue DEF HandlerHalts
<1>5. HandlerLeaves(h) => Moved(handler, handler', h, "serve", "take")
  BY <1>1 DEF HandlerLeaves
<1>6. \A r \in Requests :
         HandlerCreates(h, r) => Moved(handler, handler', h, "serve", "produce")
  BY <1>1 DEF HandlerCreates
<1> QED
  BY <1>2, <1>3, <1>4, <1>5, <1>6

LEMMA CalculatorMoves ==
    ASSUME TypeInv, NEW c \in Calculators
    PROVE  /\ CalculatorProcesses(c) =>
                 /\ queue["units"] # << >> /\ queue'["units"] = Tail(queue["units"])
                 /\ Moved(calculator, calculator', c, "take",
                          IF Head(queue["units"]) = Stop THEN "halt" ELSE "produce")
           /\ CalculatorProduces(c) =>
                 /\ queue'["assembler"] = Append(queue["assembler"], calculator[c].unit)
                 /\ calculator[c].unit \in Units
                 /\ Moved(calculator, calculator', c, "produce", "take")
           /\ CalculatorHalts(c) =>
                 /\ queue'["assembler"] = Append(queue["assembler"], Stop)
                 /\ Moved(calculator, calculator', c, "halt", "done")
<1> USE DEF Moved
<1>1. /\ calculator \in [Calculators -> [at : {"take", "produce", "halt", "done"},
                                         unit : Units \cup {Nothing}]]
      /\ calculator[c].at = "produce" => calculator[c].unit \in Units
      /\ "units" \in QueueNames /\ "assembler" \in QueueNames
      /\ Stop \notin Units
  BY QueueTypes DEF TypeInv, ThreadsInv, CalculatorInv, CalculatorType, QueueNames
<1>2. ASSUME CalculatorProcesses(c)
      PROVE  /\ queue["units"] # << >> /\ queue'["units"] = Tail(queue["units"])
             /\ Moved(calculator, calculator', c, "take",
                      IF Head(queue["units"]) = Stop THEN "halt" ELSE "produce")
  <2>1. CASE Dequeue("units", Stop) /\ calculator' = [calculator EXCEPT ![c].at = "halt"]
    BY <1>1, <1>2, <2>1, OneQueue DEF CalculatorProcesses
  <2>2. ASSUME NEW u \in Units, Dequeue("units", u),
               calculator' = [calculator EXCEPT ![c] = [at |-> "produce", unit |-> u]]
        PROVE  /\ queue["units"] # << >> /\ queue'["units"] = Tail(queue["units"])
               /\ Moved(calculator, calculator', c, "take",
                        IF Head(queue["units"]) = Stop THEN "halt" ELSE "produce")
    BY <1>1, <1>2, <2>2, OneQueue DEF CalculatorProcesses
  <2> QED
    BY <1>2, <2>1, <2>2 DEF CalculatorProcesses
<1>3. ASSUME CalculatorProduces(c)
      PROVE  /\ queue'["assembler"] = Append(queue["assembler"], calculator[c].unit)
             /\ calculator[c].unit \in Units
             /\ Moved(calculator, calculator', c, "produce", "take")
  BY <1>1, <1>3, OneQueue DEF CalculatorProduces
<1>4. ASSUME CalculatorHalts(c)
      PROVE  /\ queue'["assembler"] = Append(queue["assembler"], Stop)
             /\ Moved(calculator, calculator', c, "halt", "done")
  BY <1>1, <1>4, OneQueue DEF CalculatorHalts
<1> QED
  BY <1>2, <1>3, <1>4

LEMMA WorkerHandlerMoves ==
    ASSUME TypeInv, NEW k \in WorkerHandlers
    PROVE  /\ WorkerHandlerTakes(k) =>
                 /\ queue["workers"] # << >> /\ queue'["workers"] = Tail(queue["workers"])
                 /\ Moved(workerHandler, workerHandler', k, "take",
                          IF Head(queue["workers"]) = Stop THEN "halt" ELSE "read")
           /\ WorkerHandlerReads(k) => Moved(workerHandler, workerHandler', k, "read", "produce")
           /\ WorkerHandlerProduces(k) =>
                 /\ queue'["assembler"] = Append(queue["assembler"], workerHandler[k].unit)
                 /\ workerHandler[k].unit \in Units
                 /\ Moved(workerHandler, workerHandler', k, "produce", "read")
           /\ WorkerHandlerDrops(k) => Moved(workerHandler, workerHandler', k, "read", "take")
           /\ WorkerHandlerHalts(k) =>
                 /\ queue'["assembler"] = Append(queue["assembler"], Stop)
                 /\ Moved(workerHandler, workerHandler', k, "halt", "done")
<1> USE DEF Moved
<1>1. /\ workerHandler \in
            [WorkerHandlers -> [at : {"take", "read", "produce", "halt", "done"},
                                worker : Workers \cup {Nothing}, unit : Units \cup {Nothing}]]
      /\ workerHandler[k].at = "produce" => workerHandler[k].unit \in Units
      /\ "workers" \in QueueNames /\ "assembler" \in QueueNames
      /\ Stop \notin Workers
  BY OwnersType DEF TypeInv, ThreadsInv, WorkerHandlerInv, WorkerHandlerType, QueueNames
<1>2. ASSUME WorkerHandlerTakes(k)
      PROVE  /\ queue["workers"] # << >> /\ queue'["workers"] = Tail(queue["workers"])
             /\ Moved(workerHandler, workerHandler', k, "take",
                      IF Head(queue["workers"]) = Stop THEN "halt" ELSE "read")
  <2>1. CASE /\ Dequeue("workers", Stop)
             /\ workerHandler' = [workerHandler EXCEPT ![k].at = "halt"]
    BY <1>1, <1>2, <2>1, OneQueue DEF WorkerHandlerTakes
  <2>2. ASSUME NEW w \in Workers, Dequeue("workers", w),
               workerHandler' = [workerHandler EXCEPT ![k] =
                   [workerHandler[k] EXCEPT !.at = "read", !.worker = w]]
        PROVE  /\ queue["workers"] # << >> /\ queue'["workers"] = Tail(queue["workers"])
               /\ Moved(workerHandler, workerHandler', k, "take",
                        IF Head(queue["workers"]) = Stop THEN "halt" ELSE "read")
    BY <1>1, <1>2, <2>2, OneQueue DEF WorkerHandlerTakes
  <2> QED
    BY <1>2, <2>1, <2>2 DEF WorkerHandlerTakes
<1>3. ASSUME WorkerHandlerProduces(k)
      PROVE  /\ queue'["assembler"] = Append(queue["assembler"], workerHandler[k].unit)
             /\ workerHandler[k].unit \in Units
             /\ Moved(workerHandler, workerHandler', k, "produce", "read")
  BY <1>1, <1>3, OneQueue DEF WorkerHandlerProduces
<1>4. ASSUME WorkerHandlerHalts(k)
      PROVE  /\ queue'["assembler"] = Append(queue["assembler"], Stop)
             /\ Moved(workerHandler, workerHandler', k, "halt", "done")
  BY <1>1, <1>4, OneQueue DEF WorkerHandlerHalts
<1>5. WorkerHandlerReads(k) => Moved(workerHandler, workerHandler', k, "read", "produce")
  BY <1>1 DEF WorkerHandlerReads
<1>6. WorkerHandlerDrops(k) => Moved(workerHandler, workerHandler', k, "read", "take")
  BY <1>1 DEF WorkerHandlerDrops
<1> QED
  BY <1>2, <1>3, <1>4, <1>5, <1>6

(* What the steps of the others leave of the counts.                       *)
LEMMA MarksKept ==
    ASSUME TypeInv, [Next]_vars
    PROVE  /\ Heeded(handler') = Heeded(handler) \/ \E h \in Handlers : HandlerTakes(h)
           /\ \/ Ended(handler') = Ended(handler) /\ (AllEnded(handler') => AllEnded(handler))
              \/ \E h \in Handlers : HandlerHalts(h)
           /\ Heeded(calculator') = Heeded(calculator)
              \/ \E c \in Calculators : CalculatorProcesses(c)
           /\ \/ /\ Ended(calculator') = Ended(calculator)
                 /\ AllEnded(calculator') => AllEnded(calculator)
              \/ \E c \in Calculators : CalculatorHalts(c)
           /\ Heeded(workerHandler') = Heeded(workerHandler)
              \/ \E k \in WorkerHandlers : WorkerHandlerTakes(k)
           /\ \/ /\ Ended(workerHandler') = Ended(workerHandler)
                 /\ AllEnded(workerHandler') => AllEnded(workerHandler)
              \/ \E k \in WorkerHandlers : WorkerHandlerHalts(k)
<1>1. ASSUME NEW h \in Handlers,
             \/ HandlerWorks(h) \/ HandlerLeaves(h)
             \/ \E r \in Requests : HandlerCreates(h, r)
      PROVE  /\ Heeded(handler') = Heeded(handler) \/ HandlerTakes(h)
             /\ \/ Ended(handler') = Ended(handler) /\ (AllEnded(handler') => AllEnded(handler))
                \/ HandlerHalts(h)
  <2>1. CASE HandlerTakes(h)
    BY <2>1, HandlerMoves, ThreadDomains, MovedHeeded
  <2>2. CASE HandlerProduces(h)
    BY <2>2, HandlerMoves, ThreadDomains, MovedHeeded
  <2>3. CASE HandlerHalts(h)
    BY <2>3, HandlerMoves, ThreadDomains, MovedHeeded
  <2>4. CASE HandlerLeaves(h)
    BY <2>4, HandlerMoves, ThreadDomains, MovedHeeded
  <2>5. ASSUME NEW r \in Requests, HandlerCreates(h, r)
        PROVE  /\ Heeded(handler') = Heeded(handler) \/ HandlerTakes(h)
               /\ \/ /\ Ended(handler') = Ended(handler)
                     /\ AllEnded(handler') => AllEnded(handler)
                  \/ HandlerHalts(h)
    BY <2>5, HandlerMoves, ThreadDomains, MovedHeeded
  <2> QED
    BY <1>1, <2>1, <2>2, <2>3, <2>4, <2>5 DEF HandlerWorks
<1>2. ASSUME NEW c \in Calculators, CalculatorWorks(c)
      PROVE  /\ Heeded(calculator') = Heeded(calculator) \/ CalculatorProcesses(c)
             /\ \/ /\ Ended(calculator') = Ended(calculator)
                   /\ AllEnded(calculator') => AllEnded(calculator)
                \/ CalculatorHalts(c)
  <2>1. CASE CalculatorProcesses(c)
    BY <2>1, CalculatorMoves, ThreadDomains, MovedHeeded
  <2>2. CASE CalculatorProduces(c)
    BY <2>2, CalculatorMoves, ThreadDomains, MovedHeeded
  <2>3. CASE CalculatorHalts(c)
    BY <2>3, CalculatorMoves, ThreadDomains, MovedHeeded
  <2> QED
    BY <1>2, <2>1, <2>2, <2>3 DEF CalculatorWorks
<1>3. ASSUME NEW k \in WorkerHandlers, WorkerHandlerWorks(k)
      PROVE  /\ Heeded(workerHandler') = Heeded(workerHandler) \/ WorkerHandlerTakes(k)
             /\ \/ /\ Ended(workerHandler') = Ended(workerHandler)
                   /\ AllEnded(workerHandler') => AllEnded(workerHandler)
                \/ WorkerHandlerHalts(k)
  <2>1. CASE WorkerHandlerTakes(k)
    BY <2>1, WorkerHandlerMoves, ThreadDomains, MovedHeeded
  <2>2. CASE WorkerHandlerReads(k)
    BY <2>2, WorkerHandlerMoves, ThreadDomains, MovedHeeded
  <2>3. CASE WorkerHandlerProduces(k)
    BY <2>3, WorkerHandlerMoves, ThreadDomains, MovedHeeded
  <2>4. CASE WorkerHandlerDrops(k)
    BY <2>4, WorkerHandlerMoves, ThreadDomains, MovedHeeded
  <2>5. CASE WorkerHandlerHalts(k)
    BY <2>5, WorkerHandlerMoves, ThreadDomains, MovedHeeded
  <2> QED
    BY <1>3, <2>1, <2>2, <2>3, <2>4, <2>5 DEF WorkerHandlerWorks
<1> QED
  BY <1>1, <1>2, <1>3, ThreadSteps


----
LEMMA ResponderSteps ==
    ASSUME [Next]_vars
    PROVE  UNCHANGED responder \/ ResponderEnds
<1>1. CASE MainSteps
  BY <1>1 DEF MainSteps, MainAccepts, MainHands, MainFailsToAccept, MainStops, MainJoins,
     OnlyMain
<1>2. CASE HandleSignal \/ Finished \/ UNCHANGED vars
  BY <1>2 DEF HandleSignal, Finished, vars, threads
<1>3. CASE MasterSteps
  BY <1>3 DEF MasterSteps, MasterListens, MasterAdmits, MasterRejects, MasterHands,
     MasterFails, MasterStops, MasterEnds, MasterAccepts, OnlyMaster
<1>4. ASSUME NEW h \in Handlers,
             \/ HandlerWorks(h) \/ HandlerLeaves(h)
             \/ \E r \in Requests : HandlerAnswers(h, r) \/ HandlerCreates(h, r)
      PROVE  UNCHANGED responder
  BY <1>4 DEF HandlerWorks, HandlerTakes, HandlerProduces, HandlerHalts, HandlerLeaves,
     HandlerAnswers, HandlerCreates, OnlyHandler
<1>5. CASE DecomposerWorks
  BY <1>5 DEF DecomposerWorks, DecomposerTakes, DecomposerProduces, DecomposerHalts,
     OnlyDecomposer
<1>6. CASE DistributorWorks
  BY <1>6 DEF DistributorWorks, DistributorTakes, DistributorFindsNobody, DistributorChooses,
     DistributorSends, DistributorProduces, DistributorStopsWorkers, DistributorHalts,
     OnlyDistributor
<1>7. CASE AssemblerWorks
  BY <1>7 DEF AssemblerWorks, AssemblerMarks, AssemblerCountsStop, AssemblerProduces,
     AssemblerHalts, OnlyAssembler
<1>8. CASE ResponderWorks
  BY <1>8 DEF ResponderWorks, ResponderAnswers
<1>9. ASSUME NEW c \in Calculators, CalculatorWorks(c) PROVE UNCHANGED responder
  BY <1>9 DEF CalculatorWorks, CalculatorProcesses, CalculatorProduces, CalculatorHalts,
     OnlyCalculator
<1>10. ASSUME NEW k \in WorkerHandlers, WorkerHandlerWorks(k) PROVE UNCHANGED responder
  BY <1>10 DEF WorkerHandlerWorks, WorkerHandlerTakes, WorkerHandlerReads,
     WorkerHandlerProduces, WorkerHandlerDrops, WorkerHandlerHalts, OnlyWorkerHandler
<1>11. ASSUME NEW w \in Workers, WorkerWorks(w) \/ WorkerCrashes(w) PROVE UNCHANGED responder
  BY <1>11 DEF WorkerWorks, WorkerCrashes, OnlyRemote, threads
<1> QED
  BY <1>1, <1>2, <1>3, <1>4, <1>5, <1>6, <1>7, <1>8, <1>9, <1>10, <1>11 DEF Next

(* A thread that has ended does nothing more.                              *)
LEMMA FinishedKept ==
    ASSUME TypeInv, [Next]_vars, ThreadsFinished
    PROVE  ThreadsFinished'
<1>1. \A h \in Handlers : handler'[h].at = "done"
  <2>1. UNCHANGED handler
    BY ThreadSteps DEF ThreadsFinished, HandlerWorks, HandlerTakes, HandlerProduces,
       HandlerHalts, HandlerLeaves, HandlerCreates
  <2> QED
    BY <2>1 DEF ThreadsFinished
<1>2. \A c \in Calculators : calculator'[c].at = "done"
  <2>1. UNCHANGED calculator
    BY ThreadSteps DEF ThreadsFinished, CalculatorWorks, CalculatorProcesses,
       CalculatorProduces, CalculatorHalts
  <2> QED
    BY <2>1 DEF ThreadsFinished
<1>3. \A k \in WorkerHandlers : workerHandler'[k].at = "done"
  <2>1. UNCHANGED workerHandler
    BY ThreadSteps DEF ThreadsFinished, WorkerHandlerWorks, WorkerHandlerTakes,
       WorkerHandlerReads, WorkerHandlerProduces, WorkerHandlerDrops, WorkerHandlerHalts
  <2> QED
    BY <2>1 DEF ThreadsFinished
<1>4. UNCHANGED decomposer
  BY ThreadSteps DEF ThreadsFinished, DecomposerWorks, DecomposerTakes, DecomposerProduces,
     DecomposerHalts
<1>5. UNCHANGED distributor
  BY ThreadSteps DEF ThreadsFinished, DistributorWorks, DistributorTakes,
     DistributorFindsNobody, DistributorChooses, DistributorSends, DistributorProduces,
     DistributorStopsWorkers, DistributorHalts
<1>6. UNCHANGED assembler
  BY ThreadSteps DEF ThreadsFinished, AssemblerWorks, AssemblerMarks, AssemblerCountsStop,
     AssemblerProduces, AssemblerHalts
<1>7. UNCHANGED master
  BY ThreadSteps DEF ThreadsFinished, MasterSteps, MasterListens, MasterAdmits,
     MasterRejects, MasterHands, MasterFails, MasterStops, MasterEnds, MasterAccepts
<1>8. UNCHANGED responder
  BY ResponderSteps DEF ThreadsFinished, ResponderEnds
<1> QED
  BY <1>1, <1>2, <1>3, <1>4, <1>5, <1>6, <1>7, <1>8 DEF ThreadsFinished

LEMMA CountsStep ==
    ASSUME TypeInv, CountsInv, [Next]_vars
    PROVE  CountsInv'
<1>2. /\ main'.at \in {"accepting", "handing"} => main'.stops = 0
      /\ main'.at = "done" => main'.stops = Cardinality(Handlers)
  <2>1. MainType
    BY DEF TypeInv, ThreadsInv
  <2>2. CASE MainSteps
    BY <2>1, <2>2 DEF MainSteps, MainAccepts, MainHands, MainFailsToAccept, MainStops,
       MainJoins, MainType, CountsInv
  <2> QED
    BY <2>2, ThreadSteps DEF CountsInv
<1>3. main'.at = "done" => ThreadsFinished'
  <2>1. MainType
    BY DEF TypeInv, ThreadsInv
  <2>2. CASE MainJoins
    BY <2>2, FinishedKept DEF MainJoins
  <2>3. CASE MainAccepts \/ MainHands \/ MainFailsToAccept \/ MainStops
    BY <2>1, <2>3 DEF MainAccepts, MainHands, MainFailsToAccept, MainStops, MainType
  <2>4. CASE UNCHANGED main
    BY <2>4, FinishedKept DEF CountsInv
  <2> QED
    BY <2>2, <2>3, <2>4, ThreadSteps DEF MainSteps
<1>4. /\ master'.at \notin {"stopping", "done"} => master'.stops = 0
      /\ master'.at = "done" => master'.stops = Cardinality(WorkerHandlers)
  <2>1. MasterType
    BY DEF TypeInv, ThreadsInv, MasterInv
  <2>2. CASE MasterSteps
    BY <2>1, <2>2 DEF MasterSteps, MasterListens, MasterAdmits, MasterRejects, MasterHands,
       MasterFails, MasterStops, MasterEnds, MasterAccepts, MasterType, CountsInv
  <2> QED
    BY <2>2, ThreadSteps DEF CountsInv
<1>5. decomposer'.at \in {"halt", "done"} => decomposer'.stops = Cardinality(Handlers)
  <2>1. DecomposerType
    BY DEF TypeInv, ThreadsInv, DecomposerInv
  <2>2. CASE DecomposerWorks
    BY <2>1, <2>2 DEF DecomposerWorks, DecomposerTakes, DecomposerProduces, DecomposerHalts,
       DecomposerType, CountsInv
  <2> QED
    BY <2>2, ThreadSteps DEF CountsInv
<1>6. /\ distributor'.at \notin {"halt", "done"} => distributor'.stops = 0
      /\ distributor'.at = "done" => distributor'.stops = Cardinality(Calculators)
  <2>1. DistributorType
    BY DEF TypeInv, ThreadsInv, DistributorInv
  <2>2. CASE DistributorWorks
    BY <2>1, <2>2 DEF DistributorWorks, DistributorTakes, DistributorFindsNobody,
       DistributorChooses, DistributorSends, DistributorProduces, DistributorStopsWorkers,
       DistributorHalts, DistributorType, CountsInv
  <2> QED
    BY <2>2, ThreadSteps DEF CountsInv
<1>7. assembler'.at \in {"halt", "done"} => assembler'.stops = StopsToAssemble
  <2>1. AssemblerType
    BY DEF TypeInv, ThreadsInv, AssemblerInv
  <2>2. CASE AssemblerWorks
    BY <2>1, <2>2 DEF AssemblerWorks, AssemblerMarks, AssemblerCountsStop,
       AssemblerProduces, AssemblerHalts, AssemblerType, CountsInv
  <2> QED
    BY <2>2, ThreadSteps DEF CountsInv
<1> QED
  BY <1>2, <1>3, <1>4, <1>5, <1>6, <1>7 DEF CountsInv, StopsToAssemble


----
(* What the counts are counted in.                                         *)
LEMMA CountsType ==
    ASSUME TypeInv
    PROVE  /\ main.stops \in Nat /\ master.stops \in Nat /\ decomposer.stops \in Nat
           /\ distributor.stops \in Nat /\ assembler.stops \in Nat
           /\ Cardinality(Heeded(handler)) \in Nat /\ Cardinality(Ended(handler)) \in Nat
           /\ Cardinality(Heeded(calculator)) \in Nat
           /\ Cardinality(Ended(calculator)) \in Nat
           /\ Cardinality(Heeded(workerHandler)) \in Nat
           /\ Cardinality(Ended(workerHandler)) \in Nat
           /\ \A condition : Count(condition) \in Nat
           /\ \A q \in QueueNames : queue[q] \in Seq(ElementsOf(q))
           /\ QueueNames = {"sockets", "decomposer", "distributor", "units", "workers",
                            "assembler", "responder"}
           /\ Stop \notin Requests /\ Stop \notin Units /\ Stop \notin Workers /\ Stop # Client
<1>1. /\ main.stops \in Nat /\ master.stops \in Nat /\ decomposer.stops \in Nat
      /\ distributor.stops \in Nat /\ assembler.stops \in Nat
  BY Sizes DEF TypeInv, ThreadsInv, MainType, MasterInv, MasterType, DecomposerInv,
     DecomposerType, DistributorInv, DistributorType, AssemblerInv, AssemblerType
<1>2. /\ Cardinality(Heeded(handler)) \in Nat /\ Cardinality(Ended(handler)) \in Nat
      /\ Cardinality(Heeded(calculator)) \in Nat /\ Cardinality(Ended(calculator)) \in Nat
      /\ Cardinality(Heeded(workerHandler)) \in Nat
      /\ Cardinality(Ended(workerHandler)) \in Nat
  BY ThreadDomains, HeededType
<1> QED
  BY <1>1, <1>2, QueueTypes, LineAssumption DEF Count, QueueNames

LEMMA SocketsStep ==
    ASSUME TypeInv, StopInv, [Next]_vars
    PROVE  Passed(Stop, queue'["sockets"], main'.stops, Cardinality(Heeded(handler')))
<1> DEFINE s == queue["sockets"]
<1>1. /\ s \in Seq({Stop, Client}) /\ Stop # Client
      /\ main.stops \in Nat /\ Cardinality(Heeded(handler)) \in Nat
      /\ Passed(Stop, s, main.stops, Cardinality(Heeded(handler)))
      /\ "sockets" \in QueueNames
  BY CountsType, Elements DEF StopInv, QueuesInv
<1>2. CASE MainHands
  <2>1. /\ s' = Append(s, Client) /\ main.stops = 0 /\ main'.stops = 0
        /\ handler' = handler
    BY <1>1, <1>2, OneQueue DEF MainHands, OnlyMain, StopInv, CountsInv, TypeInv, ThreadsInv,
       MainType
  <2>2. Passed(Stop, Append(s, Client), 0, Cardinality(Heeded(handler)))
    BY <1>1, <2>1, PassedMore
  <2> QED
    BY <1>1, <2>1, <2>2 DEF Count
<1>3. CASE MainStops
  <2>1. s' = Append(s, Stop) /\ main'.stops = main.stops + 1 /\ handler' = handler
    BY <1>1, <1>3, OneQueue DEF MainStops, OnlyMain, TypeInv, ThreadsInv, MainType
  <2>2. Passed(Stop, Append(s, Stop), main.stops + 1, Cardinality(Heeded(handler)))
    BY <1>1, PassedStop
  <2> QED
    BY <2>1, <2>2 DEF Count
<1>4. ASSUME NEW h \in Handlers, HandlerTakes(h)
      PROVE  Passed(Stop, s', main'.stops, Cardinality(Heeded(handler')))
  <2>1. /\ s # << >> /\ s' = Tail(s) /\ main' = main
        /\ Moved(handler, handler', h, "take", IF Head(s) = Stop THEN "halt" ELSE "serve")
    BY <1>4, HandlerMoves DEF HandlerTakes, OnlyHandler
  <2>2. Cardinality(Heeded(handler')) = Cardinality(Heeded(handler)) + Count(Head(s) = Stop)
    <3>1. CASE Head(s) = Stop
      BY <2>1, <3>1, ThreadDomains, MovedHeeded DEF Count
    <3>2. CASE Head(s) # Stop
      <4>1. Moved(handler, handler', h, "take", "serve")
        BY <2>1, <3>2
      <4>2. Heeded(handler') = Heeded(handler)
        BY <4>1, ThreadDomains, MovedHeeded
      <4> QED
        BY <1>1, <3>2, <4>2 DEF Count
    <3> QED
      BY <3>1, <3>2
  <2> QED
    BY <1>1, <2>1, <2>2, PassedTail
<1>5. CASE s' = s /\ main'.stops = main.stops /\ Heeded(handler') = Heeded(handler)
  BY <1>1, <1>5
<1>6. main'.stops = main.stops \/ MainStops
  BY ThreadSteps DEF MainSteps, MainAccepts, MainHands, MainFailsToAccept, MainJoins, TypeInv,
     ThreadsInv, MainType
<1> QED
  BY <1>2, <1>3, <1>4, <1>5, <1>6, QueueSteps, MarksKept

LEMMA WorkersQueueStep ==
    ASSUME TypeInv, StopInv, [Next]_vars
    PROVE  Passed(Stop, queue'["workers"], master'.stops, Cardinality(Heeded(workerHandler')))
<1> DEFINE s == queue["workers"]
<1>1. /\ s \in Seq({Stop} \cup Workers) /\ Stop \notin Workers
      /\ master.stops \in Nat /\ Cardinality(Heeded(workerHandler)) \in Nat
      /\ Passed(Stop, s, master.stops, Cardinality(Heeded(workerHandler)))
      /\ "workers" \in QueueNames
  BY CountsType, Elements DEF StopInv, QueuesInv
<1>2. CASE MasterHands
  <2>1. /\ s' = Append(s, master.peer) /\ master.stops = 0 /\ master'.stops = 0
        /\ workerHandler' = workerHandler /\ master.peer \in Workers
    BY <1>1, <1>2, OneQueue DEF MasterHands, OnlyMaster, StopInv, CountsInv, TypeInv,
       ThreadsInv, MasterInv, MasterType
  <2>2. Passed(Stop, Append(s, master.peer), 0,
               Cardinality(Heeded(workerHandler)))
    BY <1>1, <2>1, PassedMore
  <2> QED
    BY <1>1, <2>1, <2>2 DEF Count
<1>3. CASE MasterStops
  <2>1. /\ s' = Append(s, Stop) /\ master'.stops = master.stops + 1
        /\ workerHandler' = workerHandler
    BY <1>1, <1>3, OneQueue DEF MasterStops, OnlyMaster, TypeInv, ThreadsInv, MasterInv,
       MasterType
  <2>2. Passed(Stop, Append(s, Stop), master.stops + 1,
               Cardinality(Heeded(workerHandler)))
    BY <1>1, PassedStop
  <2> QED
    BY <2>1, <2>2 DEF Count
<1>4. ASSUME NEW k \in WorkerHandlers, WorkerHandlerTakes(k)
      PROVE  Passed(Stop, s', master'.stops, Cardinality(Heeded(workerHandler')))
  <2>1. /\ s # << >> /\ s' = Tail(s) /\ master' = master
        /\ Moved(workerHandler, workerHandler', k, "take",
                 IF Head(s) = Stop THEN "halt" ELSE "read")
    BY <1>4, WorkerHandlerMoves DEF WorkerHandlerTakes, OnlyWorkerHandler
  <2>2. Cardinality(Heeded(workerHandler')) =
           Cardinality(Heeded(workerHandler)) + Count(Head(s) = Stop)
    <3>1. CASE Head(s) = Stop
      BY <2>1, <3>1, ThreadDomains, MovedHeeded DEF Count
    <3>2. CASE Head(s) # Stop
      <4>1. Moved(workerHandler, workerHandler', k, "take", "read")
        BY <2>1, <3>2
      <4>2. Heeded(workerHandler') = Heeded(workerHandler)
        BY <4>1, ThreadDomains, MovedHeeded
      <4> QED
        BY <1>1, <3>2, <4>2 DEF Count
    <3> QED
      BY <3>1, <3>2
  <2> QED
    BY <1>1, <2>1, <2>2, PassedTail
<1>5. CASE /\ s' = s /\ master'.stops = master.stops
           /\ Heeded(workerHandler') = Heeded(workerHandler)
  BY <1>1, <1>5
<1>6. master'.stops = master.stops \/ MasterStops
  BY ThreadSteps DEF MasterSteps, MasterListens, MasterAdmits, MasterRejects, MasterHands,
     MasterFails, MasterEnds, MasterAccepts, TypeInv, ThreadsInv, MasterInv, MasterType
<1> QED
  BY <1>2, <1>3, <1>4, <1>5, <1>6, QueueSteps, MarksKept

LEMMA UnitsQueueStep ==
    ASSUME TypeInv, StopInv, [Next]_vars
    PROVE  Passed(Stop, queue'["units"], distributor'.stops, Cardinality(Heeded(calculator')))
<1> DEFINE s == queue["units"]
<1>1. /\ s \in Seq({Stop} \cup Units) /\ Stop \notin Units
      /\ distributor.stops \in Nat /\ Cardinality(Heeded(calculator)) \in Nat
      /\ Passed(Stop, s, distributor.stops, Cardinality(Heeded(calculator)))
      /\ "units" \in QueueNames
  BY CountsType, QueueTypes DEF StopInv, QueuesInv, UnitQueues
<1>2. CASE DistributorProduces
  <2>1. /\ s' = Append(s, distributor.unit) /\ distributor.stops = 0 /\ distributor'.stops = 0
        /\ calculator' = calculator /\ distributor.unit \in Units
    BY <1>1, <1>2, OneQueue DEF DistributorProduces, OnlyDistributor, StopInv, CountsInv,
       TypeInv, ThreadsInv, DistributorInv, DistributorType
  <2>2. Passed(Stop, Append(s, distributor.unit), 0,
               Cardinality(Heeded(calculator)))
    BY <1>1, <2>1, PassedMore
  <2> QED
    BY <1>1, <2>1, <2>2 DEF Count
<1>3. CASE DistributorHalts
  <2>1. /\ s' = Append(s, Stop) /\ distributor'.stops = distributor.stops + 1
        /\ calculator' = calculator
    BY <1>1, <1>3, OneQueue DEF DistributorHalts, OnlyDistributor, TypeInv, ThreadsInv,
       DistributorInv, DistributorType
  <2>2. Passed(Stop, Append(s, Stop), distributor.stops + 1,
               Cardinality(Heeded(calculator)))
    BY <1>1, PassedStop
  <2> QED
    BY <2>1, <2>2 DEF Count
<1>4. ASSUME NEW c \in Calculators, CalculatorProcesses(c)
      PROVE  Passed(Stop, s', distributor'.stops, Cardinality(Heeded(calculator')))
  <2>1. /\ s # << >> /\ s' = Tail(s) /\ distributor' = distributor
        /\ Moved(calculator, calculator', c, "take",
                 IF Head(s) = Stop THEN "halt" ELSE "produce")
    BY <1>4, CalculatorMoves DEF CalculatorProcesses, OnlyCalculator
  <2>2. Cardinality(Heeded(calculator')) =
           Cardinality(Heeded(calculator)) + Count(Head(s) = Stop)
    <3>1. CASE Head(s) = Stop
      BY <2>1, <3>1, ThreadDomains, MovedHeeded DEF Count
    <3>2. CASE Head(s) # Stop
      <4>1. Moved(calculator, calculator', c, "take", "produce")
        BY <2>1, <3>2
      <4>2. Heeded(calculator') = Heeded(calculator)
        BY <4>1, ThreadDomains, MovedHeeded
      <4> QED
        BY <1>1, <3>2, <4>2 DEF Count
    <3> QED
      BY <3>1, <3>2
  <2> QED
    BY <1>1, <2>1, <2>2, PassedTail
<1>5. CASE /\ s' = s /\ distributor'.stops = distributor.stops
           /\ Heeded(calculator') = Heeded(calculator)
  BY <1>1, <1>5
<1>6. distributor'.stops = distributor.stops \/ DistributorHalts
  BY ThreadSteps DEF DistributorWorks, DistributorTakes, DistributorFindsNobody,
     DistributorChooses, DistributorSends, DistributorProduces, DistributorStopsWorkers,
     TypeInv, ThreadsInv, DistributorInv, DistributorType
<1> QED
  BY <1>2, <1>3, <1>4, <1>5, <1>6, QueueSteps, MarksKept

(* The two queues of one producer and one consumer.                        *)
LEMMA DistributorQueueStep ==
    ASSUME TypeInv, StopInv, [Next]_vars
    PROVE  Passed(Stop, queue'["distributor"], Count(decomposer'.at = "done"),
                  Count(distributor'.at \in {"stopWorkers", "halt", "done"}))
<1> DEFINE s == queue["distributor"]
           n == Count(decomposer.at = "done")
           h == Count(distributor.at \in {"stopWorkers", "halt", "done"})
<1>1. /\ s \in Seq({Stop} \cup Units) /\ Stop \notin Units
      /\ n \in Nat /\ h \in Nat /\ Passed(Stop, s, n, h)
      /\ "distributor" \in QueueNames
  BY CountsType, QueueTypes DEF StopInv, QueuesInv, UnitQueues
<1>2. CASE DecomposerProduces
  <2> DEFINE u == Head(decomposer.units)
  <2>1. /\ s' = Append(s, u) /\ decomposer.at # "done" /\ decomposer'.at # "done"
        /\ distributor' = distributor /\ u \in Units
    BY <1>1, <1>2, OneQueue, HeadTailProperties DEF DecomposerProduces, OnlyDecomposer,
       TypeInv, ThreadsInv, DecomposerInv, DecomposerType
  <2>2. n = 0 /\ Count(decomposer'.at = "done") = 0
    BY <1>1, <2>1 DEF Count
  <2>3. Passed(Stop, Append(s, u), n, h)
    BY <1>1, <2>1, <2>2, PassedMore
  <2> QED
    BY <2>1, <2>2, <2>3
<1>3. CASE DecomposerHalts
  <2>1. /\ s' = Append(s, Stop) /\ decomposer.at # "done" /\ decomposer'.at = "done"
        /\ distributor' = distributor
    BY <1>1, <1>3, OneQueue DEF DecomposerHalts, OnlyDecomposer, TypeInv, ThreadsInv,
       DecomposerInv, DecomposerType
  <2>2. n = 0 /\ Count(decomposer'.at = "done") = 1
    BY <2>1 DEF Count
  <2>3. Passed(Stop, Append(s, Stop), n + 1, h)
    BY <1>1, PassedStop
  <2> QED
    BY <2>1, <2>2, <2>3
<1>4. CASE DistributorTakes
  <2>1. /\ s # << >> /\ s' = Tail(s) /\ decomposer' = decomposer
        /\ distributor.at = "take"
        /\ distributor'.at = IF Head(s) = Stop THEN "stopWorkers" ELSE "choose"
    <3>1. DistributorType
      BY DEF TypeInv, ThreadsInv, DistributorInv
    <3>2. \E e \in Units \cup {Stop} :
             /\ Dequeue("distributor", e)
             /\ distributor'.at = IF e = Stop THEN "stopWorkers" ELSE "choose"
      <4>1. CASE /\ Dequeue("distributor", Stop)
                 /\ distributor' = [distributor EXCEPT !.at = "stopWorkers"]
        <5>1. distributor'.at = "stopWorkers"
          BY <3>1, <4>1 DEF DistributorType
        <5> QED
          BY <4>1, <5>1
      <4>2. ASSUME NEW u \in Units, Dequeue("distributor", u),
                   distributor' = [distributor EXCEPT !.at = "choose", !.unit = u]
            PROVE  Dequeue("distributor", u) /\ distributor'.at = "choose" /\ u # Stop
        BY <1>1, <3>1, <4>2 DEF DistributorType
      <4> QED
        BY <1>4, <4>1, <4>2 DEF DistributorTakes
    <3> QED
      BY <1>1, <1>4, <3>2, OneQueue DEF DistributorTakes, OnlyDistributor
  <2>3. /\ h = 0
        /\ Count(distributor'.at \in {"stopWorkers", "halt", "done"}) = Count(Head(s) = Stop)
    BY <2>1 DEF Count
  <2>2. Passed(Stop, Tail(s), n, h + Count(Head(s) = Stop))
    BY <1>1, <2>1, PassedTail
  <2> QED
    BY <2>1, <2>2, <2>3, CountsType
<1>5. CASE /\ s' = s /\ Count(decomposer'.at = "done") = n
           /\ Count(distributor'.at \in {"stopWorkers", "halt", "done"}) = h
  BY <1>1, <1>5
<1>6. Count(decomposer'.at = "done") = n \/ DecomposerHalts
  BY ThreadSteps DEF DecomposerWorks, DecomposerTakes, DecomposerProduces, TypeInv,
     ThreadsInv, DecomposerInv, DecomposerType, Count
<1>7. Count(distributor'.at \in {"stopWorkers", "halt", "done"}) = h \/ DistributorTakes
  <2>1. DistributorType
    BY DEF TypeInv, ThreadsInv, DistributorInv
  <2>2. CASE DistributorWorks
    BY <2>1, <2>2 DEF DistributorWorks, DistributorFindsNobody,
       DistributorChooses, DistributorSends, DistributorProduces, DistributorStopsWorkers,
       DistributorHalts, DistributorType, Count
  <2> QED
    BY <2>2, ThreadSteps
<1> QED
  BY <1>2, <1>3, <1>4, <1>5, <1>6, <1>7, QueueSteps

LEMMA ResponderQueueStep ==
    ASSUME TypeInv, StopInv, [Next]_vars
    PROVE  Passed(Stop, queue'["responder"], Count(assembler'.at = "done"),
                  Count(responder' = "done"))
<1> DEFINE s == queue["responder"]
           n == Count(assembler.at = "done")
           h == Count(responder = "done")
<1>1. /\ s \in Seq({Stop} \cup Requests) /\ Stop \notin Requests
      /\ n \in Nat /\ h \in Nat /\ Passed(Stop, s, n, h)
      /\ "responder" \in QueueNames
  BY CountsType, QueueTypes DEF StopInv, QueuesInv, DataQueues
<1>2. CASE AssemblerProduces
  <2> DEFINE r == assembler.unit[1]
  <2>1. /\ s' = Append(s, r) /\ assembler.at # "done" /\ assembler'.at # "done"
        /\ responder' = responder /\ r \in Requests
    BY <1>1, <1>2, OneQueue, UnitParts DEF AssemblerProduces, OnlyAssembler,
       TypeInv, ThreadsInv, AssemblerInv, AssemblerType
  <2>2. n = 0 /\ Count(assembler'.at = "done") = 0
    BY <1>1, <2>1 DEF Count
  <2>3. Passed(Stop, Append(s, r), n, h)
    BY <1>1, <2>1, <2>2, PassedMore
  <2> QED
    BY <2>1, <2>2, <2>3
<1>3. CASE AssemblerHalts
  <2>1. /\ s' = Append(s, Stop) /\ assembler.at # "done" /\ assembler'.at = "done"
        /\ responder' = responder
    BY <1>1, <1>3, OneQueue DEF AssemblerHalts, OnlyAssembler, TypeInv, ThreadsInv,
       AssemblerInv, AssemblerType
  <2>2. n = 0 /\ Count(assembler'.at = "done") = 1
    BY <2>1 DEF Count
  <2>3. Passed(Stop, Append(s, Stop), n + 1, h)
    BY <1>1, PassedStop
  <2> QED
    BY <2>1, <2>2, <2>3
<1>4. CASE ResponderEnds \/ ResponderAnswers
  <2>1. /\ s # << >> /\ s' = Tail(s) /\ assembler' = assembler
        /\ responder = "take" /\ (responder' = "done" <=> Head(s) = Stop)
    <3>1. CASE ResponderEnds
      BY <1>1, <3>1, OneQueue DEF ResponderEnds, OnlyResponder
    <3>2. CASE ResponderAnswers
      BY <1>1, <3>2, OneQueue DEF ResponderAnswers, OnlyResponder
    <3> QED
      BY <1>4, <3>1, <3>2
  <2>3. h = 0 /\ Count(responder' = "done") = Count(Head(s) = Stop)
    BY <2>1 DEF Count
  <2>2. Passed(Stop, Tail(s), n, h + Count(Head(s) = Stop))
    BY <1>1, <2>1, PassedTail
  <2> QED
    BY <2>1, <2>2, <2>3, CountsType
<1>5. CASE s' = s /\ Count(assembler'.at = "done") = n /\ responder' = responder
  BY <1>1, <1>5
<1>6. Count(assembler'.at = "done") = n \/ AssemblerHalts
  <2>1. AssemblerType
    BY DEF TypeInv, ThreadsInv, AssemblerInv
  <2>2. CASE AssemblerWorks
    BY <2>1, <2>2 DEF AssemblerWorks, AssemblerMarks, AssemblerCountsStop,
       AssemblerProduces, AssemblerType, Count
  <2> QED
    BY <2>2, ThreadSteps
<1> QED
  BY <1>2, <1>3, <1>4, <1>5, <1>6, QueueSteps, ResponderSteps


(* The two queues of many producers.                                       *)
LEMMA DecomposerQueueStep ==
    ASSUME TypeInv, StopInv, [Next]_vars
    PROVE  Gathered(Stop, queue'["decomposer"], Cardinality(Ended(handler')), decomposer'.stops,
                    AllEnded(handler'))
<1> DEFINE s == queue["decomposer"]
           n == Cardinality(Ended(handler))
<1>1. /\ s \in Seq({Stop} \cup Requests) /\ Stop \notin Requests
      /\ n \in Nat /\ decomposer.stops \in Nat
      /\ Gathered(Stop, s, n, decomposer.stops, AllEnded(handler))
      /\ "decomposer" \in QueueNames
  BY CountsType, QueueTypes DEF StopInv, QueuesInv, DataQueues
<1>2. ASSUME NEW h \in Handlers, HandlerProduces(h)
      PROVE  Gathered(Stop, s', Cardinality(Ended(handler')), decomposer'.stops, AllEnded(handler'))
  <2> DEFINE r == handler[h].data
  <2>1. /\ s' = Append(s, r) /\ decomposer' = decomposer /\ r \in Requests /\ r # Stop
        /\ Ended(handler') = Ended(handler) /\ ~AllEnded(handler')
    <3>1. /\ s' = Append(s, r) /\ r \in Requests
          /\ Moved(handler, handler', h, "produce", "serve")
      BY <1>2, HandlerMoves
    <3>2. Ended(handler') = Ended(handler) /\ ~AllEnded(handler')
      BY <3>1, ThreadDomains, MovedHeeded
    <3>3. decomposer' = decomposer
      BY <1>2 DEF HandlerProduces, OnlyHandler
    <3> QED
      BY <1>1, <3>1, <3>2, <3>3
  <2>2. Gathered(Stop, Append(s, r), n, decomposer.stops, AllEnded(handler'))
    <3> HIDE DEF n, s, r
    <3> QED
      BY <1>1, <2>1, GatheredMore
  <2> QED
    BY <2>1, <2>2
<1>3. ASSUME NEW h \in Handlers, HandlerHalts(h)
      PROVE  Gathered(Stop, s', Cardinality(Ended(handler')), decomposer'.stops, AllEnded(handler'))
  <2>1. /\ s' = Append(s, Stop) /\ decomposer' = decomposer
        /\ Cardinality(Ended(handler')) = n + 1
    BY <1>3, HandlerMoves, ThreadDomains, MovedHeeded DEF HandlerHalts, OnlyHandler
  <2>2. Gathered(Stop, Append(s, Stop), n + 1, decomposer.stops,
                 AllEnded(handler'))
    <3> HIDE DEF n, s
    <3> QED
      BY <1>1, <2>1, GatheredStop
  <2> QED
    BY <2>1, <2>2 DEF Count
<1>4. CASE DecomposerTakes
  <2>1. /\ s # << >> /\ s' = Tail(s) /\ handler' = handler
        /\ decomposer'.stops = decomposer.stops + Count(Head(s) = Stop)
    <3>1. DecomposerType
      BY DEF TypeInv, ThreadsInv, DecomposerInv
    <3>2. CASE Dequeue("decomposer", Stop) /\ decomposer'.stops = decomposer.stops + 1
      BY <1>1, <1>4, <3>2, OneQueue DEF DecomposerTakes, OnlyDecomposer, Count
    <3>3. ASSUME NEW r \in Requests, Dequeue("decomposer", r),
                 decomposer'.stops = decomposer.stops
          PROVE  /\ s # << >> /\ s' = Tail(s) /\ handler' = handler
                 /\ decomposer'.stops = decomposer.stops + Count(Head(s) = Stop)
      <4>1. s # << >> /\ s' = Tail(s) /\ Head(s) = r
        BY <1>1, <3>3, OneQueue
      <4>2. Count(Head(s) = Stop) = 0
        BY <1>1, <4>1 DEF Count
      <4>3. handler' = handler
        BY <1>4 DEF DecomposerTakes, OnlyDecomposer
      <4>4. decomposer'.stops = decomposer.stops + Count(Head(s) = Stop)
        BY <1>1, <3>3, <4>2
      <4> QED
        BY <4>1, <4>3, <4>4
    <3>4. \/ Dequeue("decomposer", Stop) /\ decomposer'.stops = decomposer.stops + 1
          \/ (\E r \in Requests : Dequeue("decomposer", r))
             /\ decomposer'.stops = decomposer.stops
      BY <1>4, <3>1 DEF DecomposerTakes, DecomposerType
    <3> QED
      BY <3>2, <3>3, <3>4
  <2>2. Gathered(Stop, Tail(s), n, decomposer.stops + Count(Head(s) = Stop), AllEnded(handler))
    <3> HIDE DEF n, s
    <3> QED
      BY <1>1, <2>1, GatheredTail
  <2> QED
    BY <2>1, <2>2
<1>5. CASE /\ s' = s /\ decomposer'.stops = decomposer.stops
           /\ Ended(handler') = Ended(handler) /\ (AllEnded(handler') => AllEnded(handler))
  BY <1>1, <1>5 DEF Gathered
<1>6. decomposer'.stops = decomposer.stops \/ DecomposerTakes
  BY ThreadSteps DEF DecomposerWorks, DecomposerProduces, DecomposerHalts, TypeInv,
     ThreadsInv, DecomposerInv, DecomposerType
<1> QED
  BY <1>2, <1>3, <1>4, <1>5, <1>6, QueueSteps, MarksKept

LEMMA AssemblerQueueStep ==
    ASSUME TypeInv, StopInv, [Next]_vars
    PROVE  Gathered(Stop, queue'["assembler"],
                    Cardinality(Ended(calculator')) + Cardinality(Ended(workerHandler')),
                    assembler'.stops, AllEnded(calculator') /\ AllEnded(workerHandler'))
<1> DEFINE s == queue["assembler"]
           x == Cardinality(Ended(calculator))
           y == Cardinality(Ended(workerHandler))
           n == x + y
           over == AllEnded(calculator) /\ AllEnded(workerHandler)
           Goal == Gathered(Stop, s', Cardinality(Ended(calculator'))
                                + Cardinality(Ended(workerHandler')), assembler'.stops, over')
<1>1. /\ s \in Seq({Stop} \cup Units) /\ Stop \notin Units /\ Stop \in {Stop} \cup Units
      /\ x \in Nat /\ y \in Nat /\ n \in Nat /\ assembler.stops \in Nat
      /\ Gathered(Stop, s, n, assembler.stops, over)
      /\ "assembler" \in QueueNames
  BY CountsType, QueueTypes DEF StopInv, QueuesInv, UnitQueues
<1>2. ASSUME NEW u \in Units, s' = Append(s, u), assembler' = assembler,
             Ended(calculator') = Ended(calculator),
             Ended(workerHandler') = Ended(workerHandler), ~over'
      PROVE  Goal
  <2>1. Gathered(Stop, Append(s, u), n, assembler.stops, over')
    <3> HIDE DEF n, s, over
    <3> QED
      BY <1>1, <1>2, GatheredMore
  <2> QED
    BY <1>2, <2>1
<1>3. ASSUME s' = Append(s, Stop), assembler' = assembler,
             Cardinality(Ended(calculator')) + Cardinality(Ended(workerHandler')) = n + 1
      PROVE  Goal
  <2>1. Gathered(Stop, Append(s, Stop), n + 1, assembler.stops, over')
    <3> HIDE DEF n, s, over
    <3> QED
      BY <1>1, GatheredStop
  <2> QED
    BY <1>3, <2>1 DEF Count
<1>4. ASSUME NEW c \in Calculators, CalculatorProduces(c) PROVE Goal
  <2>1. /\ s' = Append(s, calculator[c].unit) /\ calculator[c].unit \in Units
        /\ Ended(calculator') = Ended(calculator) /\ ~AllEnded(calculator')
    BY <1>4, CalculatorMoves, ThreadDomains, MovedHeeded
  <2>2. assembler' = assembler /\ workerHandler' = workerHandler
    BY <1>4 DEF CalculatorProduces, OnlyCalculator
  <2> QED
    BY <1>2, <2>1, <2>2
<1>5. ASSUME NEW c \in Calculators, CalculatorHalts(c) PROVE Goal
  <2>1. s' = Append(s, Stop) /\ Cardinality(Ended(calculator')) = x + 1
    BY <1>5, CalculatorMoves, ThreadDomains, MovedHeeded
  <2>2. assembler' = assembler /\ workerHandler' = workerHandler
    BY <1>5 DEF CalculatorHalts, OnlyCalculator
  <2>3. Cardinality(Ended(calculator')) + Cardinality(Ended(workerHandler')) = n + 1
    BY <1>1, <2>1, <2>2
  <2> QED
    BY <1>3, <2>1, <2>2, <2>3
<1>6. ASSUME NEW k \in WorkerHandlers, WorkerHandlerProduces(k) PROVE Goal
  <2>1. /\ s' = Append(s, workerHandler[k].unit) /\ workerHandler[k].unit \in Units
        /\ Ended(workerHandler') = Ended(workerHandler) /\ ~AllEnded(workerHandler')
    BY <1>6, WorkerHandlerMoves, ThreadDomains, MovedHeeded
  <2>2. assembler' = assembler /\ calculator' = calculator
    BY <1>6 DEF WorkerHandlerProduces, OnlyWorkerHandler
  <2> QED
    BY <1>2, <2>1, <2>2
<1>7. ASSUME NEW k \in WorkerHandlers, WorkerHandlerHalts(k) PROVE Goal
  <2>1. s' = Append(s, Stop) /\ Cardinality(Ended(workerHandler')) = y + 1
    BY <1>7, WorkerHandlerMoves, ThreadDomains, MovedHeeded
  <2>2. assembler' = assembler /\ calculator' = calculator
    BY <1>7 DEF WorkerHandlerHalts, OnlyWorkerHandler
  <2>3. Cardinality(Ended(calculator')) + Cardinality(Ended(workerHandler')) = n + 1
    BY <1>1, <2>1, <2>2
  <2> QED
    BY <1>3, <2>1, <2>2, <2>3
<1>8. ASSUME AssemblerMarks \/ AssemblerCountsStop PROVE Goal
  <2>1. /\ s # << >> /\ s' = Tail(s)
        /\ assembler'.stops = assembler.stops + Count(Head(s) = Stop)
    <3>1. AssemblerType
      BY DEF TypeInv, ThreadsInv, AssemblerInv
    <3>2. CASE AssemblerCountsStop
      BY <1>1, <3>1, <3>2, OneQueue DEF AssemblerCountsStop, AssemblerType, Count
    <3>3. CASE AssemblerMarks
      <4>1. assembler'.stops = assembler.stops
        BY <3>1, <3>3 DEF AssemblerMarks, AssemblerType
      <4>2. PICK u \in Units : Dequeue("assembler", u)
        BY <3>3 DEF AssemblerMarks
      <4>3. s # << >> /\ s' = Tail(s) /\ Head(s) = u /\ Count(Head(s) = Stop) = 0
        BY <1>1, <4>2, OneQueue DEF Count
      <4> QED
        BY <1>1, <4>1, <4>3
    <3> QED
      BY <1>8, <3>2, <3>3
  <2>2. calculator' = calculator /\ workerHandler' = workerHandler
    BY <1>8 DEF AssemblerMarks, AssemblerCountsStop, OnlyAssembler
  <2>3. Gathered(Stop, Tail(s), n, assembler.stops + Count(Head(s) = Stop), over)
    <3> HIDE DEF n, s, over
    <3> QED
      BY <1>1, <2>1, GatheredTail
  <2> QED
    BY <2>1, <2>2, <2>3
<1>9. CASE /\ s' = s /\ assembler'.stops = assembler.stops
           /\ Ended(calculator') = Ended(calculator)
           /\ Ended(workerHandler') = Ended(workerHandler) /\ (over' => over)
  BY <1>1, <1>9 DEF Gathered
<1>10. assembler'.stops = assembler.stops \/ AssemblerCountsStop
  <2>1. AssemblerType
    BY DEF TypeInv, ThreadsInv, AssemblerInv
  <2>2. CASE AssemblerMarks \/ AssemblerProduces \/ AssemblerHalts
    BY <2>1, <2>2 DEF AssemblerMarks, AssemblerProduces, AssemblerHalts, AssemblerType
  <2> QED
    BY <2>2, ThreadSteps DEF AssemblerWorks
<1> HIDE DEF Goal
<1>11. Goal \/ s' = s
  BY <1>4, <1>5, <1>6, <1>7, <1>8, QueueSteps
<1>12. Goal \/ assembler'.stops = assembler.stops
  BY <1>8, <1>10
<1>13. \/ Goal
       \/ /\ Ended(calculator') = Ended(calculator)
          /\ AllEnded(calculator') => AllEnded(calculator)
  BY <1>5, MarksKept
<1>14. \/ Goal
       \/ /\ Ended(workerHandler') = Ended(workerHandler)
          /\ AllEnded(workerHandler') => AllEnded(workerHandler)
  BY <1>7, MarksKept
<1> QED
  BY <1>9, <1>11, <1>12, <1>13, <1>14 DEF Goal


----
LEMMA StopInit == Init => StopInv
<1> SUFFICES ASSUME Init PROVE StopInv
  OBVIOUS
<1>1. TypeInv
  BY TypeInit
<1>2. CountsInv
  BY DEF Init, CountsInv
<1>3. Stops(Stop, << >>) = 0 /\ Range(<< >>) = {}
  <2>1. StopsAt(Stop, << >>) = {}
    BY DEF StopsAt
  <2> QED
    BY <2>1, FS_EmptySet DEF Stops, Range
<1>4. Passed(Stop, << >>, 0, 0) /\ \A over : Gathered(Stop, << >>, 0, 0, over)
  BY <1>3 DEF Passed, Gathered
<1>5. \A q \in QueueNames : queue[q] = << >>
  BY DEF Init
<1>6. /\ Heeded(handler) = {} /\ Ended(handler) = {}
      /\ Heeded(calculator) = {} /\ Ended(calculator) = {}
      /\ Heeded(workerHandler) = {} /\ Ended(workerHandler) = {}
  BY DEF Init, Heeded, Ended
<1>7. Cardinality({}) = 0
  BY FS_EmptySet
<1>8. /\ main.stops = 0 /\ master.stops = 0 /\ decomposer.stops = 0
      /\ distributor.stops = 0 /\ assembler.stops = 0
      /\ Count(decomposer.at = "done") = 0 /\ Count(assembler.at = "done") = 0
      /\ Count(distributor.at \in {"stopWorkers", "halt", "done"}) = 0
      /\ Count(responder = "done") = 0
  BY DEF Init, Count
<1>9. QueuesInv
  BY <1>4, <1>5, <1>6, <1>7, <1>8 DEF QueuesInv, QueueNames
<1> QED
  BY <1>2, <1>9 DEF StopInv

LEMMA StopStep == TypeInv /\ StopInv /\ [Next]_vars => StopInv'
<1> SUFFICES ASSUME TypeInv, StopInv, [Next]_vars PROVE StopInv'
  OBVIOUS
<1>1. CountsInv'
  BY CountsStep DEF StopInv
<1>2. Passed(Stop, queue["sockets"], main.stops, Cardinality(Heeded(handler)))'
  BY SocketsStep
<1>3. Passed(Stop, queue["workers"], master.stops, Cardinality(Heeded(workerHandler)))'
  BY WorkersQueueStep
<1>4. Gathered(Stop, queue["decomposer"], Cardinality(Ended(handler)), decomposer.stops,
               AllEnded(handler))'
  BY DecomposerQueueStep
<1>5. Passed(Stop, queue["distributor"], Count(decomposer.at = "done"),
             Count(distributor.at \in {"stopWorkers", "halt", "done"}))'
  BY DistributorQueueStep
<1>6. Passed(Stop, queue["units"], distributor.stops, Cardinality(Heeded(calculator)))'
  BY UnitsQueueStep
<1>7. Gathered(Stop, queue["assembler"],
               Cardinality(Ended(calculator)) + Cardinality(Ended(workerHandler)),
               assembler.stops, AllEnded(calculator) /\ AllEnded(workerHandler))'
  BY AssemblerQueueStep
<1>8. Passed(Stop, queue["responder"], Count(assembler.at = "done"), Count(responder = "done"))'
  BY ResponderQueueStep
<1>9. QueuesInv'
  BY <1>2, <1>3, <1>4, <1>5, <1>6, <1>7, <1>8 DEF QueuesInv
<1> QED
  BY <1>1, <1>9 DEF StopInv

(* In any execution, every queue accounts for the stop conditions that     *)
(* were put into it: those that its consumers have heeded and those that   *)
(* it still has; and a producer that sends them sends nothing after them.  *)
THEOREM StopInvariant == Spec => []StopInv
<1>1. Init => StopInv
  BY StopInit
<1>2. TypeInv /\ StopInv /\ [Next]_vars => StopInv'
  BY StopStep
<1> QED
  BY <1>1, <1>2, LineInvariant, PTL DEF Spec

----
(* What a thread that has counted all of its stop conditions leaves.       *)
LEMMA DecomposerLeaves ==
    ASSUME TypeInv, StopInv, decomposer.at \in {"halt", "done"}
    PROVE  queue["decomposer"] = << >> /\ AllEnded(handler)
<1> DEFINE n == Cardinality(Ended(handler))
           h == Cardinality(Handlers)
           over == AllEnded(handler)
<1>1. /\ n \in Nat /\ h \in Nat /\ n <= h /\ (n = h => over)
      /\ queue["decomposer"] \in Seq(ElementsOf("decomposer"))
      /\ Gathered(Stop, queue["decomposer"], n, h, over)
  BY CountsType, ThreadDomains, HeededType DEF StopInv, CountsInv, QueuesInv
<1> HIDE DEF n, h, over
<1>2. queue["decomposer"] = << >> /\ over
  BY <1>1, GatheredAll
<1> QED
  BY <1>2 DEF over

LEMMA AssemblerLeaves ==
    ASSUME TypeInv, StopInv, assembler.at \in {"halt", "done"}
    PROVE  queue["assembler"] = << >> /\ AllEnded(calculator) /\ AllEnded(workerHandler)
<1> DEFINE x == Cardinality(Ended(calculator))
           y == Cardinality(Ended(workerHandler))
           n == x + y
           over == AllEnded(calculator) /\ AllEnded(workerHandler)
<1>1. /\ x \in Nat /\ x <= Cardinality(Calculators) /\ Cardinality(Calculators) \in Nat
      /\ x = Cardinality(Calculators) => AllEnded(calculator)
      /\ y \in Nat /\ y <= Cardinality(WorkerHandlers) /\ Cardinality(WorkerHandlers) \in Nat
      /\ y = Cardinality(WorkerHandlers) => AllEnded(workerHandler)
  BY ThreadDomains, HeededType
<1>2. /\ queue["assembler"] \in Seq(ElementsOf("assembler"))
      /\ Gathered(Stop, queue["assembler"], n, StopsToAssemble, over)
  BY CountsType DEF StopInv, CountsInv, QueuesInv
<1>3. /\ n \in Nat /\ StopsToAssemble \in Nat /\ n <= StopsToAssemble
      /\ n = StopsToAssemble => over
  BY <1>1 DEF StopsToAssemble
<1> HIDE DEF n, over
<1>4. queue["assembler"] = << >> /\ over
  BY <1>2, <1>3, GatheredAll
<1> QED
  BY <1>4 DEF over

LEMMA DistributorLeaves ==
    ASSUME TypeInv, StopInv, distributor.at \in {"stopWorkers", "halt", "done"}
    PROVE  queue["distributor"] = << >> /\ decomposer.at = "done"
<1> DEFINE n == Count(decomposer.at = "done")
           h == Count(distributor.at \in {"stopWorkers", "halt", "done"})
<1>1. n \in Nat /\ n <= 1 /\ h = 1 /\ (n = 1 => decomposer.at = "done")
  BY DEF Count
<1>2. /\ queue["distributor"] \in Seq(ElementsOf("distributor"))
      /\ Passed(Stop, queue["distributor"], n, h)
  BY CountsType DEF StopInv, QueuesInv
<1> HIDE DEF n, h
<1>3. queue["distributor"] = << >>
  BY <1>1, <1>2, PassedAll
<1>4. Stops(Stop, queue["distributor"]) \in Nat
  BY <1>2, StopsType
<1> QED
  BY <1>1, <1>2, <1>3, <1>4 DEF Passed

LEMMA ResponderLeaves ==
    ASSUME TypeInv, StopInv, responder = "done"
    PROVE  queue["responder"] = << >>
<1> DEFINE n == Count(assembler.at = "done")
           h == Count(responder = "done")
<1>1. n \in Nat /\ n <= 1 /\ h = 1
  BY DEF Count
<1>2. queue["responder"] \in Seq(ElementsOf("responder")) /\ Passed(Stop, queue["responder"], n, h)
  BY CountsType DEF StopInv, QueuesInv
<1> HIDE DEF n, h
<1> QED
  BY <1>1, <1>2, PassedAll

(* Once every thread has ended, no queue has anything.                     *)
LEMMA NothingQueued ==
    ASSUME TypeInv, StopInv, ThreadsFinished, main.stops <= Cardinality(Handlers)
    PROVE  \A q \in QueueNames : queue[q] = << >>
<1>1. AllEnded(handler) /\ AllEnded(calculator) /\ AllEnded(workerHandler)
  BY ThreadDomains DEF ThreadsFinished, AllEnded
<1>2. /\ Cardinality(Heeded(handler)) = Cardinality(Handlers)
      /\ Cardinality(Heeded(calculator)) = Cardinality(Calculators)
      /\ Cardinality(Heeded(workerHandler)) = Cardinality(WorkerHandlers)
  BY <1>1, ThreadDomains, HeededType
<1>3. queue["sockets"] = << >>
  <2>1. Passed(Stop, queue["sockets"], main.stops, Cardinality(Handlers))
    BY <1>2 DEF StopInv, QueuesInv
  <2> QED
    BY <2>1, Sizes, CountsType, PassedAll
<1>4. queue["units"] = << >>
  <2>1. Passed(Stop, queue["units"], distributor.stops, Cardinality(Calculators))
    BY <1>2 DEF StopInv, QueuesInv
  <2>2. distributor.stops = Cardinality(Calculators)
    BY DEF ThreadsFinished, StopInv, CountsInv
  <2> QED
    BY <2>1, <2>2, Sizes, CountsType, PassedAll
<1>5. queue["workers"] = << >>
  <2>1. Passed(Stop, queue["workers"], master.stops, Cardinality(WorkerHandlers))
    BY <1>2 DEF StopInv, QueuesInv
  <2>2. master.stops = Cardinality(WorkerHandlers)
    BY DEF ThreadsFinished, StopInv, CountsInv
  <2>3. CASE Cardinality(WorkerHandlers) > 0
    BY <2>1, <2>2, <2>3, Sizes, CountsType, PassedAll
  <2>4. CASE Cardinality(WorkerHandlers) = 0
    <3>1. Len(queue["workers"]) <= 0 /\ queue["workers"] \in Seq(ElementsOf("workers"))
      BY <2>4 DEF TypeInv, SharedInv, QueueType, Capacity, QueueNames
    <3>2. queue["workers"] # << >> => Len(queue["workers"]) > 0
      BY <3>1, SequenceType
    <3> QED
      BY <3>1, <3>2
  <2> QED
    BY <2>3, <2>4, Sizes
<1>6. queue["decomposer"] = << >> /\ queue["distributor"] = << >>
      /\ queue["assembler"] = << >> /\ queue["responder"] = << >>
  BY DecomposerLeaves, DistributorLeaves, AssemblerLeaves, ResponderLeaves
     DEF ThreadsFinished
<1> QED
  BY <1>3, <1>4, <1>5, <1>6 DEF QueueNames

(* No stop condition overtakes what someone has to process: a thread that  *)
(* heeds its last one leaves nothing in its queue, and the process ends    *)
(* with every queue empty, for any number of threads and any capacity.     *)
THEOREM NothingIsOvertaken == Spec => []StopsOvertakeNothing
<1>1. TypeInv /\ StopInv => StopsOvertakeNothing
  <2> SUFFICES ASSUME TypeInv, StopInv PROVE StopsOvertakeNothing
    OBVIOUS
  <2>1. (\E c \in Calculators : calculator[c].at \in {"halt", "done"}) =>
           Range(queue["units"]) \subseteq {Stop}
    <3>1. ASSUME NEW c \in Calculators, calculator[c].at \in {"halt", "done"}
          PROVE  Cardinality(Heeded(calculator)) > 0
      <4>1. Heeded(calculator) # {}
        BY <3>1, ThreadDomains DEF Heeded
      <4> QED
        BY <4>1, ThreadDomains, HeededType
    <3> QED
      BY <3>1 DEF StopInv, QueuesInv, Passed
  <2>2. (\E k \in WorkerHandlers : workerHandler[k].at \in {"halt", "done"}) =>
           Range(queue["workers"]) \subseteq {Stop}
    <3>1. ASSUME NEW k \in WorkerHandlers, workerHandler[k].at \in {"halt", "done"}
          PROVE  Cardinality(Heeded(workerHandler)) > 0
      <4>1. Heeded(workerHandler) # {}
        BY <3>1, ThreadDomains DEF Heeded
      <4> QED
        BY <4>1, ThreadDomains, HeededType
    <3> QED
      BY <3>1 DEF StopInv, QueuesInv, Passed
  <2>3. Range(<< >>) = {}
    BY DEF Range
  <2>4. main.at = "done" => \A q \in QueueNames : queue[q] = << >>
    BY NothingQueued, Sizes DEF StopInv, CountsInv
  <2> QED
    BY <2>1, <2>2, <2>3, <2>4, DecomposerLeaves, DistributorLeaves, AssemblerLeaves,
       ResponderLeaves DEF StopsOvertakeNothing
<1> QED
  BY <1>1, StopInvariant, LineInvariant, PTL

----
(* The steps of a worker that is in order leave it in order.               *)
LEMMA OrderlyWorks ==
    ASSUME TypeInv, NEW w \in Workers, Orderly(remote[w]), Remote!Works(w)
    PROVE  Orderly(remote'[w])
<1> DEFINE in == remote[w].inbox
           out == remote[w].outbox
<1>1. /\ remote[w] \in Remote!RemoteWorker /\ DOMAIN remote = Workers
      /\ in \in Seq(Units \cup {Stop}) /\ out \in Seq(Units \cup {Stop})
  BY RemoteTypes
<1>2. CASE Remote!TakeUnit(w)
  <2>1. /\ in # << >> /\ remote[w].state = "serving"
        /\ remote'[w].inbox = Tail(in) /\ remote'[w].outbox = out
        /\ remote'[w].state = "serving"
    BY <1>1, <1>2 DEF Remote!TakeUnit, Remote!RemoteWorker
  <2>2. StopLast(Stop, Tail(in))
    BY <1>1, <2>1, StopLastTail DEF Orderly
  <2> QED
    BY <2>1, <2>2 DEF Orderly
<1>3. CASE Remote!TakeStop(w)
  <2>1. /\ in # << >> /\ Head(in) = Stop /\ remote[w].state = "serving"
        /\ remote'[w].inbox = Tail(in) /\ remote'[w].outbox = out
        /\ remote'[w].state = "draining"
    BY <1>1, <1>3 DEF Remote!TakeStop, Remote!RemoteWorker
  <2>2. StopLast(Stop, Tail(in)) /\ Tail(in) = << >>
    BY <1>1, <2>1, StopLastTail DEF Orderly
  <2> QED
    BY <2>1, <2>2 DEF Orderly
<1>4. ASSUME NEW u \in Units, Remote!Answer(w, u) PROVE Orderly(remote'[w])
  <2>1. /\ remote[w].state \in {"serving", "draining"} /\ remote'[w].state = remote[w].state
        /\ remote'[w].inbox = in /\ remote'[w].outbox = Append(out, u)
    BY <1>1, <1>4 DEF Remote!Answer, Remote!Listens, Remote!RemoteWorker
  <2>2. Stop \notin Range(out)
    BY <2>1 DEF Orderly
  <2>3. StopLast(Stop, Append(out, u)) /\ Range(Append(out, u)) = Range(out) \cup {u}
    BY <1>1, <2>2, StopLastAppend
  <2>4. u # Stop
    BY LineAssumption
  <2> QED
    BY <2>1, <2>2, <2>3, <2>4 DEF Orderly
<1>5. CASE Remote!Leave(w)
  <2>1. /\ remote[w].state = "draining" /\ remote'[w].state = "gone"
        /\ remote'[w].inbox = in /\ remote'[w].outbox = Append(out, Stop)
        /\ remote'[w].held = {}
    BY <1>1, <1>5 DEF Remote!Leave, Remote!RemoteWorker
  <2>2. Stop \notin Range(out)
    BY <2>1 DEF Orderly
  <2>3. StopLast(Stop, Append(out, Stop))
    BY <1>1, <2>2, StopLastAppend
  <2> QED
    BY <2>1, <2>3 DEF Orderly
<1> QED
  BY <1>2, <1>3, <1>4, <1>5 DEF Remote!Works

LEMMA OrderlyCrash ==
    ASSUME TypeInv, NEW w \in Workers, Orderly(remote[w]), Remote!Crash(w)
    PROVE  Orderly(remote'[w])
<1>1. /\ remote[w] \in Remote!RemoteWorker /\ DOMAIN remote = Workers
      /\ remote[w].outbox \in Seq(Units \cup {Stop})
  BY RemoteTypes
<1>2. PICK n \in 0 .. Len(remote[w].outbox) :
         remote' = [remote EXCEPT ![w] =
            [state |-> "crashed", inbox |-> << >>, held |-> {},
             outbox |-> SubSeq(remote[w].outbox, 1, n)]]
  BY DEF Remote!Crash
<1>3. /\ remote'[w].state = "crashed" /\ remote'[w].inbox = << >> /\ remote'[w].held = {}
      /\ remote'[w].outbox = SubSeq(remote[w].outbox, 1, n)
  BY <1>1, <1>2
<1>4. Stop \notin Range(remote[w].outbox)
  BY DEF Remote!Crash, Remote!Listens, Orderly
<1>5. /\ StopLast(Stop, SubSeq(remote[w].outbox, 1, n))
      /\ Stop \notin Range(SubSeq(remote[w].outbox, 1, n))
  BY <1>1, <1>4, StopLastPrefix
<1> QED
  BY <1>3, <1>5, StopLastEmpty DEF Orderly

(* And so do those of the master, which tells a worker to stop once, after *)
(* everything else that it sends it.                                       *)
LEMMA OrderlySend ==
    ASSUME TypeInv, NEW w \in Workers, Orderly(remote[w]), NEW W \in SUBSET Workers,
           NEW m \in Units \cup {Stop}, Remote!Send(W, m), Stop \notin Range(remote[w].inbox),
           remote[w].state # "draining"
    PROVE  Orderly(remote'[w])
<1>1. /\ remote[w] \in Remote!RemoteWorker /\ remote[w].inbox \in Seq(Units \cup {Stop})
  BY RemoteTypes
<1>2. CASE w \in W /\ Remote!Listens(w)
  <2>1. remote'[w] = [remote[w] EXCEPT !.inbox = Append(@, m)]
    BY <1>2 DEF Remote!Send
  <2>2. /\ remote'[w].inbox = Append(remote[w].inbox, m) /\ remote[w].state = "serving"
        /\ remote'[w].state = remote[w].state /\ remote'[w].held = remote[w].held
        /\ remote'[w].outbox = remote[w].outbox
    BY <1>1, <1>2, <2>1 DEF Remote!RemoteWorker, Remote!Listens
  <2>3. StopLast(Stop, Append(remote[w].inbox, m))
    BY <1>1, StopLastAppend
  <2> QED
    BY <2>2, <2>3 DEF Orderly
<1>3. CASE ~(w \in W /\ Remote!Listens(w))
  BY <1>3 DEF Remote!Send
<1> QED
  BY <1>2, <1>3

LEMMA OrderlyReceive ==
    ASSUME TypeInv, NEW w \in Workers, Orderly(remote[w]), remote[w].outbox # << >>,
           Remote!Receive(w)
    PROVE  Orderly(remote'[w])
<1>1. /\ remote[w] \in Remote!RemoteWorker /\ DOMAIN remote = Workers
      /\ remote[w].outbox \in Seq(Units \cup {Stop})
  BY RemoteTypes
<1>2. /\ remote'[w].inbox = remote[w].inbox /\ remote'[w].held = remote[w].held
      /\ remote'[w].state = remote[w].state /\ remote'[w].outbox = Tail(remote[w].outbox)
  BY <1>1 DEF Remote!Receive, Remote!RemoteWorker
<1>3. /\ StopLast(Stop, Tail(remote[w].outbox))
      /\ Range(Tail(remote[w].outbox)) \subseteq Range(remote[w].outbox)
  BY <1>1, StopLastTail DEF Orderly
<1>4. remote[w].state # "absent"
  BY DEF Orderly
<1> QED
  BY <1>2, <1>3, <1>4 DEF Orderly

LEMMA ConversationStep ==
    ASSUME TypeInv, ListenInv, ConversationInv, [Next]_vars
    PROVE  ConversationInv'
<1> SUFFICES ASSUME NEW w \in Workers PROVE Orderly(remote'[w])
  BY DEF ConversationInv
<1>1. Orderly(remote[w])
  BY DEF ConversationInv
<1>2. remote[w] \in Remote!RemoteWorker /\ DOMAIN remote = Workers
  BY RemoteTypes
<1>3. CASE remote'[w] = remote[w]
  BY <1>1, <1>3
<1>4. ASSUME NEW x \in Workers, MasterAccepts(x) PROVE Orderly(remote'[w])
  <2>1. CASE x = w
    <3>1. /\ remote[w].state = "absent" /\ remote'[w].state = "serving"
          /\ remote'[w].inbox = remote[w].inbox /\ remote'[w].held = remote[w].held
          /\ remote'[w].outbox = remote[w].outbox
      BY <1>2, <1>4, <2>1 DEF MasterAccepts, Remote!Connect, Remote!RemoteWorker
    <3>2. Stop \notin Range(remote[w].outbox)
      BY <1>1, <3>1 DEF Orderly
    <3> QED
      BY <1>1, <3>1, <3>2 DEF Orderly
  <2>2. CASE x # w
    BY <1>2, <1>3, <1>4, <2>2 DEF MasterAccepts, Remote!Connect
  <2> QED
    BY <2>1, <2>2
<1>5. ASSUME NEW x \in Workers, WorkerWorks(x) \/ WorkerCrashes(x) PROVE Orderly(remote'[w])
  <2>1. CASE x = w
    BY <1>1, <1>5, <2>1, OrderlyWorks, OrderlyCrash DEF WorkerWorks, WorkerCrashes
  <2>2. CASE x # w
    <3>1. remote'[w] = remote[w]
      BY <1>2, <1>5, <2>2 DEF WorkerWorks, WorkerCrashes, Remote!Works, Remote!TakeUnit,
         Remote!TakeStop, Remote!Leave, Remote!Answer, Remote!Crash
    <3> QED
      BY <1>3, <3>1
  <2> QED
    BY <2>1, <2>2
<1>6. ASSUME distributor.at \notin {"halt", "done"}
      PROVE  Stop \notin Range(remote[w].inbox) /\ remote[w].state # "draining"
  BY <1>6 DEF ListenInv
<1>7. CASE DistributorSends
  <2>1. /\ distributor.unit \in Units /\ distributor.worker \in Workers
        /\ Remote!Send({distributor.worker}, distributor.unit)
        /\ distributor.at \notin {"halt", "done"}
    BY <1>7 DEF DistributorSends, TypeInv, ThreadsInv, DistributorInv
  <2> QED
    BY <1>1, <1>6, <2>1, OrderlySend
<1>8. CASE DistributorStopsWorkers
  <2>1. /\ pool \in SUBSET Workers /\ Remote!Send(pool, Stop)
        /\ distributor.at \notin {"halt", "done"}
    BY <1>8 DEF DistributorStopsWorkers, TypeInv, SharedInv
  <2> QED
    BY <1>1, <1>6, <2>1, OrderlySend
<1>9. ASSUME NEW k \in WorkerHandlers, WorkerHandlerReads(k) \/ WorkerHandlerDrops(k)
      PROVE  Orderly(remote'[w])
  <2>1. \/ UNCHANGED remote
        \/ /\ remote[workerHandler[k].worker].outbox # << >>
           /\ Remote!Receive(workerHandler[k].worker)
    BY <1>9 DEF WorkerHandlerReads, WorkerHandlerDrops
  <2>2. CASE workerHandler[k].worker = w
    BY <1>1, <2>1, <2>2, OrderlyReceive
  <2>3. CASE workerHandler[k].worker # w
    BY <1>2, <1>3, <2>1, <2>3 DEF Remote!Receive
  <2> QED
    BY <2>2, <2>3
<1> QED
  BY <1>3, <1>4, <1>5, <1>7, <1>8, <1>9, RemoteSteps

----
(* Which connections come to be attended, and which do no longer.          *)
Dropped(w) ==
    \E k \in WorkerHandlers : WorkerHandlerDrops(k) /\ workerHandler[k].worker = w

LEMMA AttendedMoves ==
    ASSUME TypeInv, AttendedInv, [Next]_vars, NEW w \in Workers
    PROVE  /\ w \in Attended => w \in Attended' \/ Dropped(w)
           /\ w \in pool' => w \in pool \/ w \in Attended'
           /\ w \in pool' => ~Dropped(w) \/ w \notin pool
<1>1. w \in pool' => ~Dropped(w) \/ w \notin pool
  BY DEF Dropped, WorkerHandlerDrops
<1>2. w \in pool' => w \in pool \/ w \in Attended'
  <2>1. CASE MasterAdmits
    <3>1. /\ pool' = pool \cup {master.peer}
          /\ master'.at = "handing" /\ master'.peer = master.peer
      BY <2>1 DEF MasterAdmits, TypeInv, ThreadsInv, MasterInv, MasterType
    <3> QED
      BY <3>1 DEF Attended
  <2>2. ASSUME NEW k \in WorkerHandlers, WorkerHandlerDrops(k) PROVE pool' \subseteq pool
    BY <2>2 DEF WorkerHandlerDrops
  <2> QED
    BY <2>1, <2>2, RemoteSteps
<1>3. ASSUME w \in Queued PROVE w \in Attended'
  <2>1. CASE queue'["workers"] = queue["workers"]
    BY <1>3, <2>1 DEF Queued, Attended
  <2>2. queue["workers"] \in Seq({Stop} \cup Workers)
    BY OwnersType
  <2>3. ASSUME NEW e \in {Stop} \cup Workers, queue'["workers"] = Append(queue["workers"], e)
        PROVE  w \in Attended'
    <3>1. Range(queue'["workers"]) = Range(queue["workers"]) \cup {e}
      BY <2>2, <2>3, AppendRange
    <3> QED
      BY <1>3, <3>1 DEF Queued, Attended
  <2>4. CASE MasterHands \/ MasterStops
    <3>1. \E e \in {Stop} \cup Workers : queue'["workers"] = Append(queue["workers"], e)
      BY <2>4 DEF MasterHands, MasterStops, Enqueue, TypeInv, SharedInv, QueueType,
         QueueNames, ThreadsInv, MasterInv
    <3> QED
      BY <2>3, <3>1
  <2>5. ASSUME NEW k \in WorkerHandlers, WorkerHandlerTakes(k) PROVE w \in Attended'
    <3> DEFINE s == queue["workers"]
    <3>1. s # << >> /\ queue'["workers"] = Tail(s)
      BY <2>5 DEF WorkerHandlerTakes, Dequeue, TypeInv, SharedInv, QueueType, QueueNames
    <3>2. \A i \in DOMAIN s : s[i] = Head(s) \/ s[i] \in Range(Tail(s))
      <4>1. ASSUME NEW i \in DOMAIN s, i # 1 PROVE s[i] \in Range(Tail(s))
        <5>1. i - 1 \in DOMAIN Tail(s) /\ Tail(s)[i - 1] = s[i]
          BY <2>2, <3>1, <4>1
        <5> QED
          BY <5>1 DEF Range
      <4>2. Head(s) = s[1]
        BY <2>2, <3>1, TailRange
      <4> QED
        BY <4>1, <4>2
    <3>3. w = Head(s) \/ w \in Queued'
      BY <1>3, <3>1, <3>2 DEF Queued, Range
    <3>4. CASE w = Head(s)
      <4>1. w # Stop /\ w # Nothing
        BY OwnersType
      <4>2. workerHandler' = [workerHandler EXCEPT ![k] =
               [workerHandler[k] EXCEPT !.at = "read", !.worker = w]]
        BY <2>5, <3>4, <4>1 DEF WorkerHandlerTakes, Dequeue
      <4>3. workerHandler'[k].worker = w
        BY <4>2 DEF TypeInv, ThreadsInv, WorkerHandlerInv, WorkerHandlerType
      <4>4. w \in Served'
        BY <4>1, <4>3 DEF Served
      <4> QED
        BY <4>4 DEF Attended
    <3> QED
      BY <3>3, <3>4 DEF Attended
  <2> QED
    BY <2>1, <2>4, <2>5, QueueSteps
<1>4. ASSUME NEW k \in WorkerHandlers, workerHandler[k].worker = w, ~Dropped(w)
      PROVE  w \in Attended'
  <2>1. workerHandler'[k].worker = w
    <3>1. WorkerHandlerType
      BY DEF TypeInv, ThreadsInv, WorkerHandlerInv
    <3>2. UNCHANGED workerHandler \/ \E x \in WorkerHandlers : WorkerHandlerWorks(x)
      BY ThreadSteps
    <3>3. ASSUME NEW x \in WorkerHandlers, WorkerHandlerWorks(x), x # k
          PROVE  workerHandler'[k] = workerHandler[k]
      BY <3>1, <3>3 DEF WorkerHandlerWorks, WorkerHandlerTakes, WorkerHandlerReads,
         WorkerHandlerProduces, WorkerHandlerDrops, WorkerHandlerHalts, WorkerHandlerType
    <3>4. CASE WorkerHandlerTakes(k)
      <4>1. workerHandler[k].worker = Nothing
        BY <3>4 DEF WorkerHandlerTakes, AttendedInv
      <4> QED
        BY <1>4, <4>1, OwnersType
    <3>5. CASE WorkerHandlerReads(k) \/ WorkerHandlerProduces(k) \/ WorkerHandlerHalts(k)
      BY <1>4, <3>1, <3>5 DEF WorkerHandlerReads, WorkerHandlerProduces, WorkerHandlerHalts,
         WorkerHandlerType
    <3> QED
      BY <1>4, <3>2, <3>3, <3>4, <3>5 DEF WorkerHandlerWorks, Dropped
  <2>2. w # Nothing
    BY OwnersType
  <2> QED
    BY <2>1, <2>2 DEF Attended, Served
<1>5. ASSUME master.at = "handing", master.peer = w PROVE w \in Attended'
  <2>1. CASE UNCHANGED master
    BY <1>5, <2>1 DEF Attended
  <2>2. CASE MasterHands
    <3>1. queue'["workers"] = Append(queue["workers"], w)
      BY <1>5, <2>2 DEF MasterHands, Enqueue, TypeInv, SharedInv, QueueType, QueueNames
    <3>2. Range(queue'["workers"]) = Range(queue["workers"]) \cup {w} /\ w # Stop
      BY <3>1, OwnersType, AppendRange
    <3> QED
      BY <3>2 DEF Attended, Queued
  <2>3. MasterSteps => MasterHands
    BY <1>5 DEF MasterSteps, MasterListens, MasterAdmits, MasterRejects, MasterFails,
       MasterStops, MasterEnds, MasterAccepts
  <2> QED
    BY <2>1, <2>2, <2>3, ThreadSteps
<1>6. w \in Attended => w \in Attended' \/ Dropped(w)
  BY <1>3, <1>4, <1>5 DEF Attended, Served
<1> QED
  BY <1>1, <1>2, <1>6

(* A connection whose worker has ended stays so.                           *)
LEMMA NeverListensAgain ==
    ASSUME TypeInv, [Next]_vars, NEW w \in Workers, remote[w].state \in {"gone", "crashed"}
    PROVE  remote'[w].state \in {"gone", "crashed"}
<1>1. /\ remote[w] \in Remote!RemoteWorker /\ DOMAIN remote = Workers
      /\ \A x \in Workers : remote[x] \in Remote!RemoteWorker
  BY RemoteTypes
<1>2. ASSUME NEW x \in Workers, MasterAccepts(x) PROVE remote'[w] = remote[w]
  BY <1>1, <1>2 DEF MasterAccepts, Remote!Connect
<1>3. ASSUME NEW x \in Workers, WorkerWorks(x) \/ WorkerCrashes(x)
      PROVE  remote'[w] = remote[w]
  <2>1. x # w
    BY <1>3 DEF WorkerWorks, WorkerCrashes, Remote!Works, Remote!TakeUnit, Remote!TakeStop,
       Remote!Leave, Remote!Answer, Remote!Crash, Remote!Listens
  <2> QED
    BY <1>1, <1>3, <2>1 DEF WorkerWorks, WorkerCrashes, Remote!Works, Remote!TakeUnit,
       Remote!TakeStop, Remote!Leave, Remote!Answer, Remote!Crash
<1>4. CASE DistributorSends \/ DistributorStopsWorkers
  BY <1>4 DEF DistributorSends, DistributorStopsWorkers, Remote!Send, Remote!Listens
<1>5. ASSUME NEW k \in WorkerHandlers, WorkerHandlerReads(k) \/ WorkerHandlerDrops(k)
      PROVE  remote'[w].state = remote[w].state
  <2>1. UNCHANGED remote \/ \E x : remote' = [remote EXCEPT ![x].outbox = Tail(@)]
    BY <1>5 DEF WorkerHandlerReads, WorkerHandlerDrops, Remote!Receive
  <2>2. ASSUME NEW x, remote' = [remote EXCEPT ![x].outbox = Tail(@)]
        PROVE  remote'[w].state = remote[w].state
    <3>1. remote[w] \in Remote!RemoteWorker /\ DOMAIN remote = Workers
      BY <1>1
    <3> QED
      BY <2>2, <3>1 DEF Remote!RemoteWorker
  <2> QED
    BY <2>1, <2>2
<1> QED
  BY <1>2, <1>3, <1>4, <1>5, RemoteSteps

(* A connection is dropped when its worker has ended and all that it wrote *)
(* was read.                                                               *)
LEMMA DroppedIdle ==
    ASSUME TypeInv, DrainInv, ListenInv, PoolInv, NEW w \in Workers, Dropped(w)
    PROVE  remote'[w].state \in {"gone", "crashed"} /\ Idle(w)'
<1>1. PICK k \in WorkerHandlers : WorkerHandlerDrops(k) /\ workerHandler[k].worker = w
  BY DEF Dropped
<1>2. /\ remote[w] \in Remote!RemoteWorker /\ DOMAIN remote = Workers
      /\ remote[w].outbox \in Seq(Units \cup {Stop}) /\ Orderly(remote[w])
  BY RemoteTypes DEF DrainInv, ConversationInv
<1>3. remote[w].state # "absent"
  <2>1. w \in Served
    BY <1>1, OwnersType DEF Served
  <2> QED
    BY <2>1 DEF PoolInv, OwnedConnected
<1>4. CASE remote[w].outbox # << >> /\ Head(remote[w].outbox) = Stop /\ Remote!Receive(w)
  <2>1. Tail(remote[w].outbox) = << >> /\ Stop \in Range(remote[w].outbox)
    BY <1>2, <1>4, StopLastTail DEF Orderly
  <2>2. /\ remote'[w].outbox = Tail(remote[w].outbox) /\ remote'[w].inbox = remote[w].inbox
        /\ remote'[w].held = remote[w].held /\ remote'[w].state = remote[w].state
    BY <1>2, <1>4 DEF Remote!Receive, Remote!RemoteWorker
  <2> QED
    BY <1>2, <2>1, <2>2, StopLastEmpty DEF Orderly, Idle
<1>5. CASE remote[w].outbox = << >> /\ ~Remote!Listens(w) /\ UNCHANGED remote
  <2>1. remote[w].state \in {"gone", "crashed"}
    BY <1>2, <1>3, <1>5 DEF Remote!RemoteWorker, Remote!WorkerStates, Remote!Listens
  <2> QED
    BY <1>2, <1>5, <2>1, StopLastEmpty DEF Orderly, Idle
<1> QED
  BY <1>1, <1>4, <1>5 DEF WorkerHandlerDrops

(* What nobody attends to stays idle.                                      *)
LEMMA IdleKept ==
    ASSUME TypeInv, AttendedInv, [Next]_vars, NEW w \in Workers, w \notin Attended, Idle(w)
    PROVE  Idle(w)'
<1> DEFINE in == remote[w].inbox
           out == remote[w].outbox
<1>1. /\ remote[w] \in Remote!RemoteWorker /\ DOMAIN remote = Workers
      /\ in \in Seq(Units \cup {Stop}) /\ out \in Seq(Units \cup {Stop})
  BY RemoteTypes
<1>2. CASE remote'[w].inbox = in /\ remote'[w].held = remote[w].held /\ remote'[w].outbox = out
  BY <1>2 DEF Idle
<1>3. ASSUME NEW x \in Workers, MasterAccepts(x) PROVE Idle(w)'
  BY <1>1, <1>2, <1>3 DEF MasterAccepts, Remote!Connect, Remote!RemoteWorker
<1>4. ASSUME NEW x \in Workers, x # w, WorkerWorks(x) \/ WorkerCrashes(x) PROVE Idle(w)'
  <2>1. remote'[w] = remote[w]
    BY <1>1, <1>4 DEF WorkerWorks, WorkerCrashes, Remote!Works, Remote!TakeUnit,
       Remote!TakeStop, Remote!Leave, Remote!Answer, Remote!Crash
  <2> QED
    BY <1>2, <2>1
<1>5. CASE WorkerWorks(w)
  <2>1. CASE Remote!TakeUnit(w)
    <3>1. in # << >> /\ Head(in) # Stop
      BY <2>1 DEF Remote!TakeUnit
    <3>2. Head(in) \in Range(in)
      BY <1>1, <3>1, TailRange
    <3> QED
      BY <3>1, <3>2 DEF Idle
  <2>2. CASE Remote!TakeStop(w)
    <3>1. /\ in # << >> /\ remote'[w].inbox = Tail(in) /\ remote'[w].held = remote[w].held
          /\ remote'[w].outbox = out
      BY <1>1, <2>2 DEF Remote!TakeStop, Remote!RemoteWorker
    <3>2. Range(Tail(in)) \subseteq Range(in)
      BY <1>1, <3>1, TailRange
    <3> QED
      BY <3>1, <3>2 DEF Idle
  <2>3. \A u \in Units : ~Remote!Answer(w, u)
    BY DEF Remote!Answer, Idle
  <2>4. CASE Remote!Leave(w)
    <3>1. /\ remote'[w].inbox = in /\ remote'[w].held = remote[w].held
          /\ remote'[w].outbox = Append(out, Stop)
      BY <1>1, <2>4 DEF Remote!Leave, Remote!RemoteWorker
    <3>2. Range(Append(out, Stop)) = Range(out) \cup {Stop}
      BY <1>1, AppendRange
    <3> QED
      BY <3>1, <3>2 DEF Idle
  <2> QED
    BY <1>5, <2>1, <2>2, <2>3, <2>4 DEF WorkerWorks, Remote!Works
<1>6. CASE WorkerCrashes(w)
  <2>1. PICK n \in 0 .. Len(out) :
           remote' = [remote EXCEPT ![w] =
              [state |-> "crashed", inbox |-> << >>, held |-> {},
               outbox |-> SubSeq(remote[w].outbox, 1, n)]]
    BY <1>6 DEF WorkerCrashes, Remote!Crash
  <2>2. /\ remote'[w].inbox = << >> /\ remote'[w].held = {}
        /\ remote'[w].outbox = SubSeq(out, 1, n)
    BY <1>1, <2>1
  <2>3. /\ DOMAIN SubSeq(out, 1, n) = 1 .. n /\ 1 .. n \subseteq DOMAIN out
        /\ \A i \in 1 .. n : SubSeq(out, 1, n)[i] = out[i]
    BY <1>1
  <2>4. Range(SubSeq(out, 1, n)) \subseteq Range(out)
    BY <2>3 DEF Range
  <2> QED
    BY <2>2, <2>4, StopLastEmpty DEF Idle
<1>7. CASE DistributorSends
  <2>1. distributor.worker # Nothing
    BY <1>7, OwnersType DEF DistributorSends, TypeInv, ThreadsInv, DistributorInv
  <2>2. ~(w \in {distributor.worker} /\ Remote!Listens(w))
    BY <2>1 DEF AttendedInv
  <2>3. remote'[w] = remote[w]
    BY <1>7, <2>2 DEF DistributorSends, Remote!Send
  <2> QED
    BY <1>2, <2>3
<1>8. CASE DistributorStopsWorkers
  <2>1. w \notin pool
    BY DEF AttendedInv
  <2>2. remote'[w] = remote[w]
    BY <1>8, <2>1 DEF DistributorStopsWorkers, Remote!Send
  <2> QED
    BY <1>2, <2>2
<1>9. ASSUME NEW k \in WorkerHandlers, WorkerHandlerReads(k) \/ WorkerHandlerDrops(k)
      PROVE  Idle(w)'
  <2>1. /\ \/ UNCHANGED remote
           \/ Remote!Receive(workerHandler[k].worker)
        /\ workerHandler[k].at = "read"
    BY <1>9 DEF WorkerHandlerReads, WorkerHandlerDrops
  <2>2. workerHandler[k].worker # w
    <3>1. w # Nothing
      BY OwnersType
    <3> QED
      BY <3>1 DEF Attended, Served
  <2>3. remote'[w] = remote[w]
    BY <1>1, <2>1, <2>2 DEF Remote!Receive
  <2> QED
    BY <1>2, <2>3
<1> QED
  BY <1>2, <1>3, <1>4, <1>5, <1>6, <1>7, <1>8, <1>9, RemoteSteps

LEMMA AttendedStep ==
    ASSUME TypeInv, PoolInv, ListenInv, DrainInv, [Next]_vars
    PROVE  AttendedInv'
<1>0. AttendedInv
  BY DEF DrainInv
<1>1. DistributorType /\ WorkerHandlerType /\ pool \subseteq Workers
  BY DEF TypeInv, ThreadsInv, DistributorInv, WorkerHandlerInv, SharedInv
<1>2. (distributor.at # "send" => distributor.worker = Nothing)'
  <2>1. CASE DistributorWorks
    BY <1>0, <1>1, <2>1 DEF DistributorWorks, DistributorTakes, DistributorFindsNobody,
       DistributorChooses, DistributorSends, DistributorProduces, DistributorStopsWorkers,
       DistributorHalts, DistributorType, AttendedInv
  <2> QED
    BY <1>0, <2>1, ThreadSteps DEF AttendedInv
<1>3. ASSUME NEW k \in WorkerHandlers, workerHandler'[k].at \notin {"read", "produce"}
      PROVE  workerHandler'[k].worker = Nothing
  <2>1. CASE workerHandler'[k] = workerHandler[k]
    BY <1>0, <1>3, <2>1 DEF AttendedInv
  <2>2. CASE WorkerHandlerTakes(k)
    <3>1. \/ workerHandler'[k].at = "read"
          \/ workerHandler'[k].worker = workerHandler[k].worker
      BY <1>1, <2>2 DEF WorkerHandlerTakes, WorkerHandlerType
    <3> QED
      BY <1>0, <1>3, <2>2, <3>1 DEF WorkerHandlerTakes, AttendedInv
  <2>3. CASE WorkerHandlerReads(k)
    BY <1>1, <1>3, <2>3 DEF WorkerHandlerReads, WorkerHandlerType
  <2>4. CASE WorkerHandlerProduces(k)
    BY <1>1, <1>3, <2>4 DEF WorkerHandlerProduces, WorkerHandlerType
  <2>5. CASE WorkerHandlerDrops(k)
    BY <1>1, <2>5 DEF WorkerHandlerDrops, WorkerHandlerType
  <2>6. CASE WorkerHandlerHalts(k)
    <3>1. workerHandler'[k].worker = workerHandler[k].worker
      BY <1>1, <2>6 DEF WorkerHandlerHalts, WorkerHandlerType
    <3> QED
      BY <1>0, <2>6, <3>1 DEF WorkerHandlerHalts, AttendedInv
  <2>7. ASSUME NEW x \in WorkerHandlers, WorkerHandlerWorks(x), x # k
        PROVE  workerHandler'[k] = workerHandler[k]
    BY <1>1, <2>7 DEF WorkerHandlerWorks, WorkerHandlerTakes, WorkerHandlerReads,
       WorkerHandlerProduces, WorkerHandlerDrops, WorkerHandlerHalts, WorkerHandlerType
  <2> QED
    BY <2>1, <2>2, <2>3, <2>4, <2>5, <2>6, <2>7, ThreadSteps DEF WorkerHandlerWorks
<1>4. pool' \subseteq Attended'
  <2>1. ASSUME NEW w \in pool' PROVE w \in Attended'
    <3>1. w \in Workers
      <4>1. TypeInv'
        BY TypeStep
      <4> QED
        BY <2>1, <4>1 DEF TypeInv, SharedInv
    <3> QED
      BY <1>0, <2>1, <3>1, AttendedMoves DEF AttendedInv
  <2> QED
    BY <2>1
<1>5. ASSUME distributor'.worker # Nothing
      PROVE  (distributor.worker \in Attended \/ ~Remote!Listens(distributor.worker))'
  <2> DEFINE w == distributor'.worker
  <2>1. \/ w = distributor.worker
        \/ w \in pool
    <3>1. CASE DistributorWorks
      BY <1>1, <1>5, <3>1 DEF DistributorWorks, DistributorTakes, DistributorFindsNobody,
         DistributorChooses, DistributorSends, DistributorProduces, DistributorStopsWorkers,
         DistributorHalts, DistributorType
    <3> QED
      BY <3>1, ThreadSteps
  <2>2. w \in Workers /\ remote[w].state # "absent"
    BY <1>1, <1>5, <2>1 DEF DistributorType, ListenInv
  <2>3. w \in Attended \/ remote[w].state \in {"gone", "crashed"}
    <3>1. remote[w].state \in Remote!WorkerStates
      BY <2>2, RemoteTypes DEF Remote!RemoteWorker
    <3> QED
      BY <1>0, <1>5, <2>1, <2>2, <3>1 DEF AttendedInv, Remote!Listens, Remote!WorkerStates
  <2>4. w \in Attended' \/ remote'[w].state \in {"gone", "crashed"}
    BY <1>0, <2>2, <2>3, AttendedMoves, DroppedIdle, NeverListensAgain
  <2> QED
    BY <2>4 DEF Remote!Listens
<1>6. ASSUME NEW w \in Workers, w \notin Attended' PROVE Idle(w)'
  <2>1. CASE w \in Attended
    <3>1. Dropped(w)
      BY <1>0, <1>6, <2>1, AttendedMoves
    <3> QED
      BY <3>1, DroppedIdle
  <2>2. CASE w \notin Attended
    BY <1>0, <2>2, IdleKept DEF AttendedInv
  <2> QED
    BY <2>1, <2>2
<1> QED
  BY <1>2, <1>3, <1>4, <1>5, <1>6 DEF AttendedInv

LEMMA DrainInit == Init => DrainInv
<1> SUFFICES ASSUME Init PROVE DrainInv
  OBVIOUS
<1>1. \A w \in Workers :
         remote[w] = [state |-> "absent", inbox |-> << >>, held |-> {}, outbox |-> << >>]
  BY DEF Init, Remote!RemoteInit
<1>2. ConversationInv
  BY <1>1, StopLastEmpty DEF ConversationInv, Orderly
<1>3. \A w \in Workers : Idle(w)
  BY <1>1, StopLastEmpty DEF Idle
<1>4. distributor.worker = Nothing /\ pool = {}
      /\ \A k \in WorkerHandlers : workerHandler[k].worker = Nothing
  BY DEF Init
<1> QED
  BY <1>2, <1>3, <1>4 DEF DrainInv, AttendedInv

(* What a worker that has not crashed was sent is never left behind: a     *)
(* connection that nobody is to read has nothing on it, and its worker     *)
(* nothing to compute, whatever thread dropped it and whenever.            *)
THEOREM DrainInvariant == Spec => []DrainInv
<1>1. Init => PoolInv /\ LossInv /\ DrainInv
  BY PoolInit, LossInit, DrainInit
<1>2. TypeInv /\ PoolInv /\ [Next]_vars => PoolInv'
  BY PoolStep
<1>3. TypeInv /\ PoolInv /\ LossInv /\ DrainInv /\ [Next]_vars => DrainInv'
  BY ConversationStep, AttendedStep DEF DrainInv, LossInv
<1> QED
  BY <1>1, <1>2, <1>3, LineInvariant, LossInvariant, PTL DEF Spec

----
(* A process whose threads have ended has answered every request that it   *)
(* accepted: nothing is queued, a connection that nobody reads has nothing *)
(* on it, and a pending unit would have to be somewhere.                   *)
LineInv == TypeInv /\ PoolInv /\ UnitInv /\ LossInv /\ StopInv /\ DrainInv

LEMMA NothingFlies ==
    ASSUME LineInv, ThreadsFinished, main.stops <= Cardinality(Handlers)
    PROVE  /\ Flying(holds) = {}
           /\ \A r \in Requests : ~Undecomposed(r) /\ r \notin ToRespond
<1>1. \A q \in QueueNames : queue[q] = << >> /\ Range(queue[q]) = {}
  BY NothingQueued, StopLastEmpty DEF LineInv
<1>2. /\ \A h \in Handlers : handler[h].data = Nothing
      /\ decomposer.units = << >> /\ distributor.unit = Nothing /\ assembler.unit = Nothing
      /\ \A c \in Calculators : calculator[c].unit = Nothing
      /\ \A k \in WorkerHandlers :
            workerHandler[k].unit = Nothing /\ workerHandler[k].worker = Nothing
  BY DEF ThreadsFinished, LineInv, UnitInv, SlotsInv, DrainInv, AttendedInv
<1>3. \A w \in Workers : Idle(w)
  <2>1. Queued = {} /\ Served = {} /\ master.at # "handing"
    BY <1>1, <1>2 DEF Queued, Served, QueueNames, ThreadsFinished
  <2>2. Attended = {}
    BY <2>1 DEF Attended
  <2> QED
    BY <2>2 DEF LineInv, DrainInv, AttendedInv
<1>4. Flying(holds) = {}
  <2>1. /\ \A q \in UnitQueues : holds["queue"][q] = {}
        /\ holds["decomposer"]["units"] = {} /\ holds["distributor"]["unit"] = {}
        /\ \A w \in Workers :
              holds["inbox"][w] = {} /\ holds["held"][w] = {} /\ holds["outbox"][w] = {}
        /\ \A c \in Calculators : holds["calculator"][c] = {}
        /\ \A k \in WorkerHandlers : holds["workerHandler"][k] = {}
    BY <1>1, <1>2, <1>3, HoldsAre, StopLastEmpty DEF Idle, UnitQueues, QueueNames
  <2>2. \A k \in Kinds : \A o \in Owners[k] : holds[k][o] = {}
    BY <2>1, OwnersAre DEF Kinds
  <2> QED
    BY <2>2 DEF Flying
<1>5. ASSUME NEW r \in Requests PROVE ~Undecomposed(r) /\ r \notin ToRespond
  <2>1. r # Nothing
    BY LineAssumption
  <2>2. Range(queue["decomposer"]) = {} /\ Range(queue["responder"]) = {}
    BY <1>1 DEF QueueNames
  <2> QED
    BY <1>2, <2>1, <2>2 DEF Undecomposed, ToRespond
<1> QED
  BY <1>4, <1>5

LEMMA NothingLive ==
    ASSUME LineInv, ~Crashed, ThreadsFinished, main.stops <= Cardinality(Handlers),
           NEW r \in Requests
    PROVE  data[r].phase # "live"
<1> SUFFICES ASSUME data[r].phase = "live" PROVE FALSE
  OBVIOUS
<1>1. Flying(holds) = {} /\ ~Undecomposed(r) /\ r \notin ToRespond
  BY NothingFlies
<1>2. RequestInv(holds, data, r, Undecomposed(r), r \in ToRespond)
  BY DEF LineInv, UnitInv, RequestsInv
<1>3. data[r].pending = Cardinality(Unfinished(holds, data, r)) /\ data[r].pending # 0
  BY <1>1, <1>2 DEF RequestInv
<1>4. \A u \in UnitsOf(r) : u[2] \in data[r].results
  BY <1>1 DEF LineInv, LossInv, NoneLost
<1>5. Unfinished(holds, data, r) = {}
  BY <1>1, <1>4 DEF Unfinished
<1> QED
  BY <1>3, <1>5, FS_EmptySet

(* What the service's clients can see of a step.                           *)
LEMMA DataSteps ==
    ASSUME [Next]_vars
    PROVE  \/ UNCHANGED data
           \/ \E h \in Handlers, r \in Requests : HandlerAnswers(h, r) \/ HandlerCreates(h, r)
           \/ \E c \in Calculators : CalculatorProcesses(c)
           \/ \E k \in WorkerHandlers : WorkerHandlerReads(k)
           \/ AssemblerMarks \/ ResponderAnswers
<1>1. CASE MainSteps \/ HandleSignal \/ UNCHANGED vars \/ Finished
  BY <1>1 DEF MainSteps, MainAccepts, MainHands, MainFailsToAccept, MainStops, MainJoins,
     HandleSignal, vars, Finished
<1>2. CASE MasterSteps
  BY <1>2 DEF MasterSteps, MasterListens, MasterAdmits, MasterRejects, MasterHands,
     MasterFails, MasterStops, MasterEnds, MasterAccepts
<1>3. ASSUME NEW h \in Handlers, HandlerWorks(h) \/ HandlerLeaves(h) PROVE UNCHANGED data
  BY <1>3 DEF HandlerWorks, HandlerTakes, HandlerProduces, HandlerHalts, HandlerLeaves
<1>4. CASE DecomposerWorks
  BY <1>4 DEF DecomposerWorks, DecomposerTakes, DecomposerProduces, DecomposerHalts
<1>5. CASE DistributorWorks
  BY <1>5 DEF DistributorWorks, DistributorTakes, DistributorFindsNobody, DistributorChooses,
     DistributorSends, DistributorProduces, DistributorStopsWorkers, DistributorHalts
<1>6. CASE AssemblerWorks \/ ResponderWorks
  BY <1>6 DEF AssemblerWorks, AssemblerCountsStop, AssemblerProduces, AssemblerHalts,
     ResponderWorks, ResponderEnds
<1>7. ASSUME NEW c \in Calculators, CalculatorWorks(c)
      PROVE  UNCHANGED data \/ CalculatorProcesses(c)
  BY <1>7 DEF CalculatorWorks, CalculatorProduces, CalculatorHalts
<1>8. ASSUME NEW k \in WorkerHandlers, WorkerHandlerWorks(k)
      PROVE  UNCHANGED data \/ WorkerHandlerReads(k)
  BY <1>8 DEF WorkerHandlerWorks, WorkerHandlerTakes, WorkerHandlerProduces,
     WorkerHandlerDrops, WorkerHandlerHalts
<1>9. ASSUME NEW w \in Workers, WorkerWorks(w) \/ WorkerCrashes(w) PROVE UNCHANGED data
  BY <1>9 DEF WorkerWorks, WorkerCrashes, OnlyRemote
<1> QED
  BY <1>1, <1>2, <1>3, <1>4, <1>5, <1>6, <1>7, <1>8, <1>9 DEF Next

(* The service's state is that of its requests.                            *)
phases == [r \in Requests |-> data[r].phase]
computed == [r \in Requests |-> data[r].results]

LEMMA DataIs ==
    TypeInv => /\ DOMAIN data = Requests
               /\ \A r \in Requests :
                     data[r] \in [phase : {"unseen", "live", "answered"},
                                  pending : Nat, results : SUBSET Nat]
  BY DEF TypeInv, SharedInv, DataInv, DataType

(* A thread that has not ended keeps the process running.                  *)
LEMMA Runs ==
    ASSUME StopInv
    PROVE  /\ responder # "done" => main.at # "done"
           /\ \A h \in Handlers : handler[h].at # "done" => main.at # "done"
  BY DEF StopInv, CountsInv, ThreadsFinished

(* A handler accepts a request, or answers it at once.                     *)
LEMMA HandlerServes ==
    ASSUME LineInv, NEW h \in Handlers, NEW r \in Requests
    PROVE  /\ HandlerCreates(h, r) => Service!Accept(r)
           /\ HandlerAnswers(h, r) => Service!Answer(r)
<1>1. DOMAIN data = Requests /\ data[r] \in [phase : {"unseen", "live", "answered"},
                                             pending : Nat, results : SUBSET Nat]
  BY DataIs DEF LineInv
<1>2. ASSUME HandlerCreates(h, r) PROVE Service!Accept(r)
  <2>1. /\ data' = [data EXCEPT ![r] =
               [data[r] EXCEPT !.phase = "live", !.pending = Queries[r]]]
        /\ main.at # "done" /\ main' = main /\ data[r].phase = "unseen"
    BY <1>2, Runs DEF HandlerCreates, OnlyHandler, LineInv
  <2>2. /\ \A x \in Requests \ {r} : data'[x] = data[x]
        /\ data'[r].phase = "live" /\ data'[r].results = data[r].results
    BY <1>1, <2>1
  <2>3. phases' = [phases EXCEPT ![r] = "live"] /\ computed' = computed
    BY <2>2 DEF phases, computed
  <2> QED
    BY <2>1, <2>3 DEF Service!Accept, phases, computed
<1>3. ASSUME HandlerAnswers(h, r) PROVE Service!Answer(r)
  <2>1. /\ data' = [data EXCEPT ![r].phase = "answered"]
        /\ main.at # "done" /\ main' = main /\ data[r].phase = "unseen" /\ Queries[r] = 0
    BY <1>3, Runs DEF HandlerAnswers, OnlyHandler, LineInv
  <2>2. /\ \A x \in Requests \ {r} : data'[x] = data[x]
        /\ data'[r].phase = "answered" /\ data'[r].results = data[r].results
    BY <1>1, <2>1
  <2>3. phases' = [phases EXCEPT ![r] = "answered"] /\ computed' = computed
    BY <2>2 DEF phases, computed
  <2> QED
    BY <2>1, <2>3 DEF Service!Answer, phases, computed
<1> QED
  BY <1>2, <1>3

(* A result is stored, by whoever has it.                                  *)
LEMMA StoreServes ==
    ASSUME LineInv, NEW u \in Units, StoreResult(u), main' = main,
           NEW k \in Kinds, NEW o \in Owners[k], u \in holds[k][o], ~Computed(k, o)
    PROVE  \E r \in Requests : \E i \in 1 .. Queries[r] : Service!Compute(r, i)
<1> DEFINE r == u[1]
           i == u[2]
<1>1. r \in Requests /\ i \in 1 .. Queries[r] /\ u \in UnitsOf(r)
  BY DEF Units, UnitsOf
<1>2. DOMAIN data = Requests /\ data[r] \in [phase : {"unseen", "live", "answered"},
                                             pending : Nat, results : SUBSET Nat]
  BY <1>1, DataIs DEF LineInv
<1>3. data' = [data EXCEPT ![r].results = @ \cup {i}]
  BY DEF StoreResult
<1>4. /\ \A x \in Requests \ {r} : data'[x] = data[x]
      /\ data'[r].phase = data[r].phase /\ data'[r].results = data[r].results \cup {i}
  <2> HIDE DEF r, i
  <2>1. data' = [data EXCEPT ![r] = [data[r] EXCEPT !.results = data[r].results \cup {i}]]
    BY <1>3
  <2>2. data'[r] = [data[r] EXCEPT !.results = data[r].results \cup {i}]
    BY <1>1, <1>2, <2>1
  <2> QED
    BY <1>2, <2>1, <2>2
<1>5. i \notin data[r].results
  BY DEF LineInv, UnitInv, Stored
<1>6. data[r].phase = "live"
  <2>1. u \in Flying(holds)
    BY DEF Flying
  <2>2. RequestInv(holds, data, r, Undecomposed(r), r \in ToRespond)
    BY <1>1 DEF LineInv, UnitInv, RequestsInv
  <2> QED
    BY <1>1, <2>1, <2>2 DEF RequestInv
<1>7. phases' = phases /\ computed' = [computed EXCEPT ![r] = @ \cup {i}]
  BY <1>1, <1>4 DEF phases, computed
<1>8. Service!Compute(r, i)
  BY <1>1, <1>5, <1>6, <1>7 DEF Service!Compute, phases, computed
<1> QED
  BY <1>1, <1>8

LEMMA ResponderServes ==
    ASSUME LineInv, ResponderAnswers
    PROVE  \E r \in Requests : Service!Answer(r)
<1>1. PICK r \in Requests : Dequeue("responder", r)
                            /\ data' = [data EXCEPT ![r].phase = "answered"]
  BY DEF ResponderAnswers
<1>2. main.at # "done" /\ main' = main
  BY Runs DEF ResponderAnswers, OnlyResponder, LineInv
<1>3. r \in ToRespond
  <2>1. queue["responder"] \in Seq({Stop} \cup Requests) /\ Stop \notin Requests
    BY QueueTypes DEF LineInv, DataQueues
  <2>2. queue["responder"] # << >> /\ r = Head(queue["responder"])
    BY <1>1 DEF Dequeue
  <2>3. r \in Range(queue["responder"])
    BY <2>1, <2>2, TailRange
  <2> QED
    BY <2>1, <2>3 DEF ToRespond
<1>4. data[r].phase = "live" /\ data[r].results = 1 .. Queries[r]
  BY <1>3, ReadyRequest DEF LineInv, UnitInv
<1>5. DOMAIN data = Requests /\ data[r] \in [phase : {"unseen", "live", "answered"},
                                             pending : Nat, results : SUBSET Nat]
  BY DataIs DEF LineInv
<1>6. /\ \A x \in Requests \ {r} : data'[x] = data[x]
      /\ data'[r].phase = "answered" /\ data'[r].results = data[r].results
  BY <1>1, <1>5
<1>7. phases' = [phases EXCEPT ![r] = "answered"] /\ computed' = computed
  BY <1>6 DEF phases, computed
<1> QED
  BY <1>2, <1>4, <1>7 DEF Service!Answer, phases, computed

(* Every step of the line is one of the service, or none that its clients  *)
(* can see.                                                                *)
LEMMA ServiceStep ==
    ASSUME LineInv, ~Crashed, [Next]_vars
    PROVE  [Service!Next]_(Service!vars)
<1> DEFINE Seen == Service!Next \/ UNCHANGED Service!vars
<1>1. ASSUME main'.at = main.at, phases' = phases, computed' = computed PROVE Seen
  BY <1>1 DEF Service!vars, phases, computed
<1>2. ASSUME NEW h \in Handlers, NEW r \in Requests, HandlerAnswers(h, r) \/ HandlerCreates(h, r)
      PROVE  Seen
  BY <1>2, HandlerServes DEF Service!Next
<1>3. ASSUME NEW c \in Calculators, CalculatorProcesses(c) PROVE Seen
  <2>1. ASSUME NEW u \in Units, Dequeue("units", u), StoreResult(u) PROVE Seen
    <3>1. "units" \in UnitQueues /\ u # Stop /\ queue["units"] \in Seq({Stop} \cup Units)
      BY QueueTypes DEF LineInv, UnitQueues
    <3>2. queue["units"] # << >> /\ u = Head(queue["units"])
      BY <2>1 DEF Dequeue
    <3>3. u \in Range(queue["units"])
      BY <3>1, <3>2, TailRange
    <3>4. /\ "queue" \in Kinds /\ "units" \in Owners["queue"]
          /\ u \in holds["queue"]["units"] /\ ~Computed("queue", "units")
      BY <3>1, <3>3, HoldsAre, OwnersAre DEF Kinds, Computed
    <3>5. main' = main
      BY <1>3 DEF CalculatorProcesses, OnlyCalculator
    <3> QED
      BY <2>1, <3>4, <3>5, StoreServes DEF Service!Next
  <2>2. CASE UNCHANGED data
    BY <1>1, <1>3, <2>2 DEF CalculatorProcesses, OnlyCalculator, phases, computed
  <2> QED
    BY <1>3, <2>1, <2>2 DEF CalculatorProcesses
<1>4. ASSUME NEW k \in WorkerHandlers, WorkerHandlerReads(k) PROVE Seen
  <2> DEFINE w == workerHandler[k].worker
             s == remote[w].outbox
  <2>1. /\ w \in Workers /\ s # << >> /\ Head(s) # Stop /\ StoreResult(Head(s))
        /\ main' = main
    BY <1>4 DEF WorkerHandlerReads, OnlyWorkerHandler, LineInv, TypeInv, ThreadsInv,
       WorkerHandlerInv
  <2>2. s \in Seq(Units \cup {Stop})
    BY <2>1, RemoteTypes DEF LineInv
  <2>3. Head(s) \in Units /\ Head(s) \in Range(s)
    BY <2>1, <2>2, HeadTailProperties, TailRange
  <2>4. /\ "outbox" \in Kinds /\ w \in Owners["outbox"]
        /\ Head(s) \in holds["outbox"][w] /\ ~Computed("outbox", w)
    BY <2>1, <2>3, HoldsAre, OwnersAre DEF Kinds, Computed
  <2> QED
    BY <2>1, <2>3, <2>4, StoreServes DEF Service!Next
<1>5. CASE AssemblerMarks
  <2>1. PICK u \in Units : \E n : data' = [data EXCEPT ![u[1]].pending = n]
    BY <1>5 DEF AssemblerMarks
  <2>2. /\ DOMAIN data = Requests
        /\ \A r \in Requests : data[r] \in [phase : {"unseen", "live", "answered"},
                                            pending : Nat, results : SUBSET Nat]
    BY DataIs DEF LineInv
  <2>3. \A r \in Requests : data'[r].phase = data[r].phase /\ data'[r].results = data[r].results
    BY <2>1, <2>2
  <2>4. phases' = phases /\ computed' = computed
    BY <2>3 DEF phases, computed
  <2> QED
    BY <1>1, <1>5, <2>4 DEF AssemblerMarks, OnlyAssembler
<1>6. CASE ResponderAnswers
  BY <1>6, ResponderServes DEF Service!Next
<1>7. CASE UNCHANGED data
  <2>1. CASE main'.at = main.at \/ (main.at # "done" /\ main'.at # "done")
    BY <1>7, <2>1 DEF Service!vars
  <2>2. CASE MainJoins
    <3>1. ThreadsFinished /\ main.stops = Cardinality(Handlers) /\ main.at = "stopping"
      BY <2>2 DEF MainJoins
    <3>2. \A r \in Requests : data[r].phase # "live"
      BY <3>1, Sizes, NothingLive
    <3>3. main'.at = "done"
      BY <2>2 DEF MainJoins, LineInv, TypeInv, ThreadsInv, MainType
    <3>4. phases' = phases /\ computed' = computed
      BY <1>7 DEF phases, computed
    <3>5. Service!End
      BY <3>1, <3>2, <3>3, <3>4 DEF Service!End, phases, computed
    <3> QED
      BY <3>5 DEF Service!Next
  <2>3. MainSteps => MainJoins \/ (main.at # "done" /\ main'.at # "done")
    BY DEF MainSteps, MainAccepts, MainHands, MainFailsToAccept, MainStops, LineInv,
       TypeInv, ThreadsInv, MainType
  <2> QED
    BY <2>1, <2>2, <2>3, ThreadSteps
<1> QED
  BY <1>2, <1>3, <1>4, <1>5, <1>6, <1>7, DataSteps

LEMMA PoolInvHolds == Spec => []PoolInv
  BY PoolInit, PoolStep, LineInvariant, PTL DEF Spec

LEMMA LineInvHolds == Spec => []LineInv
  BY LineInvariant, PoolInvHolds, UnitInvariant, LossInvariant, StopInvariant,
     DrainInvariant, PTL DEF LineInv

(* As long as no worker crashes, the line is the service that its clients  *)
(* were promised: each request that a handler accepts is answered once,    *)
(* with the result of each of its queries, none of which is computed       *)
(* twice, and HttpServer::run() ends when none is left unanswered          *)
(* (HttpServer.hpp:171-172).                                               *)
THEOREM ServiceImplemented == Spec /\ []~Crashed => ImplementsService
<1>1. Init => Service!Init
  BY DEF Init, Service!Init
<1>2. LineInv /\ ~Crashed /\ [Next]_vars => [Service!Next]_(Service!vars)
  BY ServiceStep
<1> QED
  BY <1>1, <1>2, LineInvHolds, PTL DEF Spec, ImplementsService, Service!Spec

(* Only an unreliable worker crashes.                                      *)
LEMMA NoNewCrash ==
    ASSUME TypeInv, [Next]_vars, NEW w \in Workers, remote[w].state # "crashed",
           w \notin Unreliable
    PROVE  remote'[w].state # "crashed"
<1>1. /\ remote[w] \in Remote!RemoteWorker /\ DOMAIN remote = Workers
  BY RemoteTypes
<1>2. ASSUME NEW x \in Workers, MasterAccepts(x) PROVE remote'[w].state # "crashed"
  BY <1>1, <1>2 DEF MasterAccepts, Remote!Connect, Remote!RemoteWorker
<1>3. ASSUME NEW x \in Workers, WorkerWorks(x) PROVE remote'[w].state # "crashed"
  <2>1. CASE x # w
    <3>1. remote'[w] = remote[w]
      BY <1>1, <1>3, <2>1 DEF WorkerWorks, Remote!Works, Remote!TakeUnit, Remote!TakeStop,
         Remote!Leave, Remote!Answer
    <3> QED
      BY <3>1
  <2>2. CASE x = w
    <3>1. CASE Remote!TakeUnit(w)
      BY <1>1, <3>1 DEF Remote!TakeUnit, Remote!RemoteWorker
    <3>2. CASE Remote!TakeStop(w)
      BY <1>1, <3>2 DEF Remote!TakeStop, Remote!RemoteWorker
    <3>3. CASE Remote!Leave(w)
      BY <1>1, <3>3 DEF Remote!Leave, Remote!RemoteWorker
    <3>4. ASSUME NEW u \in Units, Remote!Answer(w, u) PROVE remote'[w].state # "crashed"
      BY <1>1, <3>4 DEF Remote!Answer, Remote!RemoteWorker
    <3> QED
      BY <1>3, <2>2, <3>1, <3>2, <3>3, <3>4 DEF WorkerWorks, Remote!Works
  <2> QED
    BY <2>1, <2>2
<1>4. ASSUME NEW x \in Workers, WorkerCrashes(x) PROVE remote'[w].state # "crashed"
  BY <1>1, <1>4 DEF WorkerCrashes, Remote!Crash
<1>5. CASE DistributorSends \/ DistributorStopsWorkers
  <2>1. remote'[w] = remote[w] \/ \E q : remote'[w] = [remote[w] EXCEPT !.inbox = q]
    BY <1>5 DEF DistributorSends, DistributorStopsWorkers, Remote!Send
  <2> QED
    BY <1>1, <2>1 DEF Remote!RemoteWorker
<1>6. ASSUME NEW k \in WorkerHandlers, WorkerHandlerReads(k) \/ WorkerHandlerDrops(k)
      PROVE  remote'[w].state # "crashed"
  <2>1. UNCHANGED remote \/ \E x : remote' = [remote EXCEPT ![x].outbox = Tail(@)]
    BY <1>6 DEF WorkerHandlerReads, WorkerHandlerDrops, Remote!Receive
  <2>2. ASSUME NEW x, remote' = [remote EXCEPT ![x].outbox = Tail(@)]
        PROVE  remote'[w].state # "crashed"
    BY <1>1, <2>2 DEF Remote!RemoteWorker
  <2> QED
    BY <2>1, <2>2
<1> QED
  BY <1>2, <1>3, <1>4, <1>5, <1>6, RemoteSteps

(* So it always is when every worker is reliable.                          *)
THEOREM ReliableService ==
    ASSUME Unreliable = {}
    PROVE  Spec => ImplementsService
<1>1. Init => ~Crashed
  BY DEF Init, Remote!RemoteInit, Crashed
<1>2. TypeInv /\ ~Crashed /\ [Next]_vars => ~Crashed'
  <2> SUFFICES ASSUME TypeInv, ~Crashed, [Next]_vars, NEW w \in Workers
               PROVE  remote'[w].state # "crashed"
    BY DEF Crashed
  <2>1. remote[w].state # "crashed"
    BY DEF Crashed
  <2> QED
    BY <2>1, NoNewCrash
<1> QED
  BY <1>1, <1>2, LineInvariant, ServiceImplemented, PTL DEF Spec

(* The requests that are pending when the process is told to stop are      *)
(* allowed to finish (HttpServer.hpp:171-172), unless a worker crashes.    *)
THEOREM PendingFinish == Spec /\ []~Crashed => []PendingRequestsFinish
<1>1. LineInv /\ ~Crashed => PendingRequestsFinish
  <2> SUFFICES ASSUME LineInv, ~Crashed, main.at = "done", NEW r \in Requests
               PROVE  data[r].phase # "live"
    BY DEF PendingRequestsFinish
  <2>1. ThreadsFinished /\ main.stops = Cardinality(Handlers)
    BY DEF LineInv, StopInv, CountsInv
  <2> QED
    BY <2>1, Sizes, NothingLive
<1> QED
  BY <1>1, LineInvHolds, PTL

====
