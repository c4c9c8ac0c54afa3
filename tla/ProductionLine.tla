---- MODULE ProductionLine ----
(***************************************************************************)
(* The master process of the web server: the threads that HttpServer       *)
(* creates, the queues that it connects them by, and the worker processes  *)
(* that MasterServer accepts.                                              *)
(*                                                                         *)
(*   main -sockets-> handlers -decomposer-> Decomposer -distributor->      *)
(*   Distributor -units-> calculators -assembler-> ResponseAssembler       *)
(*   -responder-> ClientResponder                                          *)
(*                                                                         *)
(*   Distributor -TCP-> workers -TCP-> worker handlers -assembler->        *)
(*   MasterServer -workers-> worker handlers                               *)
(*                                                                         *)
(* enqueue() and dequeue() are atomic here: BoundedQueue implements the    *)
(* FifoChannel whose operations are.  A thread's dequeue() and what it     *)
(* then does to state that only it can reach are one action; each step     *)
(* that may block, or that another thread can see, is an action of its own.*)
(***************************************************************************)
EXTENDS Naturals, Sequences, FiniteSets, Functions

CONSTANTS
    Handlers,         \* HttpConnectionHandler threads, maxConnections of them
    Calculators,      \* Calculator threads
    WorkerHandlers,   \* WorkerConnectionHandler threads, maxWorkerConnections
    Workers,          \* worker processes that may connect
    Unreliable,       \* those that may crash
    Requests,         \* the HTTP requests that clients may send
    Queries,          \* how many valid numbers each request asks about
    QueueCapacity,    \* queuesCapacity
    ConnectionsLimit, \* bound: client connections in a behaviour
    Client,           \* a client's connection; which one does not matter
    Stop,             \* the stop condition: nullptr, Socket(), the line "-1"
    Nothing           \* a local variable that holds no element

(* A data unit is identified by its ConcurrentData and its resultIndex: it *)
(* is what the pointer and the index that travel to a worker and back say. *)
UnitsOf(r) == {r} \X (1 .. Queries[r])
Units == UNION {UnitsOf(r) : r \in Requests}

ASSUME LineAssumption ==
    /\ IsFiniteSet(Handlers) /\ Handlers # {}
    /\ IsFiniteSet(Calculators) /\ Calculators # {}
    /\ IsFiniteSet(WorkerHandlers)
    /\ IsFiniteSet(Requests)
    /\ Queries \in [Requests -> Nat]
    /\ QueueCapacity \in Nat
    /\ ConnectionsLimit \in Nat
    /\ Stop \notin Requests \cup Units \cup Workers \cup {Client}
    /\ Nothing \notin Requests \cup Units \cup Workers

VARIABLES
    main,          \* HttpServer::run(), its accepted connections and stops sent
    listening,     \* the two connection request sockets
    master,        \* MasterServer
    handler,       \* each HttpConnectionHandler
    decomposer,    \* Decomposer, with the units that it has yet to produce
    distributor,   \* Distributor
    calculator,    \* each Calculator
    workerHandler, \* each WorkerConnectionHandler
    assembler,     \* ResponseAssembler
    responder,     \* ClientResponder
    data,          \* the ConcurrentData of each request
    queue,         \* the content of each queue
    pool,          \* WorkerConnections::connections
    remote         \* the worker processes and the connections to them

threads == <<main, master, handler, decomposer, distributor, calculator,
             workerHandler, assembler, responder>>
vars == <<threads, listening, data, queue, pool, remote>>

Remote == INSTANCE RemoteCalculator

----
(* The queues: who holds what, and how many elements fit.                  *)

QueueNames ==
    {"sockets", "decomposer", "distributor", "units", "workers", "assembler", "responder"}
UnitQueues == {"distributor", "units", "assembler"}
DataQueues == {"decomposer", "responder"}

ElementsOf(q) ==
    {Stop} \cup
    CASE q = "sockets" -> {Client}
      [] q = "workers" -> Workers
      [] q \in DataQueues -> Requests
      [] q \in UnitQueues -> Units

Capacity(q) == IF q = "workers" THEN Cardinality(WorkerHandlers) ELSE QueueCapacity

(* Faulty variant: the queue grows beyond its capacity.                    *)
EnqueueUnbounded(q, e) == queue' = [queue EXCEPT ![q] = Append(@, e)]

Enqueue(q, e) ==
    /\ Len(queue[q]) < Capacity(q)
    /\ queue' = [queue EXCEPT ![q] = Append(@, e)]

Dequeue(q, e) ==
    /\ queue[q] # << >>
    /\ e = Head(queue[q])
    /\ queue' = [queue EXCEPT ![q] = Tail(@)]

----
(* The types of the state, and the bound of each queue.                    *)
MainType ==
    main \in [at : {"accepting", "handing", "stopping", "done"},
              accepted : 0 .. ConnectionsLimit, stops : 0 .. Cardinality(Handlers)]

ListeningType ==
    listening \in [clients : {"open", "shut"}, workers : {"unopened", "open", "shut"}]

MasterType ==
    master \in [at : {"starting", "accepting", "admitting", "handing", "stopping", "done"},
                peer : Workers \cup {Nothing}, stops : 0 .. Cardinality(WorkerHandlers)]

HandlerType ==
    handler \in [Handlers -> [at : {"take", "serve", "produce", "halt", "done"},
                              data : Requests \cup {Nothing}]]

DecomposerType ==
    decomposer \in [at : {"take", "produce", "halt", "done"},
                    units : Seq(Units), stops : 0 .. Cardinality(Handlers)]

DistributorType ==
    distributor \in
        [at : {"take", "choose", "send", "produce", "stopWorkers", "halt", "done"},
         unit : Units \cup {Nothing}, worker : Workers \cup {Nothing},
         stops : 0 .. Cardinality(Calculators)]

CalculatorType ==
    calculator \in [Calculators -> [at : {"take", "produce", "halt", "done"},
                                    unit : Units \cup {Nothing}]]

WorkerHandlerType ==
    workerHandler \in
        [WorkerHandlers -> [at : {"take", "read", "produce", "halt", "done"},
                            worker : Workers \cup {Nothing}, unit : Units \cup {Nothing}]]

StopsToAssemble == Cardinality(Calculators) + Cardinality(WorkerHandlers)

AssemblerType ==
    assembler \in [at : {"take", "produce", "halt", "done"},
                   unit : Units \cup {Nothing}, stops : 0 .. StopsToAssemble]

ResponderType == responder \in {"take", "done"}

DataType ==
    data \in [Requests -> [phase : {"unseen", "live", "answered"},
                           pending : Nat, results : SUBSET Nat]]

QueueType ==
    /\ DOMAIN queue = QueueNames
    /\ \A q \in QueueNames :
          queue[q] \in Seq(ElementsOf(q)) /\ Len(queue[q]) <= Capacity(q)

TypeOK ==
    /\ MainType /\ ListeningType /\ MasterType /\ HandlerType /\ DecomposerType
    /\ DistributorType /\ CalculatorType /\ WorkerHandlerType /\ AssemblerType
    /\ ResponderType /\ DataType /\ QueueType
    /\ pool \subseteq Workers
    /\ Remote!RemoteType

----
(* A step of one thread leaves the position of the others alone.           *)
OnlyMain ==
    UNCHANGED <<master, handler, decomposer, distributor, calculator,
                workerHandler, assembler, responder>>
OnlyMaster ==
    UNCHANGED <<main, handler, decomposer, distributor, calculator,
                workerHandler, assembler, responder>>
OnlyHandler ==
    UNCHANGED <<main, master, decomposer, distributor, calculator,
                workerHandler, assembler, responder>>
OnlyDecomposer ==
    UNCHANGED <<main, master, handler, distributor, calculator,
                workerHandler, assembler, responder>>
OnlyDistributor ==
    UNCHANGED <<main, master, handler, decomposer, calculator,
                workerHandler, assembler, responder>>
OnlyCalculator ==
    UNCHANGED <<main, master, handler, decomposer, distributor,
                workerHandler, assembler, responder>>
OnlyWorkerHandler ==
    UNCHANGED <<main, master, handler, decomposer, distributor,
                calculator, assembler, responder>>
OnlyAssembler ==
    UNCHANGED <<main, master, handler, decomposer, distributor,
                calculator, workerHandler, responder>>
OnlyResponder ==
    UNCHANGED <<main, master, handler, decomposer, distributor,
                calculator, workerHandler, assembler>>

----
(* The threads have been started, and the main thread is accepting.        *)
Init ==
    /\ main = [at |-> "accepting", accepted |-> 0, stops |-> 0]
    /\ listening = [clients |-> "open", workers |-> "unopened"]
    /\ master = [at |-> "starting", peer |-> Nothing, stops |-> 0]
    /\ handler = [h \in Handlers |-> [at |-> "take", data |-> Nothing]]
    /\ decomposer = [at |-> "take", units |-> << >>, stops |-> 0]
    /\ distributor = [at |-> "take", unit |-> Nothing, worker |-> Nothing, stops |-> 0]
    /\ calculator = [c \in Calculators |-> [at |-> "take", unit |-> Nothing]]
    /\ workerHandler = [k \in WorkerHandlers |->
                           [at |-> "take", worker |-> Nothing, unit |-> Nothing]]
    /\ assembler = [at |-> "take", unit |-> Nothing, stops |-> 0]
    /\ responder = "take"
    /\ data = [r \in Requests |-> [phase |-> "unseen", pending |-> 0, results |-> {}]]
    /\ queue = [q \in QueueNames |-> << >>]
    /\ pool = {}
    /\ Remote!RemoteInit

----
(* The main thread: acceptAllConnections(), then joinThreads().            *)

MainAccepts ==
    /\ main.at = "accepting"
    /\ listening.clients = "open"
    /\ main.accepted < ConnectionsLimit
    /\ main' = [main EXCEPT !.at = "handing", !.accepted = @ + 1]
    /\ OnlyMain /\ UNCHANGED <<listening, data, queue, pool, remote>>

MainHands ==
    /\ main.at = "handing"
    /\ Enqueue("sockets", Client)
    /\ main' = [main EXCEPT !.at = "accepting"]
    /\ OnlyMain /\ UNCHANGED <<listening, data, pool, remote>>

(* accept() fails: because the socket was shut, or for a passing reason,   *)
(* as too many open files; acceptConnectionRequest() throws for both.      *)
MainFailsToAccept ==
    /\ main.at = "accepting"
    /\ main' = [main EXCEPT !.at = "stopping"]
    /\ OnlyMain /\ UNCHANGED <<listening, data, queue, pool, remote>>

MainStops ==
    /\ main.at = "stopping"
    /\ main.stops < Cardinality(Handlers)
    /\ Enqueue("sockets", Stop)
    /\ main' = [main EXCEPT !.stops = @ + 1]
    /\ OnlyMain /\ UNCHANGED <<listening, data, pool, remote>>

ThreadsFinished ==
    /\ \A h \in Handlers : handler[h].at = "done"
    /\ decomposer.at = "done" /\ distributor.at = "done"
    /\ \A c \in Calculators : calculator[c].at = "done"
    /\ master.at = "done"
    /\ \A k \in WorkerHandlers : workerHandler[k].at = "done"
    /\ assembler.at = "done" /\ responder = "done"

MainJoins ==
    /\ main.at = "stopping"
    /\ main.stops = Cardinality(Handlers)
    /\ ThreadsFinished
    /\ main' = [main EXCEPT !.at = "done"]
    /\ OnlyMain /\ UNCHANGED <<listening, data, queue, pool, remote>>

(* SIGINT or SIGTERM, at any time and again.  stopListening() does nothing *)
(* to a socket that has not been opened, and no more to one that was shut. *)
HandleSignal ==
    /\ main.at # "done"
    /\ "open" \in {listening.clients, listening.workers}
    /\ listening' = [clients |-> "shut",
                     workers |-> IF listening.workers = "open" THEN "shut"
                                 ELSE listening.workers]
    /\ UNCHANGED <<threads, data, queue, pool, remote>>

----
(* MasterServer.                                                           *)

MasterListens ==
    /\ master.at = "starting"
    /\ master' = [master EXCEPT !.at = "accepting"]
    /\ listening' = [listening EXCEPT !.workers = "open"]
    /\ OnlyMaster /\ UNCHANGED <<data, queue, pool, remote>>

(* accept() of a worker's connection, whose password is still to be read.  *)
MasterAccepts(w) ==
    /\ master.at = "accepting"
    /\ listening.workers = "open"
    /\ Remote!Connect(w)
    /\ master' = [master EXCEPT !.at = "admitting", !.peer = w]
    /\ OnlyMaster /\ UNCHANGED <<listening, data, queue, pool>>

(* Faulty variant: the connection is queued and not added to the pool.     *)
MasterAdmitsNobody ==
    /\ master.at = "admitting"
    /\ master' = [master EXCEPT !.at = "handing"]
    /\ OnlyMaster /\ UNCHANGED <<listening, data, queue, pool, remote>>

MasterAdmits ==
    /\ master.at = "admitting"
    /\ pool' = pool \cup {master.peer}
    /\ master' = [master EXCEPT !.at = "handing"]
    /\ OnlyMaster /\ UNCHANGED <<listening, data, queue, remote>>

(* The peer ended before its password arrived.                             *)
MasterRejects ==
    /\ master.at = "admitting"
    /\ ~Remote!Listens(master.peer)
    /\ master' = [master EXCEPT !.at = "accepting", !.peer = Nothing]
    /\ OnlyMaster /\ UNCHANGED <<listening, data, queue, pool, remote>>

MasterHands ==
    /\ master.at = "handing"
    /\ Enqueue("workers", master.peer)
    /\ master' = [master EXCEPT !.at = "accepting", !.peer = Nothing]
    /\ OnlyMaster /\ UNCHANGED <<listening, data, pool, remote>>

(* Faulty variant: the catch does not call stop().                         *)
MasterFailsWithoutStop ==
    /\ master.at \in {"starting", "accepting"}
    /\ master' = [master EXCEPT !.at = "done"]
    /\ OnlyMaster /\ UNCHANGED <<listening, data, queue, pool, remote>>

(* listenForConnections() or accept() throws, the latter as in main.       *)
MasterFails ==
    /\ master.at \in {"starting", "accepting"}
    /\ master' = [master EXCEPT !.at = "stopping"]
    /\ OnlyMaster /\ UNCHANGED <<listening, data, queue, pool, remote>>

(* stop(), called in the thread's own catch.                               *)
MasterStops ==
    /\ master.at = "stopping"
    /\ master.stops < Cardinality(WorkerHandlers)
    /\ Enqueue("workers", Stop)
    /\ master' = [master EXCEPT !.stops = @ + 1]
    /\ OnlyMaster /\ UNCHANGED <<listening, data, pool, remote>>

MasterEnds ==
    /\ master.at = "stopping"
    /\ master.stops = Cardinality(WorkerHandlers)
    /\ master' = [master EXCEPT !.at = "done"]
    /\ OnlyMaster /\ UNCHANGED <<listening, data, queue, pool, remote>>

----
(* HttpConnectionHandler.                                                  *)

HandlerTakes(h) ==
    /\ handler[h].at = "take"
    /\ \E e \in {Client, Stop} :
          /\ Dequeue("sockets", e)
          /\ handler' = [handler EXCEPT ![h].at = IF e = Stop THEN "halt" ELSE "serve"]
    /\ OnlyHandler /\ UNCHANGED <<listening, data, pool, remote>>

(* An application that answers at once: the home page, "not found", or a   *)
(* calculation that was asked about no valid number.                       *)
HandlerAnswers(h, r) ==
    /\ handler[h].at = "serve"
    /\ data[r].phase = "unseen" /\ Queries[r] = 0
    /\ data' = [data EXCEPT ![r].phase = "answered"]
    /\ OnlyHandler /\ UNCHANGED <<handler, listening, queue, pool, remote>>

(* route() of a calculation: createConcurrentData(), with updatePending(). *)
HandlerCreates(h, r) ==
    /\ handler[h].at = "serve"
    /\ data[r].phase = "unseen" /\ Queries[r] > 0
    /\ data' = [data EXCEPT ![r] =
           [data[r] EXCEPT !.phase = "live", !.pending = Queries[r]]]
    /\ handler' = [handler EXCEPT ![h] = [at |-> "produce", data |-> r]]
    /\ OnlyHandler /\ UNCHANGED <<listening, queue, pool, remote>>

HandlerProduces(h) ==
    /\ handler[h].at = "produce"
    /\ Enqueue("decomposer", handler[h].data)
    /\ handler' = [handler EXCEPT ![h] = [at |-> "serve", data |-> Nothing]]
    /\ OnlyHandler /\ UNCHANGED <<listening, data, pool, remote>>

(* The client sends no more requests, or an invalid one, or used HTTP/1.0. *)
HandlerLeaves(h) ==
    /\ handler[h].at = "serve"
    /\ handler' = [handler EXCEPT ![h].at = "take"]
    /\ OnlyHandler /\ UNCHANGED <<listening, data, queue, pool, remote>>

HandlerHalts(h) ==
    /\ handler[h].at = "halt"
    /\ Enqueue("decomposer", Stop)
    /\ handler' = [handler EXCEPT ![h].at = "done"]
    /\ OnlyHandler /\ UNCHANGED <<listening, data, pool, remote>>

----
(* Decomposer.  decompose() makes all of the units of a request, as many   *)
(* as are pending, before the first is produced.                           *)

(* Faulty variant: an off-by-one in decompose().                           *)
DecomposeAllButOne(r) == [i \in 1 .. data[r].pending - 1 |-> <<r, i>>]

Decompose(r) == [i \in 1 .. data[r].pending |-> <<r, i>>]

(* Faulty variant: the first stop condition ends the thread.               *)
DecomposerHeedsFirstStop ==
    /\ decomposer.at = "take"
    /\ \/ \E r \in Requests :
             /\ Dequeue("decomposer", r)
             /\ decomposer' = [decomposer EXCEPT !.at = "produce", !.units = Decompose(r)]
       \/ /\ Dequeue("decomposer", Stop)
          /\ decomposer' = [decomposer EXCEPT !.at = "halt"]
    /\ OnlyDecomposer /\ UNCHANGED <<listening, data, pool, remote>>

DecomposerTakes ==
    /\ decomposer.at = "take"
    /\ \/ \E r \in Requests :
             /\ Dequeue("decomposer", r)
             /\ decomposer' = [decomposer EXCEPT !.at = "produce", !.units = Decompose(r)]
       \/ /\ Dequeue("decomposer", Stop)
          /\ decomposer' = [decomposer EXCEPT
                !.stops = @ + 1,
                !.at = IF decomposer.stops + 1 = Cardinality(Handlers) THEN "halt" ELSE "take"]
    /\ OnlyDecomposer /\ UNCHANGED <<listening, data, pool, remote>>

DecomposerProduces ==
    /\ decomposer.at = "produce"
    /\ decomposer.units # << >>
    /\ Enqueue("distributor", Head(decomposer.units))
    /\ decomposer' = [decomposer EXCEPT
          !.units = Tail(@),
          !.at = IF Len(decomposer.units) = 1 THEN "take" ELSE "produce"]
    /\ OnlyDecomposer /\ UNCHANGED <<listening, data, pool, remote>>

DecomposerHalts ==
    /\ decomposer.at = "halt"
    /\ Enqueue("distributor", Stop)
    /\ decomposer' = [decomposer EXCEPT !.at = "done"]
    /\ OnlyDecomposer /\ UNCHANGED <<listening, data, pool, remote>>

----
(* Distributor.                                                            *)

DistributorTakes ==
    /\ distributor.at = "take"
    /\ \/ \E u \in Units :
             /\ Dequeue("distributor", u)
             /\ distributor' = [distributor EXCEPT !.at = "choose", !.unit = u]
       \/ /\ Dequeue("distributor", Stop)
          /\ distributor' = [distributor EXCEPT !.at = "stopWorkers"]
    /\ OnlyDistributor /\ UNCHANGED <<listening, data, pool, remote>>

(* getRandomWorkerConnection() throws when the pool is empty.              *)
DistributorFindsNobody ==
    /\ distributor.at = "choose"
    /\ pool = {}
    /\ distributor' = [distributor EXCEPT !.at = "produce"]
    /\ OnlyDistributor /\ UNCHANGED <<listening, data, queue, pool, remote>>

DistributorChooses(w) ==
    /\ distributor.at = "choose"
    /\ w \in pool
    /\ distributor' = [distributor EXCEPT !.at = "send", !.worker = w]
    /\ OnlyDistributor /\ UNCHANGED <<listening, data, queue, pool, remote>>

(* Faulty variant: the unit is sent, and produced for the calculators too. *)
DistributorSendsAndProduces ==
    /\ distributor.at = "send"
    /\ Remote!Send({distributor.worker}, distributor.unit)
    /\ distributor' = [distributor EXCEPT !.at = "produce", !.worker = Nothing]
    /\ OnlyDistributor /\ UNCHANGED <<listening, data, queue, pool>>

(* The worker that was chosen may be out of the pool by now.  send() is    *)
(* taken to have sent whatever it returns, and the unit is deleted.        *)
DistributorSends ==
    /\ distributor.at = "send"
    /\ Remote!Send({distributor.worker}, distributor.unit)
    /\ distributor' = [distributor EXCEPT
          !.at = "take", !.worker = Nothing, !.unit = Nothing]
    /\ OnlyDistributor /\ UNCHANGED <<listening, data, queue, pool>>

DistributorProduces ==
    /\ distributor.at = "produce"
    /\ Enqueue("units", distributor.unit)
    /\ distributor' = [distributor EXCEPT !.at = "take", !.unit = Nothing]
    /\ OnlyDistributor /\ UNCHANGED <<listening, data, pool, remote>>

(* stopWorkers() holds the pool's mutex while it sends to each worker.     *)
DistributorStopsWorkers ==
    /\ distributor.at = "stopWorkers"
    /\ Remote!Send(pool, Stop)
    /\ distributor' = [distributor EXCEPT !.at = "halt"]
    /\ OnlyDistributor /\ UNCHANGED <<listening, data, queue, pool>>

DistributorHalts ==
    /\ distributor.at = "halt"
    /\ Enqueue("units", Stop)
    /\ distributor' = [distributor EXCEPT
          !.stops = @ + 1,
          !.at = IF distributor.stops + 1 = Cardinality(Calculators) THEN "done" ELSE "halt"]
    /\ OnlyDistributor /\ UNCHANGED <<listening, data, pool, remote>>

----
(* Calculator.                                                             *)

(* Faulty variant: the result is not stored.                               *)
StoreNothing(u) == UNCHANGED data

(* processQuery() and deserializeResult() store into the request's results.*)
StoreResult(u) == data' = [data EXCEPT ![u[1]].results = @ \cup {u[2]}]

CalculatorProcesses(c) ==
    /\ calculator[c].at = "take"
    /\ \/ \E u \in Units :
             /\ Dequeue("units", u)
             /\ StoreResult(u)
             /\ calculator' = [calculator EXCEPT ![c] = [at |-> "produce", unit |-> u]]
       \/ /\ Dequeue("units", Stop)
          /\ calculator' = [calculator EXCEPT ![c].at = "halt"]
          /\ UNCHANGED data
    /\ OnlyCalculator /\ UNCHANGED <<listening, pool, remote>>

CalculatorProduces(c) ==
    /\ calculator[c].at = "produce"
    /\ Enqueue("assembler", calculator[c].unit)
    /\ calculator' = [calculator EXCEPT ![c] = [at |-> "take", unit |-> Nothing]]
    /\ OnlyCalculator /\ UNCHANGED <<listening, data, pool, remote>>

CalculatorHalts(c) ==
    /\ calculator[c].at = "halt"
    /\ Enqueue("assembler", Stop)
    /\ calculator' = [calculator EXCEPT ![c].at = "done"]
    /\ OnlyCalculator /\ UNCHANGED <<listening, data, pool, remote>>

----
(* WorkerConnectionHandler.                                                *)

WorkerHandlerTakes(k) ==
    /\ workerHandler[k].at = "take"
    /\ \/ \E w \in Workers :
             /\ Dequeue("workers", w)
             /\ workerHandler' = [workerHandler EXCEPT ![k] =
                    [workerHandler[k] EXCEPT !.at = "read", !.worker = w]]
       \/ /\ Dequeue("workers", Stop)
          /\ workerHandler' = [workerHandler EXCEPT ![k].at = "halt"]
    /\ OnlyWorkerHandler /\ UNCHANGED <<listening, data, pool, remote>>

(* route() of an answer: the result is stored where the pointer says, and  *)
(* a new DataUnit stands for the one that the Distributor deleted.         *)
WorkerHandlerReads(k) ==
    LET w == workerHandler[k].worker
        answer == Head(remote[w].outbox)
    IN  /\ workerHandler[k].at = "read"
        /\ remote[w].outbox # << >>
        /\ answer # Stop
        /\ Remote!Receive(w)
        /\ StoreResult(answer)
        /\ workerHandler' = [workerHandler EXCEPT ![k] =
               [workerHandler[k] EXCEPT !.at = "produce", !.unit = answer]]
        /\ OnlyWorkerHandler /\ UNCHANGED <<listening, queue, pool>>

WorkerHandlerProduces(k) ==
    /\ workerHandler[k].at = "produce"
    /\ Enqueue("assembler", workerHandler[k].unit)
    /\ workerHandler' = [workerHandler EXCEPT ![k] =
           [workerHandler[k] EXCEPT !.at = "read", !.unit = Nothing]]
    /\ OnlyWorkerHandler /\ UNCHANGED <<listening, data, pool, remote>>

(* "-1", which is no application's index, or the end of the connection.    *)
WorkerHandlerDrops(k) ==
    LET w == workerHandler[k].worker
    IN  /\ workerHandler[k].at = "read"
        /\ \/ /\ remote[w].outbox # << >>
              /\ Head(remote[w].outbox) = Stop
              /\ Remote!Receive(w)
           \/ /\ remote[w].outbox = << >>
              /\ ~Remote!Listens(w)
              /\ UNCHANGED remote
        /\ pool' = pool \ {w}
        /\ workerHandler' = [workerHandler EXCEPT ![k] =
               [workerHandler[k] EXCEPT !.at = "take", !.worker = Nothing]]
        /\ OnlyWorkerHandler /\ UNCHANGED <<listening, data, queue>>

WorkerHandlerHalts(k) ==
    /\ workerHandler[k].at = "halt"
    /\ Enqueue("assembler", Stop)
    /\ workerHandler' = [workerHandler EXCEPT ![k].at = "done"]
    /\ OnlyWorkerHandler /\ UNCHANGED <<listening, data, pool, remote>>

----
(* ResponseAssembler and ClientResponder.                                  *)

(* Faulty variant: isReady() with one unit still pending.                  *)
ReadyTooEarly(pending) == pending <= 1

IsReady(pending) == pending = 0

(* markUnitReady() and isReady(); the unit is deleted once what it may     *)
(* have completed is produced.                                             *)
AssemblerMarks ==
    /\ assembler.at = "take"
    /\ \E u \in Units :
          LET pending == IF data[u[1]].pending > 0 THEN data[u[1]].pending - 1 ELSE 0
          IN  /\ Dequeue("assembler", u)
              /\ data' = [data EXCEPT ![u[1]].pending = pending]
              /\ assembler' = IF IsReady(pending)
                              THEN [assembler EXCEPT !.at = "produce", !.unit = u]
                              ELSE assembler
    /\ OnlyAssembler /\ UNCHANGED <<listening, pool, remote>>

(* Faulty variant: only the calculators' stop conditions are waited for.   *)
AssemblerHeedsCalculators ==
    /\ assembler.at = "take"
    /\ Dequeue("assembler", Stop)
    /\ assembler' = [assembler EXCEPT
          !.stops = @ + 1,
          !.at = IF assembler.stops + 1 = Cardinality(Calculators) THEN "halt" ELSE "take"]
    /\ OnlyAssembler /\ UNCHANGED <<listening, data, pool, remote>>

AssemblerCountsStop ==
    /\ assembler.at = "take"
    /\ Dequeue("assembler", Stop)
    /\ assembler' = [assembler EXCEPT
          !.stops = @ + 1,
          !.at = IF assembler.stops + 1 = StopsToAssemble THEN "halt" ELSE "take"]
    /\ OnlyAssembler /\ UNCHANGED <<listening, data, pool, remote>>

AssemblerProduces ==
    /\ assembler.at = "produce"
    /\ Enqueue("responder", assembler.unit[1])
    /\ assembler' = [assembler EXCEPT !.at = "take", !.unit = Nothing]
    /\ OnlyAssembler /\ UNCHANGED <<listening, data, pool, remote>>

AssemblerHalts ==
    /\ assembler.at = "halt"
    /\ Enqueue("responder", Stop)
    /\ assembler' = [assembler EXCEPT !.at = "done"]
    /\ OnlyAssembler /\ UNCHANGED <<listening, data, pool, remote>>

(* respond(), and the ConcurrentData is deleted.                           *)
ResponderAnswers ==
    /\ responder = "take"
    /\ \E r \in Requests :
          /\ Dequeue("responder", r)
          /\ data' = [data EXCEPT ![r].phase = "answered"]
    /\ OnlyResponder /\ UNCHANGED <<responder, listening, pool, remote>>

ResponderEnds ==
    /\ responder = "take"
    /\ Dequeue("responder", Stop)
    /\ responder' = "done"
    /\ OnlyResponder /\ UNCHANGED <<listening, data, pool, remote>>

----
MainSteps == MainAccepts \/ MainHands \/ MainFailsToAccept \/ MainStops \/ MainJoins

MasterSteps ==
    \/ MasterListens \/ MasterAdmits \/ MasterRejects \/ MasterHands
    \/ MasterFails \/ MasterStops \/ MasterEnds
    \/ \E w \in Workers : MasterAccepts(w)

HandlerWorks(h) == HandlerTakes(h) \/ HandlerProduces(h) \/ HandlerHalts(h)
DecomposerWorks == DecomposerTakes \/ DecomposerProduces \/ DecomposerHalts
DistributorWorks ==
    \/ DistributorTakes \/ DistributorFindsNobody \/ DistributorSends
    \/ DistributorProduces \/ DistributorStopsWorkers \/ DistributorHalts
    \/ \E w \in Workers : DistributorChooses(w)
CalculatorWorks(c) == CalculatorProcesses(c) \/ CalculatorProduces(c) \/ CalculatorHalts(c)
WorkerHandlerWorks(k) ==
    \/ WorkerHandlerTakes(k) \/ WorkerHandlerReads(k) \/ WorkerHandlerProduces(k)
    \/ WorkerHandlerDrops(k) \/ WorkerHandlerHalts(k)
AssemblerWorks ==
    AssemblerMarks \/ AssemblerCountsStop \/ AssemblerProduces \/ AssemblerHalts
ResponderWorks == ResponderAnswers \/ ResponderEnds

OnlyRemote == UNCHANGED <<threads, listening, data, queue, pool>>
WorkerWorks(w) == Remote!Works(w) /\ OnlyRemote
WorkerCrashes(w) == Remote!Crash(w) /\ OnlyRemote

(* The process has ended.                                                  *)
Finished == main.at = "done" /\ UNCHANGED vars

Next ==
    \/ MainSteps \/ HandleSignal \/ MasterSteps
    \/ \E h \in Handlers :
          \/ HandlerWorks(h) \/ HandlerLeaves(h)
          \/ \E r \in Requests : HandlerAnswers(h, r) \/ HandlerCreates(h, r)
    \/ DecomposerWorks \/ DistributorWorks \/ AssemblerWorks \/ ResponderWorks
    \/ \E c \in Calculators : CalculatorWorks(c)
    \/ \E k \in WorkerHandlers : WorkerHandlerWorks(k)
    \/ \E w \in Workers : WorkerWorks(w) \/ WorkerCrashes(w)
    \/ Finished

Spec == Init /\ [][Next]_vars

(* The operating system runs every thread that can run, TCP delivers, and  *)
(* a worker that does not crash computes what it was sent.  accept() fails *)
(* surely only on a socket that was shut.  Nobody has to send a request, a *)
(* signal, or to connect, and nothing has to fail.                         *)
FairThreads ==
    /\ WF_vars(MainHands \/ MainStops \/ MainJoins
                  \/ (listening.clients = "shut" /\ MainFailsToAccept))
    /\ WF_vars(MasterListens \/ MasterAdmits \/ MasterRejects \/ MasterHands
                  \/ MasterStops \/ MasterEnds
                  \/ (listening.workers = "shut" /\ MasterFails))
    /\ \A h \in Handlers : WF_vars(HandlerWorks(h))
    /\ WF_vars(DecomposerWorks)
    /\ WF_vars(DistributorWorks)
    /\ \A c \in Calculators : WF_vars(CalculatorWorks(c))
    /\ \A k \in WorkerHandlers : WF_vars(WorkerHandlerWorks(k))
    /\ WF_vars(AssemblerWorks)
    /\ WF_vars(ResponderWorks)
    /\ \A w \in Workers : WF_vars(WorkerWorks(w))

(* What the server does not control: no client keeps a connection open     *)
(* forever.  A handler reads from it until it does not, signal or not.     *)
ClientsLeave == \A h \in Handlers : WF_vars(HandlerLeaves(h))

FairSpec == Spec /\ FairThreads /\ ClientsLeave

----
(* Where each data unit is: the places that own a pointer to it, or its    *)
(* serialized form.                                                        *)
Positions(s, u) == {i \in DOMAIN s : s[i] = u}

Places(u) ==
    (UNION {{<<q, i>> : i \in Positions(queue[q], u)} : q \in UnitQueues})
    \cup {<<"decomposer", i>> : i \in Positions(decomposer.units, u)}
    \cup (IF distributor.unit = u THEN {<<"Distributor">>} ELSE {})
    \cup {<<"calculator", c>> : c \in {x \in Calculators : calculator[x].unit = u}}
    \cup {<<"workerHandler", k>> : k \in {x \in WorkerHandlers : workerHandler[x].unit = u}}
    \cup (UNION {{<<"inbox", w, i>> : i \in Positions(remote[w].inbox, u)} : w \in Workers})
    \cup {<<"held", w>> : w \in {x \in Workers : u \in remote[x].held}}
    \cup (UNION {{<<"outbox", w, i>> : i \in Positions(remote[w].outbox, u)} : w \in Workers})

InFlight(r) == {u \in UnitsOf(r) : Places(u) # {}}

(* The request is on its way to the Decomposer, still in one piece.        *)
Undecomposed(r) ==
    r \in {handler[h].data : h \in Handlers} \cup Range(queue["decomposer"])

(* A request that is about to be answered.                                 *)
ToRespond ==
    (Range(queue["responder"]) \ {Stop}) \cup
    (IF assembler.unit # Nothing THEN {assembler.unit[1]} ELSE {})

(* No unit is in two places: it would be deleted twice, computed twice,    *)
(* and the results of a query appended to each other.                      *)
NoUnitTwice == \A u \in Units : \A p1, p2 \in Places(u) : p1 = p2

(* No thread, queue, worker or connection keeps a pointer to a             *)
(* ConcurrentData that the ClientResponder has deleted; there is no        *)
(* reference count, only pendingQueries and the order of the line.         *)
NoDanglingPointer ==
    \A r \in Requests :
        data[r].phase # "live" =>
            ~Undecomposed(r) /\ InFlight(r) = {} /\ r \notin ToRespond

(* pendingQueries says how many units the ResponseAssembler has yet to     *)
(* see: those in flight and, when a worker crashed, those that are lost.   *)
PendingCountsUnits ==
    \A r \in Requests :
        data[r].phase = "live" =>
            IF Undecomposed(r) THEN data[r].pending = Queries[r] /\ InFlight(r) = {}
            ELSE IF \E w \in Workers : remote[w].state = "crashed"
                 THEN data[r].pending >= Cardinality(InFlight(r))
                 ELSE data[r].pending = Cardinality(InFlight(r))

(* A response is formatted from the results of every query, though they    *)
(* are stored by many threads and counted by another.                      *)
AnswersAreComplete == \A r \in ToRespond : data[r].results = 1 .. Queries[r]

(* A stop condition overtakes nothing: when a thread heeds its last one,   *)
(* there is nothing left in its queue that someone has to process.         *)
StopsOvertakeNothing ==
    /\ decomposer.at \in {"halt", "done"} => queue["decomposer"] = << >>
    /\ distributor.at \in {"stopWorkers", "halt", "done"} => queue["distributor"] = << >>
    /\ (\E c \in Calculators : calculator[c].at \in {"halt", "done"}) =>
          Range(queue["units"]) \subseteq {Stop}
    /\ (\E k \in WorkerHandlers : workerHandler[k].at \in {"halt", "done"}) =>
          Range(queue["workers"]) \subseteq {Stop}
    /\ assembler.at \in {"halt", "done"} => Range(queue["assembler"]) = {}
    /\ responder = "done" => queue["responder"] = << >>
    /\ main.at = "done" => \A q \in QueueNames : queue[q] = << >>

(* The pool holds every connection that is queued for a worker handler or  *)
(* served by one: removeSocket() erases what it does not find at end().    *)
ServedWorkersArePooled ==
    /\ {workerHandler[k].worker : k \in WorkerHandlers} \ {Nothing} \subseteq pool
    /\ Range(queue["workers"]) \ {Stop} \subseteq pool
    /\ master.at = "handing" => master.peer \in pool

(* The line does what it promises its clients.                             *)
Service == INSTANCE RequestService WITH
    phase <- [r \in Requests |-> data[r].phase],
    results <- [r \in Requests |-> data[r].results],
    running <- main.at # "done"

ImplementsService == Service!Spec

(* Every request that was accepted is answered, whether or not a signal    *)
(* arrives meanwhile, as long as no worker crashes and as there are not    *)
(* more workers than handlers for them.                                    *)
EveryRequestAnswered ==
    \A r \in Requests :
        data[r].phase = "live" ~>
            (data[r].phase = "answered" \/ \E w \in Workers : remote[w].state = "crashed")

(* "pending HTTP requests that are enqueued will be allowed to finish"     *)
(* (HttpServer.hpp:171-172): the process does not end before they have.    *)
PendingRequestsFinish ==
    main.at = "done" => \A r \in Requests : data[r].phase # "live"

(* A worker whose password arrived after the Distributor told the pool to  *)
(* stop: nobody will tell it, and its handler waits for it to leave.       *)
LateWorker ==
    \E w \in pool : distributor.at \in {"halt", "done"} /\ remote[w].state = "serving"
                    /\ remote[w].inbox = << >>

(* A signal that finds both sockets open ends the process, unless a worker *)
(* was admitted too late and does not leave of itself.                     *)
SignalEndsServer ==
    (listening.clients = "shut" /\ listening.workers = "shut")
        ~> (main.at = "done" \/ []LateWorker)

(* "Then, the main thread can continue stopping apps, finishing the server *)
(* and any further cleaning it requires" (HttpServer.cpp:89-90), whenever  *)
(* stopListening() is called.                                              *)
StopEndsServer == listening.clients = "shut" ~> main.at = "done"

====
