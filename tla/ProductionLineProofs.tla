---- MODULE ProductionLineProofs ----
(***************************************************************************)
(* What TLAPS proves of the line, for any number of threads, workers and   *)
(* requests, any capacity of the queues, and any worker that crashes.      *)
(*                                                                         *)
(*   Its types, and that WorkerConnections::removeSocket() finds what it   *)
(*   erases, because every connection that is queued for a                 *)
(*   WorkerConnectionHandler or served by one is in the pool.              *)
(*                                                                         *)
(*   Where each data unit is, and what pendingQueries counts: no unit is   *)
(*   in two places, no pointer to a deleted ConcurrentData is left         *)
(*   anywhere, and an answer has all of its results.                       *)
(***************************************************************************)
EXTENDS ProductionLine, StopLemmas, FiniteSetTheorems, SequenceTheorems, TLAPS

(* The state of each thread, of its type and more: a thread that is past   *)
(* its dequeue() holds what it took, so that what it produces is of the    *)
(* queue's type; and one that counts stop conditions ends its loop at the  *)
(* last, so that its count stays in range.  TypeOK is not inductive        *)
(* without the two.                                                        *)
MasterInv ==
    /\ MasterType
    /\ master.at \in {"admitting", "handing"} => master.peer \in Workers

HandlerInv ==
    /\ HandlerType
    /\ \A h \in Handlers : handler[h].at = "produce" => handler[h].data \in Requests

DecomposerInv ==
    /\ DecomposerType
    /\ decomposer.at \in {"take", "produce"} => decomposer.stops < Cardinality(Handlers)

DistributorInv ==
    /\ DistributorType
    /\ distributor.at \in {"choose", "send", "produce"} => distributor.unit \in Units
    /\ distributor.at = "send" => distributor.worker \in Workers
    /\ distributor.at # "done" => distributor.stops < Cardinality(Calculators)

CalculatorInv ==
    /\ CalculatorType
    /\ \A c \in Calculators : calculator[c].at = "produce" => calculator[c].unit \in Units

WorkerHandlerInv ==
    /\ WorkerHandlerType
    /\ \A k \in WorkerHandlers :
          /\ workerHandler[k].at \in {"read", "produce"} => workerHandler[k].worker \in Workers
          /\ workerHandler[k].at = "produce" => workerHandler[k].unit \in Units

AssemblerInv ==
    /\ AssemblerType
    /\ assembler.at = "produce" => assembler.unit \in Units
    /\ assembler.at \in {"take", "produce"} => assembler.stops < StopsToAssemble

ThreadsInv ==
    /\ MainType /\ MasterInv /\ HandlerInv /\ DecomposerInv /\ DistributorInv
    /\ CalculatorInv /\ WorkerHandlerInv /\ AssemblerInv /\ ResponderType

(* No more units are pending than decompose() made: it numbers them from    *)
(* pendingQueries, and the numbers have to be those of queries.            *)
DataInv ==
    /\ DataType
    /\ \A r \in Requests : data[r].pending <= Queries[r]

SharedInv ==
    /\ ListeningType /\ DataInv /\ QueueType /\ pool \subseteq Workers
    /\ Remote!RemoteType

TypeInv == ThreadsInv /\ SharedInv

----
LEMMA Sizes ==
    /\ Cardinality(Handlers) \in Nat /\ Cardinality(Handlers) > 0
    /\ Cardinality(Calculators) \in Nat /\ Cardinality(Calculators) > 0
    /\ Cardinality(WorkerHandlers) \in Nat
    /\ StopsToAssemble \in Nat /\ StopsToAssemble > 0
    /\ QueueCapacity \in Nat /\ ConnectionsLimit \in Nat
<1>1. Cardinality(Handlers) # 0 /\ Cardinality(Calculators) # 0
  BY LineAssumption, FS_EmptySet
<1>2. /\ Cardinality(Handlers) \in Nat /\ Cardinality(Calculators) \in Nat
      /\ Cardinality(WorkerHandlers) \in Nat
  BY LineAssumption, FS_CardinalityType
<1> QED
  BY <1>1, <1>2, LineAssumption DEF StopsToAssemble

(* What the elements of each queue are.                                    *)
LEMMA Elements ==
    /\ ElementsOf("sockets") = {Stop, Client}
    /\ ElementsOf("workers") = {Stop} \cup Workers
    /\ \A q \in DataQueues : ElementsOf(q) = {Stop} \cup Requests
    /\ \A q \in UnitQueues : ElementsOf(q) = {Stop} \cup Units
    /\ DataQueues \cup UnitQueues \cup {"sockets", "workers"} = QueueNames
  BY DEF ElementsOf, DataQueues, UnitQueues, QueueNames

LEMMA EnqueueType ==
    ASSUME QueueType, NEW q \in QueueNames, NEW e \in ElementsOf(q), Enqueue(q, e)
    PROVE  QueueType'
<1>1. queue' = [queue EXCEPT ![q] = Append(@, e)] /\ DOMAIN queue = QueueNames
  BY DEF Enqueue, QueueType
<1>2. ASSUME NEW x \in QueueNames
      PROVE  queue'[x] \in Seq(ElementsOf(x)) /\ Len(queue'[x]) <= Capacity(x)
  <2>1. queue[x] \in Seq(ElementsOf(x)) /\ Len(queue[x]) <= Capacity(x)
    BY DEF QueueType
  <2>2. CASE x # q
    BY <1>1, <2>1, <2>2
  <2>3. CASE x = q
    <3>1. queue'[q] = Append(queue[q], e) /\ Len(queue[q]) < Capacity(q)
      BY <1>1 DEF Enqueue
    <3>2. Capacity(q) \in Nat
      BY Sizes DEF Capacity
    <3> QED
      BY <2>1, <2>3, <3>1, <3>2
  <2> QED
    BY <2>2, <2>3
<1>3. DOMAIN queue' = QueueNames
  BY <1>1
<1> QED
  BY <1>2, <1>3 DEF QueueType, Capacity, ElementsOf

LEMMA DequeueType ==
    ASSUME QueueType, NEW q \in QueueNames, NEW e, Dequeue(q, e)
    PROVE  QueueType' /\ e \in ElementsOf(q)
<1>1. queue' = [queue EXCEPT ![q] = Tail(@)] /\ DOMAIN queue = QueueNames
  BY DEF Dequeue, QueueType
<1>2. /\ queue[q] \in Seq(ElementsOf(q)) /\ queue[q] # << >> /\ e = Head(queue[q])
      /\ Len(queue[q]) <= Capacity(q)
  BY DEF QueueType, Dequeue
<1>3. ASSUME NEW x \in QueueNames
      PROVE  queue'[x] \in Seq(ElementsOf(x)) /\ Len(queue'[x]) <= Capacity(x)
  <2>1. queue[x] \in Seq(ElementsOf(x)) /\ Len(queue[x]) <= Capacity(x)
    BY DEF QueueType
  <2>2. CASE x # q
    BY <1>1, <2>1, <2>2
  <2>3. CASE x = q
    <3>1. queue'[q] = Tail(queue[q])
      BY <1>1
    <3>2. Capacity(q) \in Nat
      BY Sizes DEF Capacity
    <3> QED
      BY <1>2, <2>3, <3>1, <3>2
  <2> QED
    BY <2>2, <2>3
<1>4. DOMAIN queue' = QueueNames
  BY <1>1
<1>5. e \in ElementsOf(q)
  BY <1>2
<1>6. QueueType'
  BY <1>3, <1>4 DEF QueueType, Capacity, ElementsOf
<1> QED
  BY <1>5, <1>6

----
(* What a step leaves alone keeps its type.                                *)
LEMMA SharedKept ==
    /\ ListeningType /\ UNCHANGED listening => ListeningType'
    /\ DataInv /\ UNCHANGED data => DataInv'
    /\ QueueType /\ UNCHANGED queue => QueueType'
    /\ pool \subseteq Workers /\ UNCHANGED pool => pool' \subseteq Workers
    /\ Remote!RemoteType /\ UNCHANGED remote => Remote!RemoteType'
<1>1. QueueType /\ UNCHANGED queue => QueueType'
  BY DEF QueueType, Capacity, ElementsOf
<1>2. Remote!RemoteType /\ UNCHANGED remote => Remote!RemoteType'
  BY DEF Remote!RemoteType, Remote!RemoteWorker, Remote!WorkerStates
<1> QED
  BY <1>1, <1>2 DEF ListeningType, DataInv, DataType

LEMMA ThreadsKept ==
    /\ MainType /\ UNCHANGED main => MainType'
    /\ MasterInv /\ UNCHANGED master => MasterInv'
    /\ HandlerInv /\ UNCHANGED handler => HandlerInv'
    /\ DecomposerInv /\ UNCHANGED decomposer => DecomposerInv'
    /\ DistributorInv /\ UNCHANGED distributor => DistributorInv'
    /\ CalculatorInv /\ UNCHANGED calculator => CalculatorInv'
    /\ WorkerHandlerInv /\ UNCHANGED workerHandler => WorkerHandlerInv'
    /\ AssemblerInv /\ UNCHANGED assembler => AssemblerInv'
    /\ ResponderType /\ UNCHANGED responder => ResponderType'
<1>1. MainType /\ UNCHANGED main => MainType'
  BY DEF MainType
<1>2. MasterInv /\ UNCHANGED master => MasterInv'
  BY DEF MasterInv, MasterType
<1>3. HandlerInv /\ UNCHANGED handler => HandlerInv'
  BY DEF HandlerInv, HandlerType
<1>4. DecomposerInv /\ UNCHANGED decomposer => DecomposerInv'
  BY DEF DecomposerInv, DecomposerType
<1>5. DistributorInv /\ UNCHANGED distributor => DistributorInv'
  BY DEF DistributorInv, DistributorType
<1>6. CalculatorInv /\ UNCHANGED calculator => CalculatorInv'
  BY DEF CalculatorInv, CalculatorType
<1>7. WorkerHandlerInv /\ UNCHANGED workerHandler => WorkerHandlerInv'
  BY DEF WorkerHandlerInv, WorkerHandlerType
<1>8. AssemblerInv /\ UNCHANGED assembler => AssemblerInv'
  BY DEF AssemblerInv, AssemblerType
<1> QED
  BY <1>1, <1>2, <1>3, <1>4, <1>5, <1>6, <1>7, <1>8 DEF ResponderType

----
LEMMA TypeInit == Init => TypeInv
<1> SUFFICES ASSUME Init PROVE TypeInv
  OBVIOUS
<1>1. QueueType
  <2>1. \A q \in QueueNames : Capacity(q) \in Nat
    BY Sizes DEF Capacity
  <2> QED
    BY <2>1 DEF Init, QueueType
<1>2. Remote!RemoteType
  BY DEF Init, Remote!RemoteInit, Remote!RemoteType, Remote!RemoteWorker, Remote!WorkerStates
<1>3. /\ MainType /\ MasterInv /\ DecomposerInv /\ DistributorInv /\ AssemblerInv
  BY Sizes DEF Init, MainType, MasterInv, MasterType, DecomposerInv,
     DecomposerType, DistributorInv, DistributorType, AssemblerInv, AssemblerType
<1>4. /\ HandlerInv /\ CalculatorInv /\ WorkerHandlerInv
      /\ ListeningType /\ ResponderType /\ pool \subseteq Workers
  BY DEF Init, HandlerInv, HandlerType, CalculatorInv, CalculatorType, WorkerHandlerInv,
     WorkerHandlerType, ListeningType, ResponderType
<1>5. DataInv
  <2>1. \A r \in Requests : Queries[r] \in Nat
    BY LineAssumption
  <2>2. DataType
    BY DEF Init, DataType
  <2> QED
    BY <2>1, <2>2 DEF Init, DataInv
<1> QED
  BY <1>1, <1>2, <1>3, <1>4, <1>5 DEF TypeInv, ThreadsInv, SharedInv

----
(* The steps of the workers and of their connections.                      *)
LEMMA RemoteTypeKept ==
    ASSUME Remote!RemoteType, NEW w \in Workers, NEW new \in Remote!RemoteWorker,
           remote' = [remote EXCEPT ![w] = new]
    PROVE  Remote!RemoteType'
  BY DEF Remote!RemoteType, Remote!RemoteWorker, Remote!WorkerStates

(* The fields of a worker's record, and what may be put into them.         *)
LEMMA RemoteFields ==
    ASSUME NEW rec \in Remote!RemoteWorker
    PROVE  /\ rec.inbox \in Seq(Units \cup {Stop}) /\ rec.outbox \in Seq(Units \cup {Stop})
           /\ rec.held \subseteq Units /\ rec.state \in Remote!WorkerStates
           /\ \A s \in Remote!WorkerStates :
                 [rec EXCEPT !.state = s] \in Remote!RemoteWorker
           /\ \A q \in Seq(Units \cup {Stop}) :
                 /\ [rec EXCEPT !.inbox = q] \in Remote!RemoteWorker
                 /\ [rec EXCEPT !.outbox = q] \in Remote!RemoteWorker
           /\ \A H \in SUBSET Units : [rec EXCEPT !.held = H] \in Remote!RemoteWorker
           /\ \A q \in Seq(Units \cup {Stop}), H \in SUBSET Units :
                 /\ [rec EXCEPT !.inbox = q, !.held = H] \in Remote!RemoteWorker
                 /\ [rec EXCEPT !.held = H, !.outbox = q] \in Remote!RemoteWorker
           /\ \A q \in Seq(Units \cup {Stop}), s \in Remote!WorkerStates :
                 /\ [rec EXCEPT !.inbox = q, !.state = s] \in Remote!RemoteWorker
                 /\ [rec EXCEPT !.outbox = q, !.state = s] \in Remote!RemoteWorker
  BY DEF Remote!RemoteWorker

LEMMA RemoteMasterType ==
    ASSUME Remote!RemoteType
    PROVE  /\ \A w \in Workers : Remote!Connect(w) => Remote!RemoteType'
           /\ \A W \in SUBSET Workers, m \in Units \cup {Stop} :
                 Remote!Send(W, m) => Remote!RemoteType'
           /\ \A w \in Workers :
                 remote[w].outbox # << >> /\ Remote!Receive(w) => Remote!RemoteType'
<1>1. ASSUME NEW w \in Workers PROVE remote[w] \in Remote!RemoteWorker
  BY DEF Remote!RemoteType
<1>2. ASSUME NEW w \in Workers, Remote!Connect(w) PROVE Remote!RemoteType'
  <2>1. [remote[w] EXCEPT !.state = "serving"] \in Remote!RemoteWorker
    BY <1>1, RemoteFields DEF Remote!WorkerStates
  <2>2. remote' = [remote EXCEPT ![w] = [remote[w] EXCEPT !.state = "serving"]]
    BY <1>2 DEF Remote!Connect
  <2> QED
    BY <2>1, <2>2, RemoteTypeKept
<1>3. ASSUME NEW W \in SUBSET Workers, NEW m \in Units \cup {Stop}, Remote!Send(W, m)
      PROVE  Remote!RemoteType'
  <2>1. ASSUME NEW w \in Workers
        PROVE  [remote[w] EXCEPT !.inbox = Append(@, m)] \in Remote!RemoteWorker
    <3>1. Append(remote[w].inbox, m) \in Seq(Units \cup {Stop})
      BY <1>1, RemoteFields, AppendProperties
    <3> QED
      BY <1>1, <3>1, RemoteFields
  <2> QED
    BY <1>1, <1>3, <2>1 DEF Remote!Send, Remote!RemoteType
<1>4. ASSUME NEW w \in Workers, remote[w].outbox # << >>, Remote!Receive(w)
      PROVE  Remote!RemoteType'
  <2>1. Tail(remote[w].outbox) \in Seq(Units \cup {Stop})
    BY <1>1, <1>4, RemoteFields, HeadTailProperties
  <2>2. [remote[w] EXCEPT !.outbox = Tail(@)] \in Remote!RemoteWorker
    BY <1>1, <2>1, RemoteFields
  <2>3. remote' = [remote EXCEPT ![w] = [remote[w] EXCEPT !.outbox = Tail(@)]]
    BY <1>4 DEF Remote!Receive
  <2> QED
    BY <2>2, <2>3, RemoteTypeKept
<1> QED
  BY <1>2, <1>3, <1>4

LEMMA RemoteWorkType ==
    ASSUME Remote!RemoteType, NEW w \in Workers, Remote!Works(w) \/ Remote!Crash(w)
    PROVE  Remote!RemoteType'
<1>1. remote[w] \in Remote!RemoteWorker
  BY DEF Remote!RemoteType
<1>2. ASSUME remote[w].inbox # << >>
      PROVE  /\ Tail(remote[w].inbox) \in Seq(Units \cup {Stop})
             /\ Head(remote[w].inbox) \in Units \cup {Stop}
  BY <1>1, <1>2, RemoteFields, HeadTailProperties
<1>3. CASE Remote!TakeUnit(w)
  <2> DEFINE new == [remote[w] EXCEPT !.inbox = Tail(@),
                                     !.held = @ \cup {Head(remote[w].inbox)}]
  <2>1. new \in Remote!RemoteWorker
    BY <1>1, <1>2, <1>3, RemoteFields DEF Remote!TakeUnit
  <2>2. remote' = [remote EXCEPT ![w] = new]
    BY <1>3 DEF Remote!TakeUnit
  <2> QED
    BY <2>1, <2>2, RemoteTypeKept
<1>4. CASE Remote!TakeStop(w)
  <2> DEFINE new == [remote[w] EXCEPT !.inbox = Tail(@), !.state = "draining"]
  <2>1. new \in Remote!RemoteWorker
    BY <1>1, <1>2, <1>4, RemoteFields DEF Remote!TakeStop, Remote!WorkerStates
  <2>2. remote' = [remote EXCEPT ![w] = new]
    BY <1>4 DEF Remote!TakeStop
  <2> QED
    BY <2>1, <2>2, RemoteTypeKept
<1>5. ASSUME NEW u \in Units, Remote!Answer(w, u) PROVE Remote!RemoteType'
  <2> DEFINE new == [remote[w] EXCEPT !.held = @ \ {u}, !.outbox = Append(@, u)]
  <2>1. Append(remote[w].outbox, u) \in Seq(Units \cup {Stop})
    BY <1>1, RemoteFields, AppendProperties
  <2>2. new \in Remote!RemoteWorker
    BY <1>1, <2>1, RemoteFields
  <2>3. remote' = [remote EXCEPT ![w] = new]
    BY <1>5 DEF Remote!Answer
  <2> QED
    BY <2>2, <2>3, RemoteTypeKept
<1>6. CASE Remote!Leave(w)
  <2> DEFINE new == [remote[w] EXCEPT !.outbox = Append(@, Stop), !.state = "gone"]
  <2>1. Append(remote[w].outbox, Stop) \in Seq(Units \cup {Stop})
    BY <1>1, RemoteFields, AppendProperties
  <2>2. new \in Remote!RemoteWorker
    BY <1>1, <2>1, RemoteFields DEF Remote!WorkerStates
  <2>3. remote' = [remote EXCEPT ![w] = new]
    BY <1>6 DEF Remote!Leave
  <2> QED
    BY <2>2, <2>3, RemoteTypeKept
<1>7. CASE Remote!Crash(w)
  <2>1. PICK n \in 0 .. Len(remote[w].outbox) :
           remote' = [remote EXCEPT ![w] =
              [state |-> "crashed", inbox |-> << >>, held |-> {},
               outbox |-> SubSeq(remote[w].outbox, 1, n)]]
    BY <1>7 DEF Remote!Crash
  <2>2. SubSeq(remote[w].outbox, 1, n) \in Seq(Units \cup {Stop})
    BY <1>1 DEF Remote!RemoteWorker
  <2>3. [state |-> "crashed", inbox |-> << >>, held |-> {},
         outbox |-> SubSeq(remote[w].outbox, 1, n)] \in Remote!RemoteWorker
    BY <2>2 DEF Remote!RemoteWorker, Remote!WorkerStates
  <2> QED
    BY <2>1, <2>3, RemoteTypeKept
<1> QED
  BY <1>3, <1>4, <1>5, <1>6, <1>7 DEF Remote!Works

----
(* The parts of a data unit, and the storing of its result.                *)
LEMMA UnitParts == \A u \in Units : u[1] \in Requests /\ u[2] \in Nat
<1>1. ASSUME NEW r \in Requests PROVE Queries[r] \in Nat
  BY LineAssumption
<1> QED
  BY <1>1 DEF Units, UnitsOf

LEMMA StoreType ==
    ASSUME DataInv, NEW u \in Units, StoreResult(u)
    PROVE  DataInv'
  BY UnitParts DEF DataInv, DataType, StoreResult

LEMMA UnitsMade ==
    ASSUME DataInv
    PROVE  \A r \in Requests : Decompose(r) \in Seq(Units)
<1> TAKE r \in Requests
<1>1. Queries[r] \in Nat /\ data[r].pending \in Nat /\ data[r].pending <= Queries[r]
  BY LineAssumption DEF DataInv, DataType
<1>2. \A i \in 1 .. data[r].pending : <<r, i>> \in UnitsOf(r)
  BY <1>1 DEF UnitsOf
<1>3. Decompose(r) \in [1 .. data[r].pending -> Units]
  BY <1>2 DEF Decompose, Units
<1> QED
  BY <1>1, <1>3, SeqDef

(* Fewer units may be pending, and more results stored.                    *)
LEMMA FewerPending ==
    ASSUME DataInv, NEW r \in Requests, NEW p \in Nat, p <= data[r].pending,
           data' = [data EXCEPT ![r].pending = p]
    PROVE  DataInv'
<1>1. \A x \in Requests :
         Queries[x] \in Nat /\ data[x].pending \in Nat /\ data[x].pending <= Queries[x]
  BY LineAssumption DEF DataInv, DataType
<1>2. DataType'
  BY DEF DataInv, DataType
<1>3. \A x \in Requests : data'[x].pending = IF x = r THEN p ELSE data[x].pending
  BY DEF DataInv, DataType
<1> QED
  BY <1>1, <1>2, <1>3 DEF DataInv

(* The main thread.                                                        *)
LEMMA MainStepType ==
    ASSUME TypeInv, MainSteps
    PROVE  TypeInv'
<1>1. CASE MainAccepts
  <2>1. main.accepted + 1 \in 0 .. ConnectionsLimit
        /\ main.stops \in 0 .. Cardinality(Handlers)
    BY <1>1, Sizes DEF MainAccepts, MainType, TypeInv, ThreadsInv
  <2>2. MainType'
    BY <1>1, <2>1 DEF MainAccepts, MainType, TypeInv, ThreadsInv
  <2> QED
    BY <1>1, <2>2, SharedKept, ThreadsKept DEF MainAccepts, OnlyMain, TypeInv,
       ThreadsInv, SharedInv
<1>2. CASE MainHands
  <2>1. QueueType'
    BY <1>2, EnqueueType, Elements DEF MainHands, TypeInv, SharedInv
  <2>2. MainType'
    BY <1>2 DEF MainHands, MainType, TypeInv, ThreadsInv
  <2> QED
    BY <1>2, <2>1, <2>2, SharedKept, ThreadsKept DEF MainHands, OnlyMain, TypeInv,
       ThreadsInv, SharedInv
<1>3. CASE MainFailsToAccept
  <2>1. MainType'
    BY <1>3 DEF MainFailsToAccept, MainType, TypeInv, ThreadsInv
  <2> QED
    BY <1>3, <2>1, SharedKept, ThreadsKept DEF MainFailsToAccept, OnlyMain,
       TypeInv, ThreadsInv, SharedInv
<1>4. CASE MainStops
  <2>1. QueueType'
    BY <1>4, EnqueueType, Elements DEF MainStops, TypeInv, SharedInv
  <2>2. MainType'
    BY <1>4, Sizes DEF MainStops, MainType, TypeInv, ThreadsInv
  <2> QED
    BY <1>4, <2>1, <2>2, SharedKept, ThreadsKept DEF MainStops, OnlyMain, TypeInv,
       ThreadsInv, SharedInv
<1>5. CASE MainJoins
  <2>1. MainType'
    BY <1>5 DEF MainJoins, MainType, TypeInv, ThreadsInv
  <2> QED
    BY <1>5, <2>1, SharedKept, ThreadsKept DEF MainJoins, OnlyMain, TypeInv,
       ThreadsInv, SharedInv
<1> QED
  BY <1>1, <1>2, <1>3, <1>4, <1>5 DEF MainSteps

(* MasterServer.                                                           *)
LEMMA MasterStepType ==
    ASSUME TypeInv, MasterSteps
    PROVE  TypeInv'
<1>1. CASE MasterListens
  <2>1. ListeningType'
    BY <1>1 DEF MasterListens, ListeningType, TypeInv, SharedInv
  <2>2. MasterInv'
    BY <1>1 DEF MasterListens, MasterInv, MasterType, TypeInv, ThreadsInv
  <2> QED
    BY <1>1, <2>1, <2>2, SharedKept, ThreadsKept DEF MasterListens, OnlyMaster,
       TypeInv, ThreadsInv, SharedInv
<1>2. CASE MasterAdmits
  <2>1. pool' \subseteq Workers
    BY <1>2 DEF MasterAdmits, MasterInv, TypeInv, ThreadsInv, SharedInv
  <2>2. MasterInv'
    BY <1>2 DEF MasterAdmits, MasterInv, MasterType, TypeInv, ThreadsInv
  <2> QED
    BY <1>2, <2>1, <2>2, SharedKept, ThreadsKept DEF MasterAdmits, OnlyMaster,
       TypeInv, ThreadsInv, SharedInv
<1>3. CASE MasterRejects
  <2>1. MasterInv'
    BY <1>3 DEF MasterRejects, MasterInv, MasterType, TypeInv, ThreadsInv
  <2> QED
    BY <1>3, <2>1, SharedKept, ThreadsKept DEF MasterRejects, OnlyMaster, TypeInv,
       ThreadsInv, SharedInv
<1>4. CASE MasterHands
  <2>1. QueueType'
    BY <1>4, EnqueueType, Elements DEF MasterHands, TypeInv, ThreadsInv,
       SharedInv, MasterInv
  <2>2. MasterInv'
    BY <1>4 DEF MasterHands, MasterInv, MasterType, TypeInv, ThreadsInv
  <2> QED
    BY <1>4, <2>1, <2>2, SharedKept, ThreadsKept DEF MasterHands, OnlyMaster,
       TypeInv, ThreadsInv, SharedInv
<1>5. CASE MasterFails
  <2>1. MasterInv'
    BY <1>5 DEF MasterFails, MasterInv, MasterType, TypeInv, ThreadsInv
  <2> QED
    BY <1>5, <2>1, SharedKept, ThreadsKept DEF MasterFails, OnlyMaster, TypeInv,
       ThreadsInv, SharedInv
<1>6. CASE MasterStops
  <2>1. QueueType'
    BY <1>6, EnqueueType, Elements DEF MasterStops, TypeInv, SharedInv
  <2>2. MasterInv'
    BY <1>6, Sizes DEF MasterStops, MasterInv, MasterType, TypeInv, ThreadsInv
  <2> QED
    BY <1>6, <2>1, <2>2, SharedKept, ThreadsKept DEF MasterStops, OnlyMaster,
       TypeInv, ThreadsInv, SharedInv
<1>7. CASE MasterEnds
  <2>1. MasterInv'
    BY <1>7 DEF MasterEnds, MasterInv, MasterType, TypeInv, ThreadsInv
  <2> QED
    BY <1>7, <2>1, SharedKept, ThreadsKept DEF MasterEnds, OnlyMaster, TypeInv,
       ThreadsInv, SharedInv
<1>8. ASSUME NEW w \in Workers, MasterAccepts(w) PROVE TypeInv'
  <2>1. Remote!RemoteType'
    BY <1>8, RemoteMasterType DEF MasterAccepts, TypeInv, SharedInv
  <2>2. MasterInv'
    BY <1>8 DEF MasterAccepts, MasterInv, MasterType, TypeInv, ThreadsInv
  <2> QED
    BY <1>8, <2>1, <2>2, SharedKept, ThreadsKept DEF MasterAccepts, OnlyMaster,
       TypeInv, ThreadsInv, SharedInv
<1> QED
  BY <1>1, <1>2, <1>3, <1>4, <1>5, <1>6, <1>7, <1>8 DEF MasterSteps

(* HttpConnectionHandler.                                                  *)
LEMMA HandlerStepType ==
    ASSUME TypeInv, NEW h \in Handlers,
           \/ HandlerWorks(h) \/ HandlerLeaves(h)
           \/ \E r \in Requests : HandlerAnswers(h, r) \/ HandlerCreates(h, r)
    PROVE  TypeInv'
<1>1. CASE HandlerTakes(h)
  <2>1. QueueType'
    BY <1>1, DequeueType DEF HandlerTakes, TypeInv, SharedInv, QueueNames
  <2>2. HandlerInv'
    BY <1>1 DEF HandlerTakes, HandlerInv, HandlerType, TypeInv, ThreadsInv
  <2> QED
    BY <1>1, <2>1, <2>2, SharedKept, ThreadsKept DEF HandlerTakes, OnlyHandler,
       TypeInv, ThreadsInv, SharedInv
<1>2. CASE HandlerProduces(h)
  <2>1. QueueType'
    BY <1>2, EnqueueType, Elements DEF HandlerProduces, TypeInv, ThreadsInv,
       SharedInv, HandlerInv, DataQueues
  <2>2. HandlerInv'
    BY <1>2 DEF HandlerProduces, HandlerInv, HandlerType, TypeInv, ThreadsInv
  <2> QED
    BY <1>2, <2>1, <2>2, SharedKept, ThreadsKept DEF HandlerProduces, OnlyHandler,
       TypeInv, ThreadsInv, SharedInv
<1>3. CASE HandlerHalts(h)
  <2>1. QueueType'
    BY <1>3, EnqueueType, Elements DEF HandlerHalts, TypeInv, SharedInv,
       DataQueues
  <2>2. HandlerInv'
    BY <1>3 DEF HandlerHalts, HandlerInv, HandlerType, TypeInv, ThreadsInv
  <2> QED
    BY <1>3, <2>1, <2>2, SharedKept, ThreadsKept DEF HandlerHalts, OnlyHandler,
       TypeInv, ThreadsInv, SharedInv
<1>4. CASE HandlerLeaves(h)
  <2>1. HandlerInv'
    BY <1>4 DEF HandlerLeaves, HandlerInv, HandlerType, TypeInv, ThreadsInv
  <2> QED
    BY <1>4, <2>1, SharedKept, ThreadsKept DEF HandlerLeaves, OnlyHandler,
       TypeInv, ThreadsInv, SharedInv
<1>5. ASSUME NEW r \in Requests, HandlerAnswers(h, r) PROVE TypeInv'
  <2>1. DataInv'
    BY <1>5 DEF HandlerAnswers, DataInv, DataType, TypeInv, SharedInv
  <2> QED
    BY <1>5, <2>1, SharedKept, ThreadsKept DEF HandlerAnswers, OnlyHandler,
       TypeInv, ThreadsInv, SharedInv
<1>6. ASSUME NEW r \in Requests, HandlerCreates(h, r) PROVE TypeInv'
  <2>1. Queries[r] \in Nat
    BY LineAssumption
  <2>2. DataInv'
    <3> DEFINE new == [data[r] EXCEPT !.phase = "live", !.pending = Queries[r]]
    <3>1. data' = [data EXCEPT ![r] = new]
      BY <1>6 DEF HandlerCreates
    <3>2. new \in [phase : {"unseen", "live", "answered"}, pending : Nat,
                   results : SUBSET Nat]
      BY <2>1 DEF TypeInv, SharedInv, DataInv, DataType
    <3>3. DataType' /\ new.pending = Queries[r]
      BY <3>1, <3>2 DEF TypeInv, SharedInv, DataInv, DataType
    <3>4. \A x \in Requests : data'[x] = IF x = r THEN new ELSE data[x]
      BY <3>1 DEF TypeInv, SharedInv, DataInv, DataType
    <3> HIDE DEF new
    <3> QED
      BY <2>1, <3>3, <3>4 DEF TypeInv, SharedInv, DataInv
  <2>3. HandlerInv'
    BY <1>6 DEF HandlerCreates, HandlerInv, HandlerType, TypeInv, ThreadsInv
  <2> QED
    BY <1>6, <2>2, <2>3, SharedKept, ThreadsKept DEF HandlerCreates, OnlyHandler,
       TypeInv, ThreadsInv, SharedInv
<1> QED
  BY <1>1, <1>2, <1>3, <1>4, <1>5, <1>6 DEF HandlerWorks

(* The Decomposer.                                                         *)
LEMMA DecomposerStepType ==
    ASSUME TypeInv, DecomposerWorks
    PROVE  TypeInv'
<1>1. CASE DecomposerTakes
  <2>1. QueueType'
    BY <1>1, DequeueType DEF DecomposerTakes, TypeInv, SharedInv, QueueNames
  <2>2. \A r \in Requests : Decompose(r) \in Seq(Units)
    BY <1>1, UnitsMade DEF DecomposerTakes, TypeInv, SharedInv
  <2>3. decomposer.stops \in 0 .. Cardinality(Handlers)
        /\ decomposer.stops < Cardinality(Handlers)
    BY <1>1 DEF DecomposerTakes, DecomposerInv, DecomposerType, TypeInv,
       ThreadsInv, SharedInv
  <2>4. decomposer.stops + 1 \in 0 .. Cardinality(Handlers)
        /\ (decomposer.stops + 1 # Cardinality(Handlers) =>
               decomposer.stops + 1 < Cardinality(Handlers))
    BY <2>3, Sizes
  <2>5. DecomposerInv'
    BY <1>1, <2>2, <2>4 DEF DecomposerTakes, DecomposerInv, DecomposerType,
       TypeInv, ThreadsInv
  <2> QED
    BY <1>1, <2>1, <2>5, SharedKept, ThreadsKept DEF DecomposerTakes,
       OnlyDecomposer, TypeInv, ThreadsInv, SharedInv
<1>2. CASE DecomposerProduces
  <2>1. QueueType'
    BY <1>2, EnqueueType, Elements DEF DecomposerProduces, TypeInv, ThreadsInv,
       SharedInv, DecomposerInv, DecomposerType, UnitQueues
  <2>2. Tail(decomposer.units) \in Seq(Units)
    BY <1>2 DEF DecomposerProduces, DecomposerInv, DecomposerType, TypeInv,
       ThreadsInv, SharedInv
  <2>3. DecomposerInv'
    BY <1>2, <2>2 DEF DecomposerProduces, DecomposerInv, DecomposerType, TypeInv,
       ThreadsInv
  <2> QED
    BY <1>2, <2>1, <2>3, SharedKept, ThreadsKept DEF DecomposerProduces,
       OnlyDecomposer, TypeInv, ThreadsInv, SharedInv
<1>3. CASE DecomposerHalts
  <2>1. QueueType'
    BY <1>3, EnqueueType, Elements DEF DecomposerHalts, TypeInv, SharedInv,
       UnitQueues
  <2>2. DecomposerInv'
    BY <1>3 DEF DecomposerHalts, DecomposerInv, DecomposerType, TypeInv,
       ThreadsInv
  <2> QED
    BY <1>3, <2>1, <2>2, SharedKept, ThreadsKept DEF DecomposerHalts,
       OnlyDecomposer, TypeInv, ThreadsInv, SharedInv
<1> QED
  BY <1>1, <1>2, <1>3 DEF DecomposerWorks

(* The Distributor.                                                        *)
LEMMA DistributorStepType ==
    ASSUME TypeInv, DistributorWorks
    PROVE  TypeInv'
<1>1. CASE DistributorTakes
  <2>1. QueueType'
    BY <1>1, DequeueType DEF DistributorTakes, TypeInv, SharedInv, QueueNames
  <2>2. DistributorInv'
    BY <1>1 DEF DistributorTakes, DistributorInv, DistributorType, TypeInv,
       ThreadsInv
  <2> QED
    BY <1>1, <2>1, <2>2, SharedKept, ThreadsKept DEF DistributorTakes,
       OnlyDistributor, TypeInv, ThreadsInv, SharedInv
<1>2. CASE DistributorFindsNobody
  <2>1. DistributorInv'
    BY <1>2 DEF DistributorFindsNobody, DistributorInv, DistributorType, TypeInv,
       ThreadsInv
  <2> QED
    BY <1>2, <2>1, SharedKept, ThreadsKept DEF DistributorFindsNobody,
       OnlyDistributor, TypeInv, ThreadsInv, SharedInv
<1>3. CASE DistributorSends
  <2>1. Remote!RemoteType'
    BY <1>3, RemoteMasterType DEF DistributorSends, DistributorInv, TypeInv,
       ThreadsInv, SharedInv
  <2>2. DistributorInv'
    BY <1>3 DEF DistributorSends, DistributorInv, DistributorType, TypeInv,
       ThreadsInv
  <2> QED
    BY <1>3, <2>1, <2>2, SharedKept, ThreadsKept DEF DistributorSends,
       OnlyDistributor, TypeInv, ThreadsInv, SharedInv
<1>4. CASE DistributorProduces
  <2>1. QueueType'
    BY <1>4, EnqueueType, Elements DEF DistributorProduces, TypeInv, ThreadsInv,
       SharedInv, DistributorInv, UnitQueues
  <2>2. DistributorInv'
    BY <1>4 DEF DistributorProduces, DistributorInv, DistributorType, TypeInv,
       ThreadsInv
  <2> QED
    BY <1>4, <2>1, <2>2, SharedKept, ThreadsKept DEF DistributorProduces,
       OnlyDistributor, TypeInv, ThreadsInv, SharedInv
<1>5. CASE DistributorStopsWorkers
  <2>1. Remote!RemoteType'
    BY <1>5, RemoteMasterType DEF DistributorStopsWorkers, TypeInv, SharedInv
  <2>2. DistributorInv'
    BY <1>5 DEF DistributorStopsWorkers, DistributorInv, DistributorType, TypeInv,
       ThreadsInv
  <2> QED
    BY <1>5, <2>1, <2>2, SharedKept, ThreadsKept DEF DistributorStopsWorkers,
       OnlyDistributor, TypeInv, ThreadsInv, SharedInv
<1>6. CASE DistributorHalts
  <2>1. QueueType'
    BY <1>6, EnqueueType, Elements DEF DistributorHalts, TypeInv, SharedInv,
       UnitQueues
  <2>2. distributor.stops \in 0 .. Cardinality(Calculators)
        /\ distributor.stops < Cardinality(Calculators)
    BY <1>6 DEF DistributorHalts, DistributorInv, DistributorType, TypeInv,
       ThreadsInv, SharedInv
  <2>3. distributor.stops + 1 \in 0 .. Cardinality(Calculators)
        /\ (distributor.stops + 1 # Cardinality(Calculators) =>
               distributor.stops + 1 < Cardinality(Calculators))
    BY <2>2, Sizes
  <2>4. DistributorInv'
    BY <1>6, <2>3 DEF DistributorHalts, DistributorInv, DistributorType, TypeInv,
       ThreadsInv
  <2> QED
    BY <1>6, <2>1, <2>2, <2>4, SharedKept, ThreadsKept DEF DistributorHalts,
       OnlyDistributor, TypeInv, ThreadsInv, SharedInv
<1>7. ASSUME NEW w \in Workers, DistributorChooses(w) PROVE TypeInv'
  <2>1. DistributorInv'
    BY <1>7 DEF DistributorChooses, DistributorInv, DistributorType, TypeInv,
       ThreadsInv
  <2> QED
    BY <1>7, <2>1, SharedKept, ThreadsKept DEF DistributorChooses,
       OnlyDistributor, TypeInv, ThreadsInv, SharedInv
<1> QED
  BY <1>1, <1>2, <1>3, <1>4, <1>5, <1>6, <1>7 DEF DistributorWorks

(* A Calculator.                                                           *)
LEMMA CalculatorStepType ==
    ASSUME TypeInv, NEW c \in Calculators, CalculatorWorks(c)
    PROVE  TypeInv'
<1>1. CASE CalculatorProcesses(c)
  <2>1. QueueType'
    BY <1>1, DequeueType DEF CalculatorProcesses, TypeInv, SharedInv, QueueNames
  <2>2. DataInv'
    BY <1>1, StoreType, SharedKept DEF CalculatorProcesses, TypeInv, SharedInv
  <2>3. CalculatorInv'
    BY <1>1 DEF CalculatorProcesses, CalculatorInv, CalculatorType, TypeInv,
       ThreadsInv
  <2> QED
    BY <1>1, <2>1, <2>2, <2>3, SharedKept, ThreadsKept DEF CalculatorProcesses,
       OnlyCalculator, TypeInv, ThreadsInv, SharedInv
<1>2. CASE CalculatorProduces(c)
  <2>1. QueueType'
    BY <1>2, EnqueueType, Elements DEF CalculatorProduces, TypeInv, ThreadsInv,
       SharedInv, CalculatorInv, UnitQueues
  <2>2. CalculatorInv'
    BY <1>2 DEF CalculatorProduces, CalculatorInv, CalculatorType, TypeInv,
       ThreadsInv
  <2> QED
    BY <1>2, <2>1, <2>2, SharedKept, ThreadsKept DEF CalculatorProduces,
       OnlyCalculator, TypeInv, ThreadsInv, SharedInv
<1>3. CASE CalculatorHalts(c)
  <2>1. QueueType'
    BY <1>3, EnqueueType, Elements DEF CalculatorHalts, TypeInv, SharedInv,
       UnitQueues
  <2>2. CalculatorInv'
    BY <1>3 DEF CalculatorHalts, CalculatorInv, CalculatorType, TypeInv,
       ThreadsInv
  <2> QED
    BY <1>3, <2>1, <2>2, SharedKept, ThreadsKept DEF CalculatorHalts,
       OnlyCalculator, TypeInv, ThreadsInv, SharedInv
<1> QED
  BY <1>1, <1>2, <1>3 DEF CalculatorWorks

(* A WorkerConnectionHandler.                                              *)
LEMMA WorkerHandlerStepType ==
    ASSUME TypeInv, NEW k \in WorkerHandlers, WorkerHandlerWorks(k)
    PROVE  TypeInv'
<1>1. CASE WorkerHandlerTakes(k)
  <2>1. QueueType'
    BY <1>1, DequeueType DEF WorkerHandlerTakes, TypeInv, SharedInv, QueueNames
  <2>2. WorkerHandlerInv'
    BY <1>1 DEF WorkerHandlerTakes, WorkerHandlerInv, WorkerHandlerType, TypeInv,
       ThreadsInv
  <2> QED
    BY <1>1, <2>1, <2>2, SharedKept, ThreadsKept DEF WorkerHandlerTakes,
       OnlyWorkerHandler, TypeInv, ThreadsInv, SharedInv
<1>2. CASE WorkerHandlerReads(k)
  <2>1. workerHandler[k].worker \in Workers
    BY <1>2 DEF WorkerHandlerReads, WorkerHandlerInv, TypeInv, ThreadsInv
  <2>2. Head(remote[workerHandler[k].worker].outbox) \in Units
    <3>1. remote[workerHandler[k].worker].outbox \in Seq(Units \cup {Stop})
      BY <2>1 DEF Remote!RemoteType, Remote!RemoteWorker, TypeInv, SharedInv
    <3> QED
      BY <1>2, <3>1, HeadTailProperties DEF WorkerHandlerReads
  <2>3. Remote!RemoteType'
    BY <1>2, <2>1, RemoteMasterType DEF WorkerHandlerReads, TypeInv, SharedInv
  <2>4. DataInv'
    BY <1>2, <2>2, StoreType DEF WorkerHandlerReads, TypeInv, SharedInv
  <2>5. WorkerHandlerInv'
    BY <1>2, <2>2 DEF WorkerHandlerReads, WorkerHandlerInv, WorkerHandlerType,
       TypeInv, ThreadsInv
  <2> QED
    BY <1>2, <2>3, <2>4, <2>5, SharedKept, ThreadsKept DEF WorkerHandlerReads,
       OnlyWorkerHandler, TypeInv, ThreadsInv, SharedInv
<1>3. CASE WorkerHandlerProduces(k)
  <2>1. QueueType'
    BY <1>3, EnqueueType, Elements DEF WorkerHandlerProduces, TypeInv, ThreadsInv,
       SharedInv, WorkerHandlerInv, UnitQueues
  <2>2. WorkerHandlerInv'
    BY <1>3 DEF WorkerHandlerProduces, WorkerHandlerInv, WorkerHandlerType,
       TypeInv, ThreadsInv
  <2> QED
    BY <1>3, <2>1, <2>2, SharedKept, ThreadsKept DEF WorkerHandlerProduces,
       OnlyWorkerHandler, TypeInv, ThreadsInv, SharedInv
<1>4. CASE WorkerHandlerDrops(k)
  <2>1. workerHandler[k].worker \in Workers
    BY <1>4 DEF WorkerHandlerDrops, WorkerHandlerInv, TypeInv, ThreadsInv
  <2>2. Remote!RemoteType'
    BY <1>4, <2>1, RemoteMasterType, SharedKept DEF WorkerHandlerDrops, TypeInv,
       SharedInv
  <2>3. pool' \subseteq Workers
    BY <1>4 DEF WorkerHandlerDrops, TypeInv, SharedInv
  <2>4. WorkerHandlerInv'
    BY <1>4 DEF WorkerHandlerDrops, WorkerHandlerInv, WorkerHandlerType, TypeInv,
       ThreadsInv
  <2> QED
    BY <1>4, <2>2, <2>3, <2>4, SharedKept, ThreadsKept DEF WorkerHandlerDrops,
       OnlyWorkerHandler, TypeInv, ThreadsInv, SharedInv
<1>5. CASE WorkerHandlerHalts(k)
  <2>1. QueueType'
    BY <1>5, EnqueueType, Elements DEF WorkerHandlerHalts, TypeInv, SharedInv,
       UnitQueues
  <2>2. WorkerHandlerInv'
    BY <1>5 DEF WorkerHandlerHalts, WorkerHandlerInv, WorkerHandlerType, TypeInv,
       ThreadsInv
  <2> QED
    BY <1>5, <2>1, <2>2, SharedKept, ThreadsKept DEF WorkerHandlerHalts,
       OnlyWorkerHandler, TypeInv, ThreadsInv, SharedInv
<1> QED
  BY <1>1, <1>2, <1>3, <1>4, <1>5 DEF WorkerHandlerWorks

(* The ResponseAssembler.                                                  *)
LEMMA AssemblerStepType ==
    ASSUME TypeInv, AssemblerWorks
    PROVE  TypeInv'
<1>1. CASE AssemblerMarks
  <2>1. QueueType'
    BY <1>1, DequeueType DEF AssemblerMarks, TypeInv, SharedInv, QueueNames
  <2>2. DataInv'
    <3>1. PICK u \in Units :
             data' = [data EXCEPT ![u[1]].pending =
                         IF data[u[1]].pending > 0 THEN data[u[1]].pending - 1 ELSE 0]
      BY <1>1 DEF AssemblerMarks
    <3> DEFINE p == IF data[u[1]].pending > 0 THEN data[u[1]].pending - 1 ELSE 0
    <3>2. u[1] \in Requests
      BY UnitParts
    <3>3. data[u[1]].pending \in Nat
      BY <3>2 DEF TypeInv, SharedInv, DataInv, DataType
    <3>4. p \in Nat /\ p <= data[u[1]].pending
      BY <3>3
    <3> QED
      BY <3>1, <3>2, <3>4, FewerPending DEF TypeInv, SharedInv
  <2>3. AssemblerInv'
    BY <1>1 DEF AssemblerMarks, AssemblerInv, AssemblerType, TypeInv, ThreadsInv
  <2> QED
    BY <1>1, <2>1, <2>2, <2>3, SharedKept, ThreadsKept DEF AssemblerMarks,
       OnlyAssembler, TypeInv, ThreadsInv, SharedInv
<1>2. CASE AssemblerCountsStop
  <2>1. assembler.stops \in 0 .. StopsToAssemble /\ assembler.stops < StopsToAssemble
    BY <1>2 DEF AssemblerCountsStop, AssemblerInv, AssemblerType, TypeInv,
       ThreadsInv
  <2>2. assembler.stops + 1 \in 0 .. StopsToAssemble
        /\ (assembler.stops + 1 # StopsToAssemble => assembler.stops + 1 < StopsToAssemble)
    BY <2>1, Sizes
  <2>3. QueueType'
    BY <1>2, DequeueType DEF AssemblerCountsStop, TypeInv, SharedInv, QueueNames
  <2>4. AssemblerInv'
    BY <1>2, <2>2 DEF AssemblerCountsStop, AssemblerInv, AssemblerType, TypeInv,
       ThreadsInv
  <2> QED
    BY <1>2, <2>1, <2>3, <2>4, SharedKept, ThreadsKept DEF AssemblerCountsStop,
       OnlyAssembler, TypeInv, ThreadsInv, SharedInv
<1>3. CASE AssemblerProduces
  <2>1. QueueType'
    BY <1>3, EnqueueType, Elements, UnitParts DEF AssemblerProduces, TypeInv,
       ThreadsInv, SharedInv, AssemblerInv, DataQueues
  <2>2. AssemblerInv'
    BY <1>3 DEF AssemblerProduces, AssemblerInv, AssemblerType, TypeInv,
       ThreadsInv
  <2> QED
    BY <1>3, <2>1, <2>2, SharedKept, ThreadsKept DEF AssemblerProduces,
       OnlyAssembler, TypeInv, ThreadsInv, SharedInv
<1>4. CASE AssemblerHalts
  <2>1. QueueType'
    BY <1>4, EnqueueType, Elements DEF AssemblerHalts, TypeInv, SharedInv,
       DataQueues
  <2>2. AssemblerInv'
    BY <1>4 DEF AssemblerHalts, AssemblerInv, AssemblerType, TypeInv, ThreadsInv
  <2> QED
    BY <1>4, <2>1, <2>2, SharedKept, ThreadsKept DEF AssemblerHalts,
       OnlyAssembler, TypeInv, ThreadsInv, SharedInv
<1> QED
  BY <1>1, <1>2, <1>3, <1>4 DEF AssemblerWorks

(* The ClientResponder.                                                    *)
LEMMA ResponderStepType ==
    ASSUME TypeInv, ResponderWorks
    PROVE  TypeInv'
<1>1. CASE ResponderAnswers
  <2>1. QueueType'
    BY <1>1, DequeueType DEF ResponderAnswers, TypeInv, SharedInv, QueueNames
  <2>2. DataInv'
    BY <1>1 DEF ResponderAnswers, DataInv, DataType, TypeInv, SharedInv
  <2>3. ResponderType'
    BY <1>1 DEF ResponderAnswers, ResponderType, TypeInv, ThreadsInv
  <2> QED
    BY <1>1, <2>1, <2>2, <2>3, SharedKept, ThreadsKept DEF ResponderAnswers,
       OnlyResponder, TypeInv, ThreadsInv, SharedInv
<1>2. CASE ResponderEnds
  <2>1. QueueType'
    BY <1>2, DequeueType DEF ResponderEnds, TypeInv, SharedInv, QueueNames
  <2>2. ResponderType'
    BY <1>2 DEF ResponderEnds, ResponderType, TypeInv, ThreadsInv
  <2> QED
    BY <1>2, <2>1, <2>2, SharedKept, ThreadsKept DEF ResponderEnds, OnlyResponder,
       TypeInv, ThreadsInv, SharedInv
<1> QED
  BY <1>1, <1>2 DEF ResponderWorks

----
LEMMA TypeStep == TypeInv /\ [Next]_vars => TypeInv'
<1> SUFFICES ASSUME TypeInv, [Next]_vars PROVE TypeInv'
  OBVIOUS
<1>1. CASE MainSteps
  BY <1>1, MainStepType
<1>2. CASE HandleSignal
  <2>1. ListeningType'
    BY <1>2 DEF HandleSignal, ListeningType, TypeInv, SharedInv
  <2> QED
    BY <1>2, <2>1, SharedKept, ThreadsKept DEF HandleSignal, threads, TypeInv,
       ThreadsInv, SharedInv
<1>3. CASE MasterSteps
  BY <1>3, MasterStepType
<1>4. ASSUME NEW h \in Handlers,
             \/ HandlerWorks(h) \/ HandlerLeaves(h)
             \/ \E r \in Requests : HandlerAnswers(h, r) \/ HandlerCreates(h, r)
      PROVE  TypeInv'
  BY <1>4, HandlerStepType
<1>5. CASE DecomposerWorks
  BY <1>5, DecomposerStepType
<1>6. CASE DistributorWorks
  BY <1>6, DistributorStepType
<1>7. CASE AssemblerWorks
  BY <1>7, AssemblerStepType
<1>8. CASE ResponderWorks
  BY <1>8, ResponderStepType
<1>9. ASSUME NEW c \in Calculators, CalculatorWorks(c) PROVE TypeInv'
  BY <1>9, CalculatorStepType
<1>10. ASSUME NEW k \in WorkerHandlers, WorkerHandlerWorks(k) PROVE TypeInv'
  BY <1>10, WorkerHandlerStepType
<1>11. ASSUME NEW w \in Workers, WorkerWorks(w) \/ WorkerCrashes(w) PROVE TypeInv'
  <2>1. Remote!RemoteType'
    BY <1>11, RemoteWorkType DEF WorkerWorks, WorkerCrashes, TypeInv, SharedInv
  <2> QED
    BY <1>11, <2>1, SharedKept, ThreadsKept DEF WorkerWorks, WorkerCrashes,
       OnlyRemote, threads, TypeInv, ThreadsInv, SharedInv
<1>12. CASE UNCHANGED vars
  BY <1>12, SharedKept, ThreadsKept DEF vars, threads, TypeInv, ThreadsInv,
     SharedInv
<1> QED
  BY <1>1, <1>2, <1>3, <1>4, <1>5, <1>6, <1>7, <1>8, <1>9, <1>10, <1>11, <1>12 DEF
     Next, Finished

(* The inductive invariant holds in every state of every behaviour.        *)
THEOREM LineInvariant == Spec => []TypeInv
<1>1. Init => TypeInv
  BY TypeInit
<1>2. TypeInv /\ [Next]_vars => TypeInv'
  BY TypeStep
<1> QED
  BY <1>1, <1>2, PTL DEF Spec

(* No queue of the line ever exceeds its capacity, no thread counts more   *)
(* stop conditions than are sent to it, and what each thread and queue     *)
(* holds is of its kind: HttpServer::createThreads, connectQueues.         *)
THEOREM LineTypeCorrect == Spec => []TypeOK
<1>1. TypeInv => TypeOK
  BY DEF TypeInv, ThreadsInv, SharedInv, TypeOK, MasterInv, HandlerInv,
     DecomposerInv, DistributorInv, CalculatorInv, WorkerHandlerInv, AssemblerInv,
     DataInv
<1> QED
  BY <1>1, LineInvariant, PTL

----
(* The connections that await a handler, and those that have one.          *)
Queued == Range(queue["workers"]) \ {Stop}
Served == {workerHandler[k].worker : k \in WorkerHandlers} \ {Nothing}

(* A connection has one owner: MasterServer, a place in the queue, or one  *)
(* WorkerConnectionHandler.  Were there two, the first to drop it would    *)
(* take it out of the pool under the other.                                *)
QueuedOnce ==
    \A i, j \in DOMAIN queue["workers"] :
        queue["workers"][i] = queue["workers"][j] /\ queue["workers"][i] # Stop => i = j

ServedOnce ==
    \A k1, k2 \in WorkerHandlers :
        workerHandler[k1].worker = workerHandler[k2].worker
        /\ workerHandler[k1].worker # Nothing => k1 = k2

OwnersDiffer ==
    /\ Queued \cap Served = {}
    /\ master.peer \notin Queued \cup Served

(* A worker connects once, so that what is owned is not accepted again.    *)
OwnedConnected ==
    \A w \in Queued \cup Served \cup ({master.peer} \ {Nothing}) : remote[w].state # "absent"

PoolInv ==
    /\ ServedWorkersArePooled
    /\ QueuedOnce /\ ServedOnce /\ OwnersDiffer /\ OwnedConnected

----
LEMMA OwnersType ==
    ASSUME TypeInv
    PROVE  /\ queue["workers"] \in Seq({Stop} \cup Workers)
           /\ Queued \subseteq Workers /\ Served \subseteq Workers
           /\ master.peer \in Workers \cup {Nothing}
           /\ Stop \notin Workers /\ Nothing \notin Workers
<1>1. queue["workers"] \in Seq({Stop} \cup Workers)
  BY Elements DEF TypeInv, SharedInv, QueueType, QueueNames
<1>2. Queued \subseteq Workers
  <2>1. \A i \in DOMAIN queue["workers"] : queue["workers"][i] \in {Stop} \cup Workers
    BY <1>1, ElementOfSeq
  <2> QED
    BY <2>1 DEF Queued, Range
<1>3. Served \subseteq Workers
  BY DEF Served, TypeInv, ThreadsInv, WorkerHandlerInv, WorkerHandlerType
<1>4. master.peer \in Workers \cup {Nothing}
  BY DEF TypeInv, ThreadsInv, MasterInv, MasterType
<1> QED
  BY <1>1, <1>2, <1>3, <1>4, LineAssumption

----
(* A step that moves no connection from one owner to another.              *)
NoneMoves ==
    /\ queue'["workers"] = queue["workers"]
    /\ \A k \in WorkerHandlers : workerHandler'[k].worker = workerHandler[k].worker
    /\ master'.peer = master.peer
    /\ master'.at = "handing" => master.at = "handing"
    /\ pool' = pool
    /\ \A w \in Workers : remote'[w].state = "absent" => remote[w].state = "absent"

LEMMA NoneMovesPool ==
    ASSUME TypeInv, PoolInv, NoneMoves
    PROVE  PoolInv'
<1>1. Queued' = Queued /\ Served' = Served
  BY DEF NoneMoves, Queued, Served
<1>2. ServedWorkersArePooled'
  BY <1>1 DEF NoneMoves, PoolInv, ServedWorkersArePooled, Queued, Served
<1>3. QueuedOnce'
  BY DEF NoneMoves, PoolInv, QueuedOnce
<1>4. ServedOnce'
  BY DEF NoneMoves, PoolInv, ServedOnce
<1>5. OwnersDiffer'
  BY <1>1 DEF NoneMoves, PoolInv, OwnersDiffer
<1>6. OwnedConnected'
  BY <1>1, OwnersType DEF NoneMoves, PoolInv, OwnedConnected
<1> QED
  BY <1>2, <1>3, <1>4, <1>5, <1>6 DEF PoolInv

LEMMA OtherQueues ==
    ASSUME TypeInv, NEW q \in QueueNames \ {"workers"}, NEW e, Enqueue(q, e) \/ Dequeue(q, e)
    PROVE  queue'["workers"] = queue["workers"]
  BY DEF Enqueue, Dequeue, TypeInv, SharedInv, QueueType, QueueNames

LEMMA NoneForgotten ==
    ASSUME TypeInv
    PROVE  /\ \A W \in SUBSET Workers, m \in Units \cup {Stop} :
                 Remote!Send(W, m) => \A w \in Workers : remote'[w].state = remote[w].state
           /\ \A x \in Workers :
                 Remote!Receive(x) => \A w \in Workers : remote'[w].state = remote[w].state
           /\ \A x \in Workers :
                 Remote!Works(x) \/ Remote!Crash(x) =>
                    \A w \in Workers : remote'[w].state = "absent" => remote[w].state = "absent"
<1>1. \A w \in Workers : remote[w] \in Remote!RemoteWorker
  BY DEF TypeInv, SharedInv, Remote!RemoteType
<1>2. DOMAIN remote = Workers
  BY DEF TypeInv, SharedInv, Remote!RemoteType
<1>3. ASSUME NEW W \in SUBSET Workers, NEW m \in Units \cup {Stop}, Remote!Send(W, m),
             NEW w \in Workers
      PROVE  remote'[w].state = remote[w].state
  BY <1>1, <1>3 DEF Remote!Send, Remote!RemoteWorker
<1>4. ASSUME NEW x \in Workers, Remote!Receive(x), NEW w \in Workers
      PROVE  remote'[w].state = remote[w].state
  BY <1>1, <1>2, <1>4 DEF Remote!Receive, Remote!RemoteWorker
<1>5. ASSUME NEW x \in Workers, Remote!Works(x) \/ Remote!Crash(x), NEW w \in Workers,
             remote'[w].state = "absent"
      PROVE  remote[w].state = "absent"
  <2>1. CASE w # x
    BY <1>2, <1>5, <2>1 DEF Remote!Works, Remote!TakeUnit, Remote!TakeStop, Remote!Leave,
       Remote!Answer, Remote!Crash
  <2>2. CASE w = x
    <3>1. CASE Remote!TakeUnit(x) \/ Remote!TakeStop(x) \/ Remote!Leave(x)
      BY <1>1, <1>2, <1>5, <2>2, <3>1 DEF Remote!TakeUnit, Remote!TakeStop, Remote!Leave,
         Remote!RemoteWorker
    <3>2. ASSUME NEW u \in Units, Remote!Answer(x, u) PROVE remote[w].state = "absent"
      BY <1>1, <1>2, <1>5, <2>2, <3>2 DEF Remote!Answer, Remote!RemoteWorker
    <3>3. CASE Remote!Crash(x)
      BY <1>2, <1>5, <2>2, <3>3 DEF Remote!Crash
    <3> QED
      BY <1>5, <3>1, <3>2, <3>3 DEF Remote!Works
  <2> QED
    BY <2>1, <2>2
<1> QED
  BY <1>3, <1>4, <1>5

(* Every step but those of MasterServer and the WorkerConnectionHandlers,  *)
(* and some of theirs, moves no connection.                                *)
LEMMA MostMoveNone ==
    ASSUME TypeInv
    PROVE  /\ MainSteps \/ HandleSignal => NoneMoves
           /\ MasterListens \/ MasterFails \/ MasterEnds => NoneMoves
           /\ \A h \in Handlers :
                 /\ HandlerWorks(h) \/ HandlerLeaves(h) => NoneMoves
                 /\ \A r \in Requests :
                       HandlerAnswers(h, r) \/ HandlerCreates(h, r) => NoneMoves
           /\ DecomposerWorks \/ DistributorWorks => NoneMoves
           /\ AssemblerWorks \/ ResponderWorks => NoneMoves
           /\ \A c \in Calculators : CalculatorWorks(c) => NoneMoves
           /\ \A k \in WorkerHandlers :
                 WorkerHandlerReads(k) \/ WorkerHandlerProduces(k) \/ WorkerHandlerHalts(k)
                     => NoneMoves
           /\ \A w \in Workers : WorkerWorks(w) \/ WorkerCrashes(w) => NoneMoves
           /\ UNCHANGED vars => NoneMoves
<1>1. MainSteps \/ HandleSignal => NoneMoves
  BY OtherQueues DEF MainSteps, MainAccepts, MainHands, MainFailsToAccept, MainStops,
     MainJoins, HandleSignal, OnlyMain, threads, NoneMoves, QueueNames
<1>2. MasterListens \/ MasterFails \/ MasterEnds => NoneMoves
  BY DEF MasterListens, MasterFails, MasterEnds, OnlyMaster, NoneMoves, TypeInv, ThreadsInv,
     MasterInv, MasterType
<1>3. ASSUME NEW h \in Handlers PROVE HandlerWorks(h) \/ HandlerLeaves(h) => NoneMoves
  BY OtherQueues DEF HandlerWorks, HandlerTakes, HandlerProduces, HandlerHalts,
     HandlerLeaves, OnlyHandler, NoneMoves, QueueNames
<1>4. ASSUME NEW h \in Handlers, NEW r \in Requests
      PROVE  HandlerAnswers(h, r) \/ HandlerCreates(h, r) => NoneMoves
  BY DEF HandlerAnswers, HandlerCreates, OnlyHandler, NoneMoves
<1>5. DecomposerWorks => NoneMoves
  BY OtherQueues DEF DecomposerWorks, DecomposerTakes, DecomposerProduces, DecomposerHalts,
     OnlyDecomposer, NoneMoves, QueueNames
<1>6. DistributorWorks => NoneMoves
  <2>1. CASE DistributorTakes \/ DistributorProduces \/ DistributorHalts
    BY <2>1, OtherQueues DEF DistributorTakes, DistributorProduces, DistributorHalts,
       OnlyDistributor, NoneMoves, QueueNames
  <2>2. CASE DistributorFindsNobody \/ \E w \in Workers : DistributorChooses(w)
    BY <2>2 DEF DistributorFindsNobody, DistributorChooses, OnlyDistributor, NoneMoves
  <2>3. CASE DistributorSends
    <3>1. distributor.worker \in Workers /\ distributor.unit \in Units
      BY <2>3 DEF DistributorSends, TypeInv, ThreadsInv, DistributorInv
    <3> QED
      BY <2>3, <3>1, NoneForgotten DEF DistributorSends, OnlyDistributor, NoneMoves
  <2>4. CASE DistributorStopsWorkers
    BY <2>4, NoneForgotten DEF DistributorStopsWorkers, OnlyDistributor, NoneMoves,
       TypeInv, SharedInv
  <2> QED
    BY <2>1, <2>2, <2>3, <2>4 DEF DistributorWorks
<1>7. AssemblerWorks \/ ResponderWorks => NoneMoves
  BY OtherQueues DEF AssemblerWorks, AssemblerMarks, AssemblerCountsStop, AssemblerProduces,
     AssemblerHalts, OnlyAssembler, ResponderWorks, ResponderAnswers, ResponderEnds,
     OnlyResponder, NoneMoves, QueueNames
<1>8. ASSUME NEW c \in Calculators PROVE CalculatorWorks(c) => NoneMoves
  BY OtherQueues DEF CalculatorWorks, CalculatorProcesses, CalculatorProduces,
     CalculatorHalts, OnlyCalculator, NoneMoves, QueueNames
<1>9. ASSUME NEW k \in WorkerHandlers, WorkerHandlerReads(k) PROVE NoneMoves
  <2>1. workerHandler[k].worker \in Workers
    BY <1>9 DEF WorkerHandlerReads, TypeInv, ThreadsInv, WorkerHandlerInv
  <2> QED
    BY <1>9, <2>1, NoneForgotten DEF WorkerHandlerReads, OnlyWorkerHandler, NoneMoves,
       TypeInv, ThreadsInv, WorkerHandlerInv, WorkerHandlerType
<1>10. ASSUME NEW k \in WorkerHandlers, WorkerHandlerProduces(k) \/ WorkerHandlerHalts(k)
       PROVE  NoneMoves
  <2>1. queue'["workers"] = queue["workers"]
    BY <1>10, OtherQueues DEF WorkerHandlerProduces, WorkerHandlerHalts, QueueNames
  <2>2. \A x \in WorkerHandlers : workerHandler'[x].worker = workerHandler[x].worker
    <3>1. WorkerHandlerType
      BY DEF TypeInv, ThreadsInv, WorkerHandlerInv
    <3>2. CASE WorkerHandlerProduces(k)
      BY <3>1, <3>2 DEF WorkerHandlerProduces, WorkerHandlerType
    <3>3. CASE WorkerHandlerHalts(k)
      BY <3>1, <3>3 DEF WorkerHandlerHalts, WorkerHandlerType
    <3> QED
      BY <1>10, <3>2, <3>3
  <2> QED
    BY <1>10, <2>1, <2>2 DEF WorkerHandlerProduces, WorkerHandlerHalts, OnlyWorkerHandler,
       NoneMoves
<1>11. ASSUME NEW w \in Workers, WorkerWorks(w) \/ WorkerCrashes(w) PROVE NoneMoves
  BY <1>11, NoneForgotten DEF WorkerWorks, WorkerCrashes, OnlyRemote, threads, NoneMoves
<1>12. UNCHANGED vars => NoneMoves
  BY DEF vars, threads, NoneMoves
<1> QED
  BY <1>1, <1>2, <1>3, <1>4, <1>5, <1>6, <1>7, <1>8, <1>9, <1>10, <1>11, <1>12

----
(* MasterServer accepts a worker, which nobody owns, and admits it.        *)
LEMMA MasterAcceptsPool ==
    ASSUME TypeInv, PoolInv, NEW w \in Workers, MasterAccepts(w)
    PROVE  PoolInv'
<1>1. Queued' = Queued /\ Served' = Served /\ master'.peer = w /\ master'.at = "admitting"
  BY DEF MasterAccepts, OnlyMaster, Queued, Served, TypeInv, ThreadsInv, MasterInv, MasterType
<1>2. w \notin Queued \cup Served
  BY OwnersType DEF MasterAccepts, Remote!Connect, PoolInv, OwnedConnected
<1>3. \A x \in Workers : remote'[x].state = "absent" => remote[x].state = "absent" /\ x # w
  BY DEF MasterAccepts, Remote!Connect, TypeInv, SharedInv, Remote!RemoteType,
     Remote!RemoteWorker
<1>4. ServedWorkersArePooled'
  BY <1>1 DEF MasterAccepts, OnlyMaster, PoolInv, ServedWorkersArePooled
<1>5. QueuedOnce' /\ ServedOnce'
  BY DEF MasterAccepts, OnlyMaster, PoolInv, QueuedOnce, ServedOnce
<1>6. OwnersDiffer'
  BY <1>1, <1>2 DEF PoolInv, OwnersDiffer
<1>7. OwnedConnected'
  BY <1>1, <1>3, OwnersType DEF PoolInv, OwnedConnected
<1> QED
  BY <1>4, <1>5, <1>6, <1>7 DEF PoolInv

LEMMA MasterAdmitsPool ==
    ASSUME TypeInv, PoolInv, MasterAdmits \/ MasterRejects
    PROVE  PoolInv'
<1>1. Queued' = Queued /\ Served' = Served /\ UNCHANGED <<queue, workerHandler, remote>>
  BY DEF MasterAdmits, MasterRejects, OnlyMaster, Queued, Served
<1>2. \/ master'.peer = master.peer /\ master'.at = "handing" /\ pool' = pool \cup {master.peer}
      \/ master'.peer = Nothing /\ master'.at = "accepting" /\ pool' = pool
  BY DEF MasterAdmits, MasterRejects, TypeInv, ThreadsInv, MasterInv, MasterType
<1>3. ServedWorkersArePooled'
  BY <1>1, <1>2 DEF PoolInv, ServedWorkersArePooled
<1>4. QueuedOnce' /\ ServedOnce'
  BY <1>1 DEF PoolInv, QueuedOnce, ServedOnce
<1>5. OwnersDiffer'
  BY <1>1, <1>2, OwnersType DEF PoolInv, OwnersDiffer
<1>6. OwnedConnected'
  BY <1>1, <1>2 DEF PoolInv, OwnedConnected
<1> QED
  BY <1>3, <1>4, <1>5, <1>6 DEF PoolInv

(* MasterServer queues its connection, or a stop condition.                *)
LEMMA MasterQueuesPool ==
    ASSUME TypeInv, PoolInv, MasterHands \/ MasterStops
    PROVE  PoolInv'
<1> DEFINE s == queue["workers"]
           e == IF master.at = "handing" THEN master.peer ELSE Stop
<1>1. e \in {Stop} \cup Workers /\ (e # Stop => e = master.peer /\ e \in pool)
  BY DEF MasterHands, MasterStops, TypeInv, ThreadsInv, MasterInv, PoolInv,
     ServedWorkersArePooled
<1>2. queue'["workers"] = Append(s, e)
  BY DEF MasterHands, MasterStops, Enqueue, TypeInv, SharedInv, QueueType, QueueNames
<1>3. UNCHANGED <<workerHandler, pool, remote>> /\ Served' = Served
  BY DEF MasterHands, MasterStops, OnlyMaster, Served
<1>4. /\ master'.at # "handing" /\ master'.peer \in {master.peer, Nothing}
      /\ e # Stop => master'.peer = Nothing
  BY OwnersType DEF MasterHands, MasterStops, TypeInv, ThreadsInv, MasterInv, MasterType
<1>5. Range(queue'["workers"]) = Range(s) \cup {e} /\ Queued' = Queued \cup ({e} \ {Stop})
  BY <1>1, <1>2, OwnersType, AppendRange DEF Queued
<1>6. ServedWorkersArePooled'
  BY <1>1, <1>3, <1>4, <1>5 DEF PoolInv, ServedWorkersArePooled
<1>7. QueuedOnce'
  <2>1. e # Stop => e \notin Range(s)
    BY <1>1 DEF PoolInv, OwnersDiffer, Queued
  <2>2. \A i \in DOMAIN s : s[i] \in Range(s)
    BY DEF Range
  <2>3. \A i \in DOMAIN Append(s, e) :
           \/ i \in DOMAIN s /\ Append(s, e)[i] = s[i]
           \/ i = Len(s) + 1 /\ Append(s, e)[i] = e
    BY <1>1, OwnersType, AppendRange
  <2> QED
    BY <1>2, <2>1, <2>2, <2>3 DEF PoolInv, QueuedOnce
<1>8. ServedOnce'
  BY <1>3 DEF PoolInv, ServedOnce
<1>9. OwnersDiffer'
  BY <1>1, <1>3, <1>4, <1>5, OwnersType DEF PoolInv, OwnersDiffer
<1>10. OwnedConnected'
  BY <1>1, <1>3, <1>4, <1>5, OwnersType DEF PoolInv, OwnedConnected
<1> QED
  BY <1>6, <1>7, <1>8, <1>9, <1>10 DEF PoolInv

(* A WorkerConnectionHandler takes a connection, or its stop condition.    *)
LEMMA HandlerTakesPool ==
    ASSUME TypeInv, PoolInv, NEW k \in WorkerHandlers, WorkerHandlerTakes(k)
    PROVE  PoolInv'
<1> DEFINE s == queue["workers"]
           e == Head(s)
<1>1. s # << >> /\ queue'["workers"] = Tail(s) /\ UNCHANGED <<master, pool, remote>>
  BY DEF WorkerHandlerTakes, OnlyWorkerHandler, Dequeue, TypeInv, SharedInv, QueueType,
     QueueNames
<1>2. \A x \in WorkerHandlers :
         workerHandler'[x].worker = IF x = k /\ e # Stop THEN e ELSE workerHandler[x].worker
  <2>1. workerHandler \in
           [WorkerHandlers -> [at : {"take", "read", "produce", "halt", "done"},
                               worker : Workers \cup {Nothing}, unit : Units \cup {Nothing}]]
    BY DEF TypeInv, ThreadsInv, WorkerHandlerInv, WorkerHandlerType
  <2>2. CASE e = Stop
    <3>1. workerHandler' = [workerHandler EXCEPT ![k].at = "halt"]
      BY <2>2, OwnersType DEF WorkerHandlerTakes, Dequeue
    <3> QED
      BY <2>1, <2>2, <3>1
  <2>3. CASE e # Stop
    <3>1. workerHandler' = [workerHandler EXCEPT ![k] =
             [workerHandler[k] EXCEPT !.at = "read", !.worker = e]]
      BY <2>3 DEF WorkerHandlerTakes, Dequeue
    <3> QED
      BY <2>1, <2>3, <3>1
  <2> QED
    BY <2>2, <2>3
<1>3. /\ Range(Tail(s)) \subseteq Range(s) /\ e \in Range(s)
      /\ \A i \in DOMAIN Tail(s) : i + 1 \in DOMAIN s /\ Tail(s)[i] = s[i + 1]
      /\ 1 \in DOMAIN s /\ e = s[1]
      /\ \A i \in DOMAIN Tail(s) : i \in Nat /\ i + 1 # 1
  BY <1>1, OwnersType, TailRange
<1>4. Queued' \subseteq Queued /\ Served' \subseteq Served \cup ({e} \ {Stop})
  BY <1>1, <1>2, <1>3 DEF Queued, Served
<1>5. e # Stop => e \notin Queued' /\ e \in Queued /\ e \notin Served /\ e # master.peer
  <2>1. e # Stop => \A i \in DOMAIN Tail(s) : Tail(s)[i] # e
    BY <1>3 DEF PoolInv, QueuedOnce
  <2>2. e # Stop => e \notin Queued'
    BY <1>1, <2>1 DEF Queued, Range
  <2> QED
    BY <1>3, <2>2 DEF Queued, PoolInv, OwnersDiffer
<1>6. ServedWorkersArePooled'
  BY <1>1, <1>4, <1>5 DEF PoolInv, ServedWorkersArePooled, Queued, Served
<1>7. QueuedOnce'
  <2>1. \A i, j \in DOMAIN Tail(s) : i + 1 = j + 1 => i = j
    BY <1>3
  <2> QED
    BY <1>1, <1>3, <2>1 DEF PoolInv, QueuedOnce
<1>8. ServedOnce'
  <2>1. \A x \in WorkerHandlers : workerHandler[x].worker # Nothing =>
           workerHandler[x].worker \in Served
    BY DEF Served
  <2> QED
    BY <1>2, <1>5, <2>1 DEF PoolInv, ServedOnce
<1>9. OwnersDiffer'
  BY <1>1, <1>4, <1>5 DEF PoolInv, OwnersDiffer
<1>10. OwnedConnected'
  BY <1>1, <1>4, <1>5 DEF PoolInv, OwnedConnected
<1> QED
  BY <1>6, <1>7, <1>8, <1>9, <1>10 DEF PoolInv

(* A WorkerConnectionHandler drops its connection, and the pool does.      *)
LEMMA HandlerDropsPool ==
    ASSUME TypeInv, PoolInv, NEW k \in WorkerHandlers, WorkerHandlerDrops(k)
    PROVE  PoolInv'
<1> DEFINE w == workerHandler[k].worker
<1>1. w \in Workers
  BY DEF WorkerHandlerDrops, TypeInv, ThreadsInv, WorkerHandlerInv
<1>2. UNCHANGED <<master, queue>> /\ pool' = pool \ {w} /\ Queued' = Queued
  BY DEF WorkerHandlerDrops, OnlyWorkerHandler, Queued
<1>3. \A x \in Workers : remote'[x].state = remote[x].state
  BY <1>1, NoneForgotten DEF WorkerHandlerDrops
<1>4. \A x \in WorkerHandlers :
         workerHandler'[x].worker = IF x = k THEN Nothing ELSE workerHandler[x].worker
  BY DEF WorkerHandlerDrops, TypeInv, ThreadsInv, WorkerHandlerInv, WorkerHandlerType
<1>5. Served' = Served \ {w} /\ w \in Served
  BY <1>1, <1>4, OwnersType DEF Served, PoolInv, ServedOnce
<1>6. ServedWorkersArePooled'
  <2>1. Queued' \subseteq pool' /\ Served' \subseteq pool'
    BY <1>2, <1>5 DEF PoolInv, ServedWorkersArePooled, OwnersDiffer, Queued, Served
  <2>2. master'.at = "handing" => master'.peer \in pool'
    BY <1>2, <1>5 DEF PoolInv, ServedWorkersArePooled, OwnersDiffer
  <2> QED
    BY <2>1, <2>2 DEF ServedWorkersArePooled, Queued, Served
<1>7. QueuedOnce'
  BY <1>2 DEF PoolInv, QueuedOnce
<1>8. ServedOnce'
  BY <1>4 DEF PoolInv, ServedOnce
<1>9. OwnersDiffer'
  BY <1>2, <1>5 DEF PoolInv, OwnersDiffer
<1>10. OwnedConnected'
  BY <1>2, <1>3, <1>5, OwnersType DEF PoolInv, OwnedConnected
<1> QED
  BY <1>6, <1>7, <1>8, <1>9, <1>10 DEF PoolInv

----
LEMMA PoolInit == Init => PoolInv
<1> SUFFICES ASSUME Init PROVE PoolInv
  OBVIOUS
<1>1. queue["workers"] = << >> /\ Range(queue["workers"]) = {} /\ Queued = {}
  BY DEF Init, QueueNames, Queued, Range
<1>2. Served = {} /\ master.peer = Nothing /\ master.at = "starting"
  BY DEF Init, Served
<1>3. ServedWorkersArePooled
  BY <1>1, <1>2 DEF ServedWorkersArePooled, Served
<1>4. QueuedOnce
  BY <1>1 DEF QueuedOnce
<1>5. ServedOnce
  BY DEF Init, ServedOnce
<1>6. OwnersDiffer /\ OwnedConnected
  BY <1>1, <1>2 DEF OwnersDiffer, OwnedConnected
<1> QED
  BY <1>3, <1>4, <1>5, <1>6 DEF PoolInv

LEMMA PoolStep == TypeInv /\ PoolInv /\ [Next]_vars => PoolInv'
<1> SUFFICES ASSUME TypeInv, PoolInv, [Next]_vars PROVE PoolInv'
  OBVIOUS
<1>1. CASE NoneMoves
  BY <1>1, NoneMovesPool
<1>2. CASE MasterSteps
  <2>1. CASE MasterListens \/ MasterFails \/ MasterEnds
    BY <1>1, <2>1, MostMoveNone
  <2>2. ASSUME NEW w \in Workers, MasterAccepts(w) PROVE PoolInv'
    BY <2>2, MasterAcceptsPool
  <2>3. CASE MasterAdmits \/ MasterRejects
    BY <2>3, MasterAdmitsPool
  <2>4. CASE MasterHands \/ MasterStops
    BY <2>4, MasterQueuesPool
  <2> QED
    BY <1>2, <2>1, <2>2, <2>3, <2>4 DEF MasterSteps
<1>3. ASSUME NEW k \in WorkerHandlers, WorkerHandlerWorks(k) PROVE PoolInv'
  <2>1. CASE WorkerHandlerTakes(k)
    BY <2>1, HandlerTakesPool
  <2>2. CASE WorkerHandlerDrops(k)
    BY <2>2, HandlerDropsPool
  <2>3. CASE WorkerHandlerReads(k) \/ WorkerHandlerProduces(k) \/ WorkerHandlerHalts(k)
    BY <1>1, <2>3, MostMoveNone
  <2> QED
    BY <1>3, <2>1, <2>2, <2>3 DEF WorkerHandlerWorks
<1> QED
  BY <1>1, <1>2, <1>3, MostMoveNone DEF Next, Finished

(* Every connection that is queued for a WorkerConnectionHandler or served *)
(* by one is in the pool, so that WorkerConnections::removeSocket() never  *)
(* erases end(); it is in the hands of one thread, which removes it once.  *)
THEOREM ServedArePooled == Spec => []ServedWorkersArePooled
<1>1. Init => PoolInv
  BY PoolInit
<1>2. TypeInv /\ PoolInv /\ [Next]_vars => PoolInv'
  BY PoolStep
<1>3. PoolInv => ServedWorkersArePooled
  BY DEF PoolInv
<1> QED
  BY <1>1, <1>2, <1>3, LineInvariant, PTL DEF Spec

---------------------------------------------------------------------------
(* Where each data unit is *)

(* What may hold a unit, and the owners of each kind of holder.  A unit is *)
(* computed on its way from the holders of the first line to the others.   *)
Kinds == {"queue", "decomposer", "distributor", "inbox", "held", "outbox",
          "calculator", "workerHandler"}

Owners ==
    [queue |-> UnitQueues, decomposer |-> {"units"}, distributor |-> {"unit"},
     inbox |-> Workers, held |-> Workers, outbox |-> Workers,
     calculator |-> Calculators, workerHandler |-> WorkerHandlers]

Computed(kind, owner) ==
    \/ kind \in {"calculator", "workerHandler"}
    \/ kind = "queue" /\ owner = "assembler"

(* The units that each of them holds.                                      *)
holds ==
    [queue |-> [q \in UnitQueues |-> Range(queue[q]) \ {Stop}],
     decomposer |-> [x \in {"units"} |-> Range(decomposer.units)],
     distributor |-> [x \in {"unit"} |-> {distributor.unit} \ {Nothing}],
     inbox |-> [w \in Workers |-> Range(remote[w].inbox) \ {Stop}],
     held |-> [w \in Workers |-> remote[w].held],
     outbox |-> [w \in Workers |-> Range(remote[w].outbox) \ {Stop}],
     calculator |-> [c \in Calculators |-> {calculator[c].unit} \ {Nothing}],
     workerHandler |-> [k \in WorkerHandlers |-> {workerHandler[k].unit} \ {Nothing}]]

(* Two holders have no unit in common.                                     *)
Apart(H) ==
    \A k1, k2 \in Kinds : \A o1 \in Owners[k1], o2 \in Owners[k2] :
        k1 # k2 \/ o1 # o2 => H[k1][o1] \cap H[k2][o2] = {}

Flying(H) == {u \in Units : \E k \in Kinds : \E o \in Owners[k] : u \in H[k][o]}

(* The result of a unit is stored when, and only when, it is computed.     *)
Stored(H, D) ==
    \A k \in Kinds : \A o \in Owners[k] : \A u \in H[k][o] :
        u[2] \in D[u[1]].results <=> Computed(k, o)

SequencesInv ==
    /\ \A q \in UnitQueues \cup DataQueues : Distinct(Stop, queue[q])
    /\ Distinct(Stop, decomposer.units)
    /\ \A w \in Workers : Distinct(Stop, remote[w].inbox) /\ Distinct(Stop, remote[w].outbox)

(* A thread that has passed on what it took holds nothing.                 *)
SlotsInv ==
    /\ \A h \in Handlers : handler[h].at # "produce" => handler[h].data = Nothing
    /\ decomposer.at # "produce" => decomposer.units = << >>
    /\ distributor.at \notin {"choose", "send", "produce"} => distributor.unit = Nothing
    /\ \A c \in Calculators : calculator[c].at # "produce" => calculator[c].unit = Nothing
    /\ \A k \in WorkerHandlers :
          workerHandler[k].at # "produce" => workerHandler[k].unit = Nothing
    /\ assembler.at # "produce" => assembler.unit = Nothing

(* A request has one owner before it is decomposed, and one when it is to  *)
(* be answered.                                                            *)
OneOwner ==
    /\ \A h1, h2 \in Handlers :
          handler[h1].data = handler[h2].data /\ handler[h1].data # Nothing => h1 = h2
    /\ \A h \in Handlers :
          handler[h].data # Nothing => handler[h].data \notin Range(queue["decomposer"])
    /\ assembler.unit # Nothing => assembler.unit[1] \notin Range(queue["responder"])

(* The units of a request that the ResponseAssembler has not seen: those   *)
(* in flight, and those whose result a crashed worker took with it.        *)
Unfinished(H, D, r) == {u \in UnitsOf(r) : u \in Flying(H) \/ u[2] \notin D[r].results}

(* What is true of a request by its phase.  whole: it is yet to be         *)
(* decomposed; ready: it is to be answered.                                *)
RequestInv(H, D, r, whole, ready) ==
    /\ D[r].results \subseteq 1 .. Queries[r]
    /\ D[r].phase # "live" => ~whole /\ ~ready /\ UnitsOf(r) \cap Flying(H) = {}
    /\ D[r].phase = "unseen" => D[r].results = {}
    /\ whole => D[r].results = {} /\ UnitsOf(r) \cap Flying(H) = {}
    /\ D[r].phase = "live" =>
          /\ Queries[r] > 0
          /\ D[r].pending = Cardinality(Unfinished(H, D, r))
          /\ D[r].pending = 0 <=> ready

RequestsInv ==
    \A r \in Requests : RequestInv(holds, data, r, Undecomposed(r), r \in ToRespond)

UnitInv ==
    /\ SlotsInv /\ SequencesInv /\ OneOwner
    /\ Apart(holds) /\ Stored(holds, data) /\ RequestsInv

(* No unit is lost while no worker has crashed.  The Distributor sends to  *)
(* workers that listen: they stop after it has told them to.               *)
Crashed == \E w \in Workers : remote[w].state = "crashed"

ListenInv ==
    /\ \A w \in pool \cup ({distributor.worker} \ {Nothing}) : remote[w].state # "absent"
    /\ distributor.at \notin {"halt", "done"} =>
          \A w \in Workers :
              /\ remote[w].state \in {"absent", "serving", "crashed"}
              /\ Stop \notin Range(remote[w].inbox)

NoneLost ==
    \A r \in Requests :
        data[r].phase = "live" /\ ~Undecomposed(r) =>
            \A u \in UnitsOf(r) : u \in Flying(holds) \/ u[2] \in data[r].results

LossInv == ListenInv /\ (Crashed \/ NoneLost)

----
(* Units that move from a holder to another.                               *)
Moves(H, G, u, k1, o1, k2, o2) ==
    /\ k1 \in Kinds /\ o1 \in Owners[k1] /\ k2 \in Kinds /\ o2 \in Owners[k2]
    /\ k1 # k2 \/ o1 # o2
    /\ u \in H[k1][o1]
    /\ \A k \in Kinds : \A o \in Owners[k] :
          G[k][o] = IF k = k1 /\ o = o1 THEN H[k][o] \ {u}
                    ELSE IF k = k2 /\ o = o2 THEN H[k][o] \cup {u}
                    ELSE H[k][o]

(* Who holds what after a move.                                            *)
LEMMA MovesWhere ==
    ASSUME NEW H, NEW G, NEW u, NEW k1, NEW o1, NEW k2, NEW o2,
           Apart(H), Moves(H, G, u, k1, o1, k2, o2),
           NEW k \in Kinds, NEW o \in Owners[k], NEW v
    PROVE  v \in G[k][o] <=> IF v = u THEN k = k2 /\ o = o2 ELSE v \in H[k][o]
<1>1. u \in H[k][o] => k = k1 /\ o = o1
  BY DEF Apart, Moves
<1>2. G[k][o] = IF k = k1 /\ o = o1 THEN H[k][o] \ {u}
                ELSE IF k = k2 /\ o = o2 THEN H[k][o] \cup {u}
                ELSE H[k][o]
  BY DEF Moves
<1>3. k1 # k2 \/ o1 # o2
  BY DEF Moves
<1>4. CASE k = k1 /\ o = o1
  BY <1>2, <1>3, <1>4
<1>5. CASE ~(k = k1 /\ o = o1) /\ k = k2 /\ o = o2
  BY <1>2, <1>5
<1>6. CASE ~(k = k1 /\ o = o1) /\ ~(k = k2 /\ o = o2)
  BY <1>1, <1>2, <1>6
<1> QED
  BY <1>4, <1>5, <1>6

LEMMA MovesApart ==
    ASSUME NEW H, NEW G, NEW u, NEW k1, NEW o1, NEW k2, NEW o2,
           Apart(H), Moves(H, G, u, k1, o1, k2, o2)
    PROVE  Apart(G) /\ Flying(G) = Flying(H)
<1>2. \A k \in Kinds : \A o \in Owners[k] : \A v :
         v \in G[k][o] <=> IF v = u THEN k = k2 /\ o = o2 ELSE v \in H[k][o]
  BY MovesWhere
<1>3. Apart(G)
  BY <1>2 DEF Apart
<1>4. ASSUME NEW v \in Units PROVE v \in Flying(G) <=> v \in Flying(H)
  <2>1. CASE v = u
    BY <1>2, <2>1 DEF Flying, Moves
  <2>2. CASE v # u
    BY <1>2, <2>2 DEF Flying
  <2> QED
    BY <2>1, <2>2
<1> QED
  BY <1>3, <1>4 DEF Flying

LEMMA UnitsEqual == \A u, v \in Units : u[1] = v[1] /\ u[2] = v[2] => u = v
  BY DEF Units, UnitsOf

(* A result is stored when its unit moves from a holder that has yet to    *)
(* have it computed to one that has.                                       *)
LEMMA MovesStored ==
    ASSUME NEW H, NEW G, NEW u, NEW k1, NEW o1, NEW k2, NEW o2, NEW D, NEW E,
           \A k \in Kinds : \A o \in Owners[k] : H[k][o] \subseteq Units,
           Apart(H), Moves(H, G, u, k1, o1, k2, o2), Stored(H, D),
           \/ Computed(k1, o1) = Computed(k2, o2)
              /\ \A r \in Requests : E[r].results = D[r].results
           \/ Computed(k2, o2)
              /\ \A r \in Requests :
                    E[r].results = D[r].results \cup {x \in {u[2]} : r = u[1]}
    PROVE  Stored(G, E)
<1>1. \A k \in Kinds : \A o \in Owners[k] : \A v :
         v \in G[k][o] <=> IF v = u THEN k = k2 /\ o = o2 ELSE v \in H[k][o]
  BY MovesWhere
<1>2. \A k \in Kinds : \A o \in Owners[k] : \A v \in G[k][o] :
         v \in Units /\ v[1] \in Requests
  <2>1. u \in Units
    BY DEF Moves
  <2> QED
    BY <1>1, <2>1, UnitParts
<1>3. CASE Computed(k1, o1) = Computed(k2, o2)
           /\ \A r \in Requests : E[r].results = D[r].results
  <2>1. SUFFICES ASSUME NEW k \in Kinds, NEW o \in Owners[k], NEW v \in G[k][o]
                 PROVE  v[2] \in E[v[1]].results <=> Computed(k, o)
    BY DEF Stored
  <2>2. E[v[1]].results = D[v[1]].results
    BY <1>2, <1>3
  <2>3. CASE v = u
    BY <1>1, <1>3, <2>2, <2>3 DEF Moves, Stored
  <2>4. CASE v # u
    BY <1>1, <2>2, <2>4 DEF Stored
  <2> QED
    BY <2>3, <2>4
<1>4. CASE Computed(k2, o2)
           /\ \A r \in Requests :
                 E[r].results = D[r].results \cup {x \in {u[2]} : r = u[1]}
  <2>1. SUFFICES ASSUME NEW k \in Kinds, NEW o \in Owners[k], NEW v \in G[k][o]
                 PROVE  v[2] \in E[v[1]].results <=> Computed(k, o)
    BY DEF Stored
  <2>2. E[v[1]].results = D[v[1]].results \cup {x \in {u[2]} : v[1] = u[1]}
    BY <1>2, <1>4
  <2>3. CASE v = u
    BY <1>1, <1>4, <2>2, <2>3
  <2>4. CASE v # u
    <3>1. v[2] \in E[v[1]].results <=> v[2] \in D[v[1]].results
      BY <1>2, <2>2, <2>4, UnitsEqual DEF Moves
    <3>2. v \in H[k][o]
      BY <1>1, <2>4
    <3> QED
      BY <3>1, <3>2 DEF Stored
  <2> QED
    BY <2>3, <2>4
<1> QED
  BY <1>3, <1>4

----
(* Which steps change the state of a thread.                               *)
LEMMA ThreadSteps ==
    ASSUME [Next]_vars
    PROVE  /\ \/ UNCHANGED handler
              \/ \E h \in Handlers :
                    \/ HandlerWorks(h) \/ HandlerLeaves(h)
                    \/ \E r \in Requests : HandlerCreates(h, r)
           /\ UNCHANGED decomposer \/ DecomposerWorks
           /\ UNCHANGED distributor \/ DistributorWorks
           /\ UNCHANGED calculator \/ \E c \in Calculators : CalculatorWorks(c)
           /\ UNCHANGED workerHandler \/ \E k \in WorkerHandlers : WorkerHandlerWorks(k)
           /\ UNCHANGED assembler \/ AssemblerWorks
           /\ UNCHANGED main \/ MainSteps
           /\ UNCHANGED master \/ MasterSteps
<1>1. CASE MainSteps
  BY <1>1 DEF MainSteps, MainAccepts, MainHands, MainFailsToAccept, MainStops, MainJoins,
     OnlyMain
<1>2. CASE HandleSignal
  BY <1>2 DEF HandleSignal, threads
<1>3. CASE MasterSteps
  BY <1>3 DEF MasterSteps, MasterListens, MasterAdmits, MasterRejects, MasterHands,
     MasterFails, MasterStops, MasterEnds, MasterAccepts, OnlyMaster
<1>4. ASSUME NEW h \in Handlers, HandlerWorks(h) \/ HandlerLeaves(h)
      PROVE  UNCHANGED <<main, master, decomposer, distributor, calculator, workerHandler,
                         assembler>>
  BY <1>4 DEF HandlerWorks, HandlerTakes, HandlerProduces, HandlerHalts, HandlerLeaves,
     OnlyHandler
<1>5. ASSUME NEW h \in Handlers, NEW r \in Requests, HandlerAnswers(h, r) \/ HandlerCreates(h, r)
      PROVE  UNCHANGED <<main, master, decomposer, distributor, calculator, workerHandler,
                         assembler>>
             /\ (UNCHANGED handler \/ HandlerCreates(h, r))
  BY <1>5 DEF HandlerAnswers, HandlerCreates, OnlyHandler
<1>6. CASE DecomposerWorks
  BY <1>6 DEF DecomposerWorks, DecomposerTakes, DecomposerProduces, DecomposerHalts,
     OnlyDecomposer
<1>7. CASE DistributorWorks
  BY <1>7 DEF DistributorWorks, DistributorTakes, DistributorFindsNobody, DistributorChooses,
     DistributorSends, DistributorProduces, DistributorStopsWorkers, DistributorHalts,
     OnlyDistributor
<1>8. CASE AssemblerWorks
  BY <1>8 DEF AssemblerWorks, AssemblerMarks, AssemblerCountsStop, AssemblerProduces,
     AssemblerHalts, OnlyAssembler
<1>9. CASE ResponderWorks
  BY <1>9 DEF ResponderWorks, ResponderAnswers, ResponderEnds, OnlyResponder
<1>10. ASSUME NEW c \in Calculators, CalculatorWorks(c)
       PROVE  UNCHANGED <<main, master, handler, decomposer, distributor, workerHandler,
                          assembler>>
  BY <1>10 DEF CalculatorWorks, CalculatorProcesses, CalculatorProduces, CalculatorHalts,
     OnlyCalculator
<1>11. ASSUME NEW k \in WorkerHandlers, WorkerHandlerWorks(k)
       PROVE  UNCHANGED <<main, master, handler, decomposer, distributor, calculator,
                          assembler>>
  BY <1>11 DEF WorkerHandlerWorks, WorkerHandlerTakes, WorkerHandlerReads,
     WorkerHandlerProduces, WorkerHandlerDrops, WorkerHandlerHalts, OnlyWorkerHandler
<1>12. ASSUME NEW w \in Workers, WorkerWorks(w) \/ WorkerCrashes(w)
       PROVE  UNCHANGED threads
  BY <1>12 DEF WorkerWorks, WorkerCrashes, OnlyRemote
<1>13. CASE UNCHANGED vars
  BY <1>13 DEF vars, threads
<1> QED
  BY <1>1, <1>2, <1>3, <1>4, <1>5, <1>6, <1>7, <1>8, <1>9, <1>10, <1>11, <1>12, <1>13
     DEF Next, Finished, threads

(* The positions of a thread at which it holds what it took.               *)
LEMMA SlotsStep == TypeInv /\ SlotsInv /\ [Next]_vars => SlotsInv'
<1> SUFFICES ASSUME TypeInv, SlotsInv, [Next]_vars PROVE SlotsInv'
  OBVIOUS
<1>1. (\A h \in Handlers : handler[h].at # "produce" => handler[h].data = Nothing)'
  <2>1. HandlerType
    BY DEF TypeInv, ThreadsInv, HandlerInv
  <2>2. ASSUME NEW h \in Handlers, HandlerTakes(h) \/ HandlerHalts(h) \/ HandlerLeaves(h)
        PROVE  \A x \in Handlers : handler'[x].at # "produce" => handler'[x].data = Nothing
    BY <2>1, <2>2 DEF HandlerTakes, HandlerHalts, HandlerLeaves, HandlerType, SlotsInv
  <2>3. ASSUME NEW h \in Handlers, HandlerProduces(h)
        PROVE  \A x \in Handlers : handler'[x].at # "produce" => handler'[x].data = Nothing
    BY <2>1, <2>3 DEF HandlerProduces, HandlerType, SlotsInv
  <2>4. ASSUME NEW h \in Handlers, NEW r \in Requests, HandlerCreates(h, r)
        PROVE  \A x \in Handlers : handler'[x].at # "produce" => handler'[x].data = Nothing
    BY <2>1, <2>4 DEF HandlerCreates, HandlerType, SlotsInv
  <2> QED
    BY <2>2, <2>3, <2>4, ThreadSteps DEF HandlerWorks, SlotsInv
<1>2. (decomposer.at # "produce" => decomposer.units = << >>)'
  <2>1. decomposer.units \in Seq(Units)
    BY DEF TypeInv, ThreadsInv, DecomposerInv, DecomposerType
  <2>2. CASE DecomposerTakes
    BY <2>2 DEF DecomposerTakes, SlotsInv, TypeInv, ThreadsInv, DecomposerInv, DecomposerType
  <2>3. CASE DecomposerProduces
    <3>1. Len(decomposer.units) = 1 => Tail(decomposer.units) = << >>
      <4>1. /\ Tail(decomposer.units) \in Seq(Units)
            /\ Len(Tail(decomposer.units)) = Len(decomposer.units) - 1
        BY <2>1, <2>3, HeadTailProperties DEF DecomposerProduces
      <4>2. Tail(decomposer.units) # << >> => Len(Tail(decomposer.units)) \in Nat \ {0}
        BY <4>1, EmptySeq
      <4> QED
        BY <4>1, <4>2
    <3> QED
      BY <2>3, <3>1 DEF DecomposerProduces, TypeInv, ThreadsInv, DecomposerInv, DecomposerType
  <2>4. CASE DecomposerHalts
    BY <2>4 DEF DecomposerHalts, SlotsInv, TypeInv, ThreadsInv, DecomposerInv, DecomposerType
  <2> QED
    BY <2>2, <2>3, <2>4, ThreadSteps DEF DecomposerWorks, SlotsInv
<1>3. (distributor.at \notin {"choose", "send", "produce"} => distributor.unit = Nothing)'
  <2>1. DistributorType
    BY DEF TypeInv, ThreadsInv, DistributorInv
  <2>2. CASE DistributorWorks
    BY <2>1, <2>2 DEF DistributorWorks, DistributorTakes, DistributorFindsNobody,
       DistributorChooses, DistributorSends, DistributorProduces, DistributorStopsWorkers,
       DistributorHalts, DistributorType, SlotsInv
  <2> QED
    BY <2>2, ThreadSteps DEF SlotsInv
<1>4. (\A c \in Calculators :
          calculator[c].at # "produce" => calculator[c].unit = Nothing)'
  <2>1. CalculatorType
    BY DEF TypeInv, ThreadsInv, CalculatorInv
  <2>2. ASSUME NEW c \in Calculators, CalculatorWorks(c)
        PROVE  \A x \in Calculators :
                  calculator'[x].at # "produce" => calculator'[x].unit = Nothing
    BY <2>1, <2>2 DEF CalculatorWorks, CalculatorProcesses, CalculatorProduces,
       CalculatorHalts, CalculatorType, SlotsInv
  <2> QED
    BY <2>2, ThreadSteps DEF SlotsInv
<1>5. (\A k \in WorkerHandlers :
          workerHandler[k].at # "produce" => workerHandler[k].unit = Nothing)'
  <2>1. WorkerHandlerType
    BY DEF TypeInv, ThreadsInv, WorkerHandlerInv
  <2>2. ASSUME NEW k \in WorkerHandlers, WorkerHandlerWorks(k)
        PROVE  \A x \in WorkerHandlers :
                  workerHandler'[x].at # "produce" => workerHandler'[x].unit = Nothing
    <3>1. CASE WorkerHandlerTakes(k)
      <4>1. \A x \in WorkerHandlers \ {k} : workerHandler'[x] = workerHandler[x]
        BY <2>1, <3>1 DEF WorkerHandlerTakes, WorkerHandlerType
      <4>2. workerHandler'[k].unit = workerHandler[k].unit
        BY <2>1, <3>1 DEF WorkerHandlerTakes, WorkerHandlerType
      <4>3. workerHandler[k].unit = Nothing
        BY <3>1 DEF WorkerHandlerTakes, SlotsInv
      <4> QED
        BY <4>1, <4>2, <4>3 DEF SlotsInv
    <3>2. CASE WorkerHandlerReads(k)
      BY <2>1, <3>2 DEF WorkerHandlerReads, WorkerHandlerType, SlotsInv
    <3>3. CASE WorkerHandlerProduces(k)
      BY <2>1, <3>3 DEF WorkerHandlerProduces, WorkerHandlerType, SlotsInv
    <3>4. CASE WorkerHandlerDrops(k)
      BY <2>1, <3>4 DEF WorkerHandlerDrops, WorkerHandlerType, SlotsInv
    <3>5. CASE WorkerHandlerHalts(k)
      BY <2>1, <3>5 DEF WorkerHandlerHalts, WorkerHandlerType, SlotsInv
    <3> QED
      BY <2>2, <3>1, <3>2, <3>3, <3>4, <3>5 DEF WorkerHandlerWorks
  <2> QED
    BY <2>2, ThreadSteps DEF SlotsInv
<1>6. (assembler.at # "produce" => assembler.unit = Nothing)'
  <2>1. AssemblerType
    BY DEF TypeInv, ThreadsInv, AssemblerInv
  <2>2. CASE AssemblerWorks
    BY <2>1, <2>2 DEF AssemblerWorks, AssemblerMarks, AssemblerCountsStop,
       AssemblerProduces, AssemblerHalts, AssemblerType, SlotsInv
  <2> QED
    BY <2>2, ThreadSteps DEF SlotsInv
<1> QED
  BY <1>1, <1>2, <1>3, <1>4, <1>5, <1>6 DEF SlotsInv


----
(* What the parts of holds are, before a step and after it.                *)
LEMMA HoldsAre ==
    /\ \A q \in UnitQueues : holds["queue"][q] = Range(queue[q]) \ {Stop}
    /\ holds["decomposer"]["units"] = Range(decomposer.units)
    /\ holds["distributor"]["unit"] = {distributor.unit} \ {Nothing}
    /\ \A w \in Workers :
          /\ holds["inbox"][w] = Range(remote[w].inbox) \ {Stop}
          /\ holds["held"][w] = remote[w].held
          /\ holds["outbox"][w] = Range(remote[w].outbox) \ {Stop}
    /\ \A c \in Calculators : holds["calculator"][c] = {calculator[c].unit} \ {Nothing}
    /\ \A k \in WorkerHandlers :
          holds["workerHandler"][k] = {workerHandler[k].unit} \ {Nothing}
  BY DEF holds

LEMMA HoldsAreNext ==
    /\ \A q \in UnitQueues : holds'["queue"][q] = Range(queue'[q]) \ {Stop}
    /\ holds'["decomposer"]["units"] = Range(decomposer'.units)
    /\ holds'["distributor"]["unit"] = {distributor'.unit} \ {Nothing}
    /\ \A w \in Workers :
          /\ holds'["inbox"][w] = Range(remote'[w].inbox) \ {Stop}
          /\ holds'["held"][w] = remote'[w].held
          /\ holds'["outbox"][w] = Range(remote'[w].outbox) \ {Stop}
    /\ \A c \in Calculators : holds'["calculator"][c] = {calculator'[c].unit} \ {Nothing}
    /\ \A k \in WorkerHandlers :
          holds'["workerHandler"][k] = {workerHandler'[k].unit} \ {Nothing}
  BY DEF holds

LEMMA OwnersAre ==
    /\ Owners["queue"] = UnitQueues /\ Owners["decomposer"] = {"units"}
    /\ Owners["distributor"] = {"unit"} /\ Owners["inbox"] = Workers
    /\ Owners["held"] = Workers /\ Owners["outbox"] = Workers
    /\ Owners["calculator"] = Calculators /\ Owners["workerHandler"] = WorkerHandlers
  BY DEF Owners

(* A kind of holder whose variable is left alone holds what it held.       *)
Keeps(K) == \A k \in K : \A o \in Owners[k] : holds'[k][o] = holds[k][o]

LEMMA HoldsKept ==
    /\ UNCHANGED queue => Keeps({"queue"})
    /\ UNCHANGED decomposer => Keeps({"decomposer"})
    /\ UNCHANGED distributor => Keeps({"distributor"})
    /\ UNCHANGED calculator => Keeps({"calculator"})
    /\ UNCHANGED workerHandler => Keeps({"workerHandler"})
    /\ UNCHANGED remote => Keeps({"inbox", "held", "outbox"})
<1>1. ASSUME UNCHANGED queue PROVE Keeps({"queue"})
  <2>1. \A q \in UnitQueues : holds'["queue"][q] = holds["queue"][q]
    BY <1>1, HoldsAre, HoldsAreNext
  <2> QED
    BY <2>1, OwnersAre DEF Keeps
<1>2. UNCHANGED decomposer => Keeps({"decomposer"})
  BY HoldsAre, HoldsAreNext, OwnersAre DEF Keeps
<1>3. UNCHANGED distributor => Keeps({"distributor"})
  BY HoldsAre, HoldsAreNext, OwnersAre DEF Keeps
<1>4. ASSUME UNCHANGED calculator PROVE Keeps({"calculator"})
  <2>1. \A c \in Calculators : holds'["calculator"][c] = holds["calculator"][c]
    BY <1>4, HoldsAre, HoldsAreNext
  <2> QED
    BY <2>1, OwnersAre DEF Keeps
<1>5. ASSUME UNCHANGED workerHandler PROVE Keeps({"workerHandler"})
  <2>1. \A k \in WorkerHandlers : holds'["workerHandler"][k] = holds["workerHandler"][k]
    BY <1>5, HoldsAre, HoldsAreNext
  <2> QED
    BY <2>1, OwnersAre DEF Keeps
<1>6. ASSUME UNCHANGED remote PROVE Keeps({"inbox", "held", "outbox"})
  <2>1. \A w \in Workers :
           /\ holds'["inbox"][w] = holds["inbox"][w]
           /\ holds'["held"][w] = holds["held"][w]
           /\ holds'["outbox"][w] = holds["outbox"][w]
    BY <1>6, HoldsAre, HoldsAreNext
  <2> QED
    BY <2>1, OwnersAre DEF Keeps
<1> QED
  BY <1>1, <1>2, <1>3, <1>4, <1>5, <1>6

LEMMA KeepsBut ==
    /\ UNCHANGED <<distributor, calculator, workerHandler, remote>> =>
          Keeps(Kinds \ {"queue", "decomposer"})
    /\ UNCHANGED <<decomposer, calculator, workerHandler, remote>> =>
          Keeps(Kinds \ {"queue", "distributor"})
    /\ UNCHANGED <<decomposer, distributor, workerHandler, remote>> =>
          Keeps(Kinds \ {"queue", "calculator"})
    /\ UNCHANGED <<decomposer, distributor, calculator, remote>> =>
          Keeps(Kinds \ {"queue", "workerHandler"})
    /\ UNCHANGED <<queue, decomposer, calculator, workerHandler>> =>
          Keeps(Kinds \ {"distributor", "inbox", "held", "outbox"})
    /\ UNCHANGED <<queue, decomposer, distributor, calculator>> =>
          Keeps(Kinds \ {"workerHandler", "inbox", "held", "outbox"})
    /\ UNCHANGED <<decomposer, distributor, calculator, workerHandler, remote>> =>
          Keeps(Kinds \ {"queue"})
    /\ UNCHANGED <<queue, decomposer, distributor, calculator, workerHandler>> =>
          Keeps(Kinds \ {"inbox", "held", "outbox"})
    /\ UNCHANGED <<queue, decomposer, distributor, calculator, workerHandler, remote>> =>
          Keeps(Kinds)
<1>1. UNCHANGED <<distributor, calculator, workerHandler, remote>> =>
         Keeps(Kinds \ {"queue", "decomposer"})
  BY HoldsKept DEF Keeps, Kinds
<1>2. UNCHANGED <<decomposer, calculator, workerHandler, remote>> =>
         Keeps(Kinds \ {"queue", "distributor"})
  BY HoldsKept DEF Keeps, Kinds
<1>3. UNCHANGED <<decomposer, distributor, workerHandler, remote>> =>
         Keeps(Kinds \ {"queue", "calculator"})
  BY HoldsKept DEF Keeps, Kinds
<1>4. UNCHANGED <<decomposer, distributor, calculator, remote>> =>
         Keeps(Kinds \ {"queue", "workerHandler"})
  BY HoldsKept DEF Keeps, Kinds
<1>5. UNCHANGED <<queue, decomposer, calculator, workerHandler>> =>
         Keeps(Kinds \ {"distributor", "inbox", "held", "outbox"})
  BY HoldsKept DEF Keeps, Kinds
<1>6. UNCHANGED <<queue, decomposer, distributor, calculator>> =>
         Keeps(Kinds \ {"workerHandler", "inbox", "held", "outbox"})
  BY HoldsKept DEF Keeps, Kinds
<1>7. UNCHANGED <<decomposer, distributor, calculator, workerHandler, remote>> =>
         Keeps(Kinds \ {"queue"})
  BY HoldsKept DEF Keeps, Kinds
<1>8. UNCHANGED <<queue, decomposer, distributor, calculator, workerHandler>> =>
         Keeps(Kinds \ {"inbox", "held", "outbox"})
  BY HoldsKept DEF Keeps, Kinds
<1>9. UNCHANGED <<queue, decomposer, distributor, calculator, workerHandler, remote>> =>
         Keeps(Kinds)
  BY HoldsKept DEF Keeps, Kinds
<1> QED
  BY <1>1, <1>2, <1>3, <1>4, <1>5, <1>6, <1>7, <1>8, <1>9

(* The queues around an operation on one of them.                          *)
LEMMA QueueTypes ==
    ASSUME TypeInv
    PROVE  /\ \A q \in QueueNames : queue[q] \in Seq(ElementsOf(q))
           /\ \A q \in UnitQueues :
                 q \in QueueNames /\ queue[q] \in Seq({Stop} \cup Units)
                 /\ Range(queue[q]) \subseteq {Stop} \cup Units
           /\ \A q \in DataQueues :
                 q \in QueueNames /\ queue[q] \in Seq({Stop} \cup Requests)
                 /\ Range(queue[q]) \subseteq {Stop} \cup Requests
           /\ Stop \notin Units /\ Stop \notin Requests
           /\ Nothing \notin Units /\ Nothing \notin Requests
<1>1. \A q \in QueueNames : queue[q] \in Seq(ElementsOf(q))
  BY DEF TypeInv, SharedInv, QueueType
<1>2. UnitQueues \subseteq QueueNames /\ DataQueues \subseteq QueueNames
  BY DEF UnitQueues, DataQueues, QueueNames
<1>3. \A S : \A s \in Seq(S) : Range(s) \subseteq S
  BY ElementOfSeq DEF Range
<1>4. /\ \A q \in UnitQueues : queue[q] \in Seq({Stop} \cup Units)
      /\ \A q \in DataQueues : queue[q] \in Seq({Stop} \cup Requests)
  BY <1>1, <1>2, Elements
<1> QED
  BY <1>1, <1>2, <1>3, <1>4, LineAssumption

LEMMA Enqueues ==
    ASSUME TypeInv, NEW q \in QueueNames, NEW e \in ElementsOf(q), Enqueue(q, e)
    PROVE  /\ \A x \in QueueNames \ {q} : queue'[x] = queue[x]
           /\ Range(queue'[q]) = Range(queue[q]) \cup {e}
           /\ Distinct(Stop, queue[q]) /\ (e = Stop \/ e \notin Range(queue[q]))
                 => Distinct(Stop, queue'[q])
<1>1. /\ \A x \in QueueNames \ {q} : queue'[x] = queue[x]
      /\ queue'[q] = Append(queue[q], e)
  BY DEF Enqueue, TypeInv, SharedInv, QueueType
<1>2. queue[q] \in Seq(ElementsOf(q))
  BY QueueTypes
<1> QED
  BY <1>1, <1>2, AppendRange, DistinctAppend

LEMMA Dequeues ==
    ASSUME TypeInv, NEW q \in QueueNames, NEW e, Dequeue(q, e)
    PROVE  /\ \A x \in QueueNames \ {q} : queue'[x] = queue[x]
           /\ e \in Range(queue[q]) /\ e \in ElementsOf(q)
           /\ Range(queue'[q]) \subseteq Range(queue[q])
           /\ Distinct(Stop, queue[q]) =>
                 /\ Distinct(Stop, queue'[q])
                 /\ Range(queue'[q]) \ {Stop} = (Range(queue[q]) \ {Stop}) \ {e}
<1>1. /\ \A x \in QueueNames \ {q} : queue'[x] = queue[x]
      /\ queue'[q] = Tail(queue[q]) /\ queue[q] # << >> /\ e = Head(queue[q])
  BY DEF Dequeue, TypeInv, SharedInv, QueueType
<1>2. queue[q] \in Seq(ElementsOf(q))
  BY QueueTypes
<1>3. /\ e \in Range(queue[q]) /\ e \in ElementsOf(q)
      /\ Range(queue'[q]) \subseteq Range(queue[q])
  BY <1>1, <1>2, TailRange, HeadTailProperties
<1>4. ASSUME Distinct(Stop, queue[q])
      PROVE  /\ Distinct(Stop, queue'[q])
             /\ Range(queue'[q]) \ {Stop} = (Range(queue[q]) \ {Stop}) \ {e}
  BY <1>1, <1>2, <1>4, DistinctTail
<1> QED
  BY <1>1, <1>3, <1>4

(* What the holders among the queues hold after it.                        *)
LEMMA EnqueuesHolds ==
    ASSUME TypeInv, NEW q \in QueueNames, NEW e \in ElementsOf(q), Enqueue(q, e)
    PROVE  /\ \A x \in UnitQueues \ {q} : holds'["queue"][x] = holds["queue"][x]
           /\ q \in UnitQueues /\ e # Stop =>
                 holds'["queue"][q] = holds["queue"][q] \cup {e}
           /\ q \in DataQueues \cup {"sockets", "workers"} \/ e = Stop => Keeps({"queue"})
<1>1. \A x \in UnitQueues : x \in QueueNames
  BY QueueTypes
<1>2. ASSUME NEW x \in UnitQueues \ {q} PROVE holds'["queue"][x] = holds["queue"][x]
  <2>1. queue'[x] = queue[x]
    BY <1>1, Enqueues
  <2>2. /\ holds'["queue"][x] = Range(queue'[x]) \ {Stop}
        /\ holds["queue"][x] = Range(queue[x]) \ {Stop}
    BY HoldsAre, HoldsAreNext
  <2> QED
    BY <2>1, <2>2
<1>3. q \in UnitQueues => holds'["queue"][q] = (Range(queue[q]) \cup {e}) \ {Stop}
  BY Enqueues, HoldsAreNext
<1>4. q \in UnitQueues => holds["queue"][q] = Range(queue[q]) \ {Stop}
  BY HoldsAre
<1>5. q \in DataQueues \cup {"sockets", "workers"} => q \notin UnitQueues
  BY DEF DataQueues, UnitQueues
<1>6. q \in DataQueues \cup {"sockets", "workers"} \/ e = Stop =>
         \A x \in UnitQueues : holds'["queue"][x] = holds["queue"][x]
  BY <1>2, <1>3, <1>4, <1>5
<1> QED
  BY <1>2, <1>3, <1>4, <1>6, OwnersAre DEF Keeps

LEMMA DequeuesHolds ==
    ASSUME TypeInv, SequencesInv, NEW q \in QueueNames, NEW e, Dequeue(q, e)
    PROVE  /\ \A x \in UnitQueues \ {q} : holds'["queue"][x] = holds["queue"][x]
           /\ q \in UnitQueues /\ e # Stop =>
                 e \in holds["queue"][q] /\ holds'["queue"][q] = holds["queue"][q] \ {e}
           /\ q \in DataQueues \cup {"sockets", "workers"} \/ e = Stop => Keeps({"queue"})
<1>1. \A x \in UnitQueues : x \in QueueNames
  BY QueueTypes
<1>2. ASSUME NEW x \in UnitQueues \ {q} PROVE holds'["queue"][x] = holds["queue"][x]
  <2>1. queue'[x] = queue[x]
    BY <1>1, Dequeues
  <2>2. /\ holds'["queue"][x] = Range(queue'[x]) \ {Stop}
        /\ holds["queue"][x] = Range(queue[x]) \ {Stop}
    BY HoldsAre, HoldsAreNext
  <2> QED
    BY <2>1, <2>2
<1>3. q \in UnitQueues => holds'["queue"][q] = (Range(queue[q]) \ {Stop}) \ {e}
  <2>1. q \in UnitQueues => Distinct(Stop, queue[q])
    BY DEF SequencesInv
  <2> QED
    BY <2>1, Dequeues, HoldsAreNext
<1>4. q \in UnitQueues => holds["queue"][q] = Range(queue[q]) \ {Stop}
  BY HoldsAre
<1>5. q \in DataQueues \cup {"sockets", "workers"} => q \notin UnitQueues
  BY DEF DataQueues, UnitQueues
<1>6. q \in DataQueues \cup {"sockets", "workers"} \/ e = Stop =>
         \A x \in UnitQueues : holds'["queue"][x] = holds["queue"][x]
  BY <1>2, <1>3, <1>4, <1>5
<1>7. e \in Range(queue[q])
  BY Dequeues
<1> QED
  BY <1>2, <1>3, <1>4, <1>6, <1>7, OwnersAre DEF Keeps


----
(* What holders hold is of the units' type.                                *)
LEMMA HoldsType ==
    ASSUME TypeInv
    PROVE  \A k \in Kinds : \A o \in Owners[k] : holds[k][o] \subseteq Units
<1>1. \A q \in Owners["queue"] : holds["queue"][q] \subseteq Units
  <2>1. ASSUME NEW q \in UnitQueues PROVE holds["queue"][q] \subseteq Units
    <3>1. Range(queue[q]) \subseteq {Stop} \cup Units
      BY QueueTypes
    <3>2. holds["queue"][q] = Range(queue[q]) \ {Stop}
      BY HoldsAre
    <3> QED
      BY <3>1, <3>2
  <2> QED
    BY <2>1, OwnersAre
<1>2. \A o \in Owners["decomposer"] : holds["decomposer"][o] \subseteq Units
  <2>1. Range(decomposer.units) \subseteq Units
    <3>1. decomposer.units \in Seq(Units)
      BY DEF TypeInv, ThreadsInv, DecomposerInv, DecomposerType
    <3> QED
      BY <3>1, ElementOfSeq DEF Range
  <2> QED
    BY <2>1, HoldsAre, OwnersAre
<1>3. \A o \in Owners["distributor"] : holds["distributor"][o] \subseteq Units
  BY HoldsAre, OwnersAre DEF TypeInv, ThreadsInv, DistributorInv, DistributorType
<1>4. ASSUME NEW w \in Workers
      PROVE  /\ holds["inbox"][w] \subseteq Units /\ holds["held"][w] \subseteq Units
             /\ holds["outbox"][w] \subseteq Units
  <2>1. remote[w] \in Remote!RemoteWorker
    BY DEF TypeInv, SharedInv, Remote!RemoteType
  <2>2. /\ remote[w].inbox \in Seq(Units \cup {Stop}) /\ remote[w].held \subseteq Units
        /\ remote[w].outbox \in Seq(Units \cup {Stop})
    BY <2>1, RemoteFields
  <2>3. /\ Range(remote[w].inbox) \subseteq Units \cup {Stop}
        /\ Range(remote[w].outbox) \subseteq Units \cup {Stop}
    BY <2>2, ElementOfSeq DEF Range
  <2>4. /\ holds["inbox"][w] = Range(remote[w].inbox) \ {Stop}
        /\ holds["held"][w] = remote[w].held
        /\ holds["outbox"][w] = Range(remote[w].outbox) \ {Stop}
    BY HoldsAre
  <2> QED
    BY <2>2, <2>3, <2>4
<1>5. \A o \in Owners["calculator"] : holds["calculator"][o] \subseteq Units
  BY HoldsAre, OwnersAre DEF TypeInv, ThreadsInv, CalculatorInv, CalculatorType
<1>6. \A o \in Owners["workerHandler"] : holds["workerHandler"][o] \subseteq Units
  BY HoldsAre, OwnersAre DEF TypeInv, ThreadsInv, WorkerHandlerInv, WorkerHandlerType
<1> QED
  BY <1>1, <1>2, <1>3, <1>4, <1>5, <1>6, OwnersAre DEF Kinds

(* A step that moves no request from one owner to another.                 *)
SameOwners ==
    /\ \A h \in Handlers : handler'[h].data = handler[h].data
    /\ Range(queue'["decomposer"]) \ {Stop} = Range(queue["decomposer"]) \ {Stop}
    /\ assembler'.unit = assembler.unit
    /\ Range(queue'["responder"]) \ {Stop} = Range(queue["responder"]) \ {Stop}

SameRequests ==
    \A r \in Requests :
        /\ Undecomposed(r)' <=> Undecomposed(r)
        /\ r \in ToRespond' <=> r \in ToRespond

LEMMA RequestOwners ==
    ASSUME TypeInv
    PROVE  /\ \A h \in Handlers : handler[h].data \in Requests \cup {Nothing}
           /\ assembler.unit \in Units \cup {Nothing}
           /\ assembler.unit # Nothing => assembler.unit[1] \in Requests
  BY UnitParts DEF TypeInv, ThreadsInv, HandlerInv, HandlerType, AssemblerInv, AssemblerType

LEMMA OwnersSame ==
    ASSUME TypeInv, OneOwner, SameOwners
    PROVE  OneOwner' /\ SameRequests
<1>1. Stop \notin Requests
  BY QueueTypes
<1>2. \A r \in Requests :
         /\ r \in Range(queue'["decomposer"]) <=> r \in Range(queue["decomposer"])
         /\ r \in Range(queue'["responder"]) <=> r \in Range(queue["responder"])
  BY <1>1 DEF SameOwners
<1>3. OneOwner'
  BY <1>2, RequestOwners DEF OneOwner, SameOwners
<1>4. SameRequests
  <2>1. SUFFICES ASSUME NEW r \in Requests
                 PROVE  /\ Undecomposed(r)' <=> Undecomposed(r)
                        /\ r \in ToRespond' <=> r \in ToRespond
    BY DEF SameRequests
  <2>2. Undecomposed(r)' <=> Undecomposed(r)
    BY <1>2 DEF Undecomposed, SameOwners
  <2>3. r \in ToRespond' <=> r \in ToRespond
    BY <1>1, <1>2 DEF ToRespond, SameOwners
  <2> QED
    BY <2>2, <2>3
<1> QED
  BY <1>3, <1>4

(* A step that stores only results of units that are in flight, and loses  *)
(* only units whose result is not stored.                                  *)
LEMMA RequestsKept ==
    ASSUME RequestsInv, SameRequests,
           \A r \in Requests :
              /\ data'[r].phase = data[r].phase /\ data'[r].pending = data[r].pending
              /\ data[r].results \subseteq data'[r].results
              /\ \A i \in data'[r].results \ data[r].results : <<r, i>> \in Flying(holds'),
           Flying(holds') \subseteq Flying(holds),
           \A u \in Flying(holds) \ Flying(holds') : u[2] \notin data'[u[1]].results
    PROVE  RequestsInv'
<1> SUFFICES ASSUME NEW r \in Requests
             PROVE  RequestInv(holds', data', r, Undecomposed(r)', r \in ToRespond')
  BY DEF RequestsInv
<1>1. RequestInv(holds, data, r, Undecomposed(r), r \in ToRespond)
  BY DEF RequestsInv
<1>2. \A u \in UnitsOf(r) : u = <<r, u[2]>> /\ u[1] = r
  BY DEF UnitsOf
<1>3. UnitsOf(r) \cap Flying(holds') \subseteq UnitsOf(r) \cap Flying(holds)
  OBVIOUS
<1>4. Unfinished(holds', data', r) = Unfinished(holds, data, r)
  <2>1. ASSUME NEW u \in UnitsOf(r)
        PROVE  (u \in Flying(holds') \/ u[2] \notin data'[r].results)
               <=> (u \in Flying(holds) \/ u[2] \notin data[r].results)
    <3>1. u = <<r, u[2]>> /\ u[1] = r
      BY <1>2
    <3>2. u[2] \in data'[r].results => u[2] \in data[r].results \/ u \in Flying(holds')
      BY <3>1
    <3>3. u \in Flying(holds) \ Flying(holds') => u[2] \notin data'[r].results
      BY <3>1
    <3> QED
      BY <3>2, <3>3
  <2> QED
    BY <2>1 DEF Unfinished
<1>5. \A i \in data'[r].results \ data[r].results :
         i \in 1 .. Queries[r] /\ UnitsOf(r) \cap Flying(holds) # {}
  <2>1. ASSUME NEW i \in data'[r].results \ data[r].results
        PROVE  i \in 1 .. Queries[r] /\ <<r, i>> \in UnitsOf(r) \cap Flying(holds)
    <3>1. <<r, i>> \in Flying(holds) /\ <<r, i>> \in Units
      BY DEF Flying
    <3>2. <<r, i>> \in UnitsOf(r) /\ i \in 1 .. Queries[r]
      BY <3>1 DEF Units, UnitsOf
    <3> QED
      BY <3>1, <3>2
  <2> QED
    BY <2>1
<1>6. /\ data'[r].results \subseteq 1 .. Queries[r]
      /\ data'[r].phase = "unseen" => data'[r].results = {}
      /\ Undecomposed(r) => data'[r].results = {}
  <2>1. data'[r].results # data[r].results => data[r].phase = "live" /\ ~Undecomposed(r)
    BY <1>1, <1>5 DEF RequestInv
  <2> QED
    BY <1>1, <1>5, <2>1 DEF RequestInv
<1> QED
  BY <1>1, <1>3, <1>4, <1>6 DEF RequestInv, SameRequests

(* A worker crashes, or is sent a unit that it will not read.              *)
Lossy ==
    \/ \E w \in Workers : Remote!Crash(w)
    \/ DistributorSends /\ ~Remote!Listens(distributor.worker)

(* A step after which each unit that was in flight still is, or has had    *)
(* its result stored.                                                      *)
LEMMA NoneLostKept ==
    ASSUME NoneLost,
           \A r \in Requests :
              /\ data'[r].phase = "live" /\ ~Undecomposed(r)' =>
                    \/ data[r].phase = "live" /\ ~Undecomposed(r)
                    \/ UnitsOf(r) \subseteq Flying(holds')
              /\ data[r].results \subseteq data'[r].results,
           \A u \in Flying(holds) : u \in Flying(holds') \/ u[2] \in data'[u[1]].results
    PROVE  NoneLost'
<1> SUFFICES ASSUME NEW r \in Requests, data'[r].phase = "live", ~Undecomposed(r)',
                    NEW u \in UnitsOf(r)
             PROVE  u \in Flying(holds') \/ u[2] \in data'[r].results
  BY DEF NoneLost
<1>1. u[1] = r
  BY DEF UnitsOf
<1> QED
  BY <1>1 DEF NoneLost

(* What the invariant says of the units, as a step leaves it.              *)
UnitsKept ==
    /\ SequencesInv' /\ OneOwner' /\ Apart(holds') /\ Stored(holds', data') /\ RequestsInv'
    /\ NoneLost => NoneLost' \/ Lossy

(* A step that moves a unit, storing its result or not.                    *)
LEMMA MoveStep ==
    ASSUME TypeInv, UnitInv, NEW u, NEW k1, NEW o1, NEW k2, NEW o2,
           Moves(holds, holds', u, k1, o1, k2, o2),
           \/ Computed(k1, o1) = Computed(k2, o2) /\ UNCHANGED data
           \/ Computed(k2, o2) /\ StoreResult(u),
           SequencesInv', SameOwners
    PROVE  UnitsKept
<1>1. /\ Apart(holds) /\ Stored(holds, data) /\ RequestsInv /\ OneOwner
      /\ \A k \in Kinds : \A o \in Owners[k] : holds[k][o] \subseteq Units
  BY HoldsType DEF UnitInv
<1>2. Apart(holds') /\ Flying(holds') = Flying(holds)
  BY <1>1, MovesApart
<1>3. u \in Units /\ u[1] \in Requests /\ u \in Flying(holds)
  <2>1. u \in Units
    BY <1>1 DEF Moves
  <2> QED
    BY <2>1, UnitParts DEF Moves, Flying
<1>4. \/ \A r \in Requests : data'[r].results = data[r].results
      \/ StoreResult(u)
  OBVIOUS
<1>5. StoreResult(u) =>
         \A r \in Requests : data'[r].results = data[r].results \cup {x \in {u[2]} : r = u[1]}
  <2>1. DOMAIN data = Requests /\ \A r \in Requests : data[r] \in
           [phase : {"unseen", "live", "answered"}, pending : Nat, results : SUBSET Nat]
    BY DEF TypeInv, SharedInv, DataInv, DataType
  <2> QED
    BY <1>3, <2>1 DEF StoreResult
<1>6. \A r \in Requests :
         data'[r].phase = data[r].phase /\ data'[r].pending = data[r].pending
  BY <1>3 DEF StoreResult, TypeInv, SharedInv, DataInv, DataType
<1>7. Stored(holds', data')
  <2>1. CASE Computed(k1, o1) = Computed(k2, o2) /\ UNCHANGED data
    BY <1>1, <2>1, MovesStored
  <2>2. CASE Computed(k2, o2) /\ StoreResult(u)
    BY <1>1, <1>5, <2>2, MovesStored
  <2> QED
    BY <2>1, <2>2
<1>8. OneOwner' /\ SameRequests
  BY <1>1, OwnersSame
<1>9. \A r \in Requests :
         /\ data[r].results \subseteq data'[r].results
         /\ \A i \in data'[r].results \ data[r].results : <<r, i>> \in Flying(holds')
  <2>1. u = <<u[1], u[2]>>
    BY <1>3 DEF Units, UnitsOf
  <2> QED
    BY <1>2, <1>3, <1>4, <1>5, <2>1
<1>10. RequestsInv'
  BY <1>1, <1>2, <1>6, <1>8, <1>9, RequestsKept
<1>11. NoneLost => NoneLost'
  BY <1>2, <1>6, <1>8, <1>9, NoneLostKept DEF SameRequests
<1> QED
  BY <1>2, <1>7, <1>8, <1>10, <1>11 DEF UnitsKept

(* A step that loses units that have yet to be computed, or none.          *)
LEMMA LoseStep ==
    ASSUME TypeInv, UnitInv, UNCHANGED data,
           Lossy \/ Keeps(Kinds),
           \A k \in Kinds : \A o \in Owners[k] :
              /\ holds'[k][o] \subseteq holds[k][o]
              /\ Computed(k, o) => holds'[k][o] = holds[k][o],
           SequencesInv', SameOwners
    PROVE  UnitsKept
<1>1. /\ Apart(holds) /\ Stored(holds, data) /\ RequestsInv /\ OneOwner
      /\ \A k \in Kinds : \A o \in Owners[k] : holds[k][o] \subseteq Units
  BY HoldsType DEF UnitInv
<1>2. Apart(holds')
  BY <1>1 DEF Apart
<1>3. Stored(holds', data')
  BY <1>1 DEF Stored
<1>4. Flying(holds') \subseteq Flying(holds)
  BY DEF Flying
<1>5. \A u \in Flying(holds) \ Flying(holds') : u[2] \notin data'[u[1]].results
  BY <1>1 DEF Flying, Stored
<1>6. OneOwner' /\ SameRequests
  BY <1>1, OwnersSame
<1>7. RequestsInv'
  BY <1>1, <1>4, <1>5, <1>6, RequestsKept
<1>8. NoneLost => NoneLost' \/ Lossy
  <2>1. Keeps(Kinds) => Flying(holds') = Flying(holds)
    BY DEF Keeps, Flying
  <2> QED
    BY <1>6, <2>1, NoneLostKept DEF SameRequests
<1> QED
  BY <1>2, <1>3, <1>6, <1>7, <1>8 DEF UnitsKept


----
(* The queues, of units or not, after an operation on one of them.         *)
SameQueued ==
    /\ Range(queue'["decomposer"]) \ {Stop} = Range(queue["decomposer"]) \ {Stop}
    /\ Range(queue'["responder"]) \ {Stop} = Range(queue["responder"]) \ {Stop}

LEMMA QueueStep ==
    ASSUME TypeInv, SequencesInv, NEW q \in QueueNames, NEW e,
           \/ /\ e \in ElementsOf(q) /\ Enqueue(q, e)
              /\ e = Stop \/ e \notin Range(queue[q]) \/ q \in {"sockets", "workers"}
           \/ Dequeue(q, e)
    PROVE  /\ \A x \in UnitQueues \cup DataQueues : Distinct(Stop, queue'[x])
           /\ q \notin DataQueues \/ e = Stop => SameQueued
<1>1. \A x \in QueueNames \ {q} : queue'[x] = queue[x]
  BY Enqueues, Dequeues
<1>2. /\ UnitQueues \cup DataQueues \subseteq QueueNames
      /\ "decomposer" \in DataQueues /\ "responder" \in DataQueues
      /\ q \in {"sockets", "workers"} => q \notin UnitQueues \cup DataQueues
  BY DEF UnitQueues, DataQueues, QueueNames
<1>3. ASSUME NEW x \in UnitQueues \cup DataQueues PROVE Distinct(Stop, queue'[x])
  <2>1. Distinct(Stop, queue[x]) /\ x \in QueueNames
    BY <1>2 DEF SequencesInv
  <2>2. CASE x # q
    <3>1. queue'[x] = queue[x]
      BY <1>1, <2>1, <2>2
    <3> QED
      BY <2>1, <3>1
  <2>3. CASE x = q
    BY <1>2, <2>1, <2>3, Enqueues, Dequeues
  <2> QED
    BY <2>2, <2>3
<1>4. ASSUME q \notin DataQueues \/ e = Stop, NEW x \in DataQueues
      PROVE  Range(queue'[x]) \ {Stop} = Range(queue[x]) \ {Stop}
  <2>1. CASE x # q
    <3>1. queue'[x] = queue[x]
      BY <1>1, <1>2, <2>1
    <3> QED
      BY <3>1
  <2>2. CASE x = q
    <3>1. e = Stop /\ Distinct(Stop, queue[q])
      BY <1>4, <2>2 DEF SequencesInv
    <3>2. CASE Dequeue(q, e)
      BY <2>2, <3>1, <3>2, Dequeues
    <3>3. CASE e \in ElementsOf(q) /\ Enqueue(q, e)
      <4>1. Range(queue'[q]) = Range(queue[q]) \cup {e}
        BY <3>3, Enqueues
      <4> QED
        BY <2>2, <3>1, <4>1
    <3> QED
      BY <3>2, <3>3
  <2> QED
    BY <2>1, <2>2
<1> QED
  BY <1>2, <1>3, <1>4 DEF SameQueued

LEMMA SequencesSame ==
    ASSUME SequencesInv
    PROVE  /\ UNCHANGED queue =>
                 /\ \A x \in UnitQueues \cup DataQueues : Distinct(Stop, queue'[x])
                 /\ SameQueued
           /\ UNCHANGED decomposer => Distinct(Stop, decomposer'.units)
           /\ UNCHANGED remote =>
                 \A w \in Workers : /\ Distinct(Stop, remote'[w].inbox)
                                     /\ Distinct(Stop, remote'[w].outbox)
  BY DEF SequencesInv, SameQueued

LEMMA MovesMade ==
    ASSUME NEW u, NEW k1 \in Kinds, NEW o1 \in Owners[k1], NEW k2 \in Kinds,
           NEW o2 \in Owners[k2], k1 # k2,
           u \in holds[k1][o1], holds'[k1][o1] = holds[k1][o1] \ {u},
           holds'[k2][o2] = holds[k2][o2] \cup {u},
           \A o \in Owners[k1] \ {o1} : holds'[k1][o] = holds[k1][o],
           \A o \in Owners[k2] \ {o2} : holds'[k2][o] = holds[k2][o],
           Keeps(Kinds \ {k1, k2})
    PROVE  Moves(holds, holds', u, k1, o1, k2, o2)
<1>1. ASSUME NEW k \in Kinds, NEW o \in Owners[k]
      PROVE  holds'[k][o] = IF k = k1 /\ o = o1 THEN holds[k][o] \ {u}
                            ELSE IF k = k2 /\ o = o2 THEN holds[k][o] \cup {u}
                            ELSE holds[k][o]
  <2>1. CASE k = k1
    BY <2>1
  <2>2. CASE k = k2
    BY <2>2
  <2>3. CASE k \notin {k1, k2}
    BY <2>3 DEF Keeps
  <2> QED
    BY <2>1, <2>2, <2>3
<1> QED
  BY <1>1 DEF Moves

(* A thread takes a unit, or passes it on.                                 *)
LEMMA SlotTakes ==
    ASSUME NEW old, NEW new, NEW x, NEW y, NEW u, u # Nothing,
           old = {x} \ {Nothing}, new = {y} \ {Nothing}
    PROVE  /\ x = Nothing /\ y = u => new = old \cup {u}
           /\ x = u /\ y = Nothing => u \in old /\ new = old \ {u}
           /\ x = y => new = old
  OBVIOUS

LEMMA CalculatorHolds ==
    ASSUME NEW c \in Calculators, NEW u, u # Nothing,
           \A x \in Calculators \ {c} : calculator'[x] = calculator[x]
    PROVE  /\ \A x \in Calculators \ {c} : holds'["calculator"][x] = holds["calculator"][x]
           /\ calculator[c].unit = Nothing /\ calculator'[c].unit = u =>
                 holds'["calculator"][c] = holds["calculator"][c] \cup {u}
           /\ calculator[c].unit = u /\ calculator'[c].unit = Nothing =>
                 /\ u \in holds["calculator"][c]
                 /\ holds'["calculator"][c] = holds["calculator"][c] \ {u}
<1>1. \A x \in Calculators :
         /\ holds["calculator"][x] = {calculator[x].unit} \ {Nothing}
         /\ holds'["calculator"][x] = {calculator'[x].unit} \ {Nothing}
  BY HoldsAre, HoldsAreNext
<1>2. ASSUME NEW x \in Calculators \ {c}
      PROVE  holds'["calculator"][x] = holds["calculator"][x]
  BY <1>1
<1> QED
  BY <1>1, <1>2, SlotTakes

LEMMA WorkerHandlerHolds ==
    ASSUME NEW k \in WorkerHandlers, NEW u, u # Nothing,
           \A x \in WorkerHandlers \ {k} : workerHandler'[x] = workerHandler[x]
    PROVE  /\ \A x \in WorkerHandlers \ {k} :
                 holds'["workerHandler"][x] = holds["workerHandler"][x]
           /\ workerHandler[k].unit = Nothing /\ workerHandler'[k].unit = u =>
                 holds'["workerHandler"][k] = holds["workerHandler"][k] \cup {u}
           /\ workerHandler[k].unit = u /\ workerHandler'[k].unit = Nothing =>
                 /\ u \in holds["workerHandler"][k]
                 /\ holds'["workerHandler"][k] = holds["workerHandler"][k] \ {u}
<1>1. \A x \in WorkerHandlers :
         /\ holds["workerHandler"][x] = {workerHandler[x].unit} \ {Nothing}
         /\ holds'["workerHandler"][x] = {workerHandler'[x].unit} \ {Nothing}
  BY HoldsAre, HoldsAreNext
<1>2. ASSUME NEW x \in WorkerHandlers \ {k}
      PROVE  holds'["workerHandler"][x] = holds["workerHandler"][x]
  BY <1>1
<1> QED
  BY <1>1, <1>2, SlotTakes

(* A unit is passed on to the next of the line.                            *)
LEMMA DecomposerProducesUnits ==
    ASSUME TypeInv, UnitInv, DecomposerProduces
    PROVE  UnitsKept
<1> DEFINE u == Head(decomposer.units)
<1>1. decomposer.units \in Seq(Units) /\ decomposer.units # << >>
  BY DEF DecomposerProduces, TypeInv, ThreadsInv, DecomposerInv, DecomposerType
<1>2. /\ Enqueue("distributor", u) /\ decomposer'.units = Tail(decomposer.units)
      /\ UNCHANGED data
  BY DEF DecomposerProduces, TypeInv, ThreadsInv, DecomposerInv, DecomposerType
<1>3. u \in Units /\ u # Stop
  BY <1>1, HeadTailProperties, QueueTypes
<1>4. SequencesInv /\ Apart(holds)
  BY DEF UnitInv
<1>5. /\ Distinct(Stop, decomposer'.units) /\ u \in holds["decomposer"]["units"]
      /\ holds'["decomposer"]["units"] = holds["decomposer"]["units"] \ {u}
  <2>1. Distinct(Stop, decomposer.units)
    BY <1>4 DEF SequencesInv
  <2>2. /\ Distinct(Stop, Tail(decomposer.units)) /\ u \in Range(decomposer.units)
        /\ Range(Tail(decomposer.units)) = Range(decomposer.units) \ {u}
    BY <1>1, <1>3, <2>1, DistinctTail
  <2> QED
    BY <1>2, <2>2, HoldsAre, HoldsAreNext
<1>6. /\ "distributor" \in UnitQueues /\ "distributor" \in QueueNames
      /\ u \in ElementsOf("distributor")
  BY <1>3, Elements DEF UnitQueues, QueueNames
<1>7. /\ \A x \in UnitQueues \ {"distributor"} : holds'["queue"][x] = holds["queue"][x]
      /\ holds'["queue"]["distributor"] = holds["queue"]["distributor"] \cup {u}
  BY <1>2, <1>3, <1>6, EnqueuesHolds
<1>8. Keeps(Kinds \ {"queue", "decomposer"})
  BY KeepsBut DEF DecomposerProduces, OnlyDecomposer
<1>9. Moves(holds, holds', u, "decomposer", "units", "queue", "distributor")
  BY <1>5, <1>6, <1>7, <1>8, OwnersAre DEF Moves, Keeps, Kinds
<1>10. u \notin Range(queue["distributor"])
  BY <1>3, <1>4, <1>5, <1>6, HoldsAre, OwnersAre DEF Apart, Kinds
<1>11. /\ \A x \in UnitQueues \cup DataQueues : Distinct(Stop, queue'[x])
       /\ SameQueued
  <2>1. "distributor" \notin DataQueues
    BY DEF DataQueues
  <2> QED
    BY <1>2, <1>4, <1>6, <1>10, <2>1, QueueStep
<1>12. SequencesInv' /\ SameOwners
  BY <1>4, <1>5, <1>11, SequencesSame DEF SequencesInv, SameOwners, SameQueued,
     DecomposerProduces, OnlyDecomposer
<1>13. Computed("decomposer", "units") = Computed("queue", "distributor")
  BY DEF Computed
<1> HIDE DEF u
<1> QED
  BY <1>2, <1>9, <1>12, <1>13, MoveStep


LEMMA DistributorTakesUnits ==
    ASSUME TypeInv, UnitInv, NEW u \in Units, DistributorTakes, Dequeue("distributor", u)
    PROVE  UnitsKept
<1>1. u # Stop /\ u # Nothing /\ SequencesInv /\ Apart(holds)
  BY QueueTypes DEF UnitInv
<1>2. distributor'.unit = u /\ distributor.unit = Nothing /\ UNCHANGED data
  <2>1. distributor.at = "take" /\ DistributorType
    BY DEF DistributorTakes, TypeInv, ThreadsInv, DistributorInv
  <2>2. distributor' = [distributor EXCEPT !.at = "choose", !.unit = u]
    BY <1>1 DEF DistributorTakes, Dequeue
  <2> QED
    BY <2>1, <2>2 DEF DistributorTakes, DistributorType, UnitInv, SlotsInv
<1>3. "distributor" \in UnitQueues /\ "distributor" \in QueueNames
      /\ "distributor" \notin DataQueues
  BY DEF UnitQueues, QueueNames, DataQueues
<1>4. /\ \A x \in UnitQueues \ {"distributor"} : holds'["queue"][x] = holds["queue"][x]
      /\ u \in holds["queue"]["distributor"]
      /\ holds'["queue"]["distributor"] = holds["queue"]["distributor"] \ {u}
  BY <1>1, <1>3, DequeuesHolds
<1>5. holds'["distributor"]["unit"] = holds["distributor"]["unit"] \cup {u}
  <2>1. /\ holds["distributor"]["unit"] = {distributor.unit} \ {Nothing}
        /\ holds'["distributor"]["unit"] = {distributor'.unit} \ {Nothing}
    BY HoldsAre, HoldsAreNext
  <2> QED
    BY <1>1, <1>2, <2>1, SlotTakes
<1>6. Keeps(Kinds \ {"queue", "distributor"})
  BY KeepsBut DEF DistributorTakes, OnlyDistributor
<1>7. Moves(holds, holds', u, "queue", "distributor", "distributor", "unit")
  BY <1>3, <1>4, <1>5, <1>6, OwnersAre DEF Moves, Keeps, Kinds
<1>8. (\A x \in UnitQueues \cup DataQueues : Distinct(Stop, queue'[x])) /\ SameQueued
  BY <1>1, <1>3, QueueStep
<1>9. SequencesInv' /\ SameOwners
  BY <1>1, <1>8, SequencesSame DEF SequencesInv, SameOwners, SameQueued, DistributorTakes,
     OnlyDistributor
<1>10. Computed("queue", "distributor") = Computed("distributor", "unit")
  BY DEF Computed
<1> QED
  BY <1>2, <1>7, <1>9, <1>10, MoveStep

LEMMA DistributorProducesUnits ==
    ASSUME TypeInv, UnitInv, DistributorProduces
    PROVE  UnitsKept
<1> DEFINE u == distributor.unit
<1>1. u \in Units /\ u # Stop /\ u # Nothing /\ SequencesInv /\ Apart(holds)
  BY QueueTypes DEF DistributorProduces, TypeInv, ThreadsInv, DistributorInv, UnitInv
<1>2. distributor'.unit = Nothing /\ UNCHANGED data /\ Enqueue("units", u)
  BY DEF DistributorProduces, TypeInv, ThreadsInv, DistributorInv, DistributorType
<1>3. "units" \in UnitQueues /\ "units" \in QueueNames /\ "units" \notin DataQueues
      /\ u \in ElementsOf("units")
  BY <1>1, Elements DEF UnitQueues, QueueNames, DataQueues
<1>4. /\ \A x \in UnitQueues \ {"units"} : holds'["queue"][x] = holds["queue"][x]
      /\ holds'["queue"]["units"] = holds["queue"]["units"] \cup {u}
  BY <1>1, <1>2, <1>3, EnqueuesHolds
<1>5. u \in holds["distributor"]["unit"]
      /\ holds'["distributor"]["unit"] = holds["distributor"]["unit"] \ {u}
  BY <1>1, <1>2, HoldsAre, HoldsAreNext
<1>6. Keeps(Kinds \ {"queue", "distributor"})
  BY KeepsBut DEF DistributorProduces, OnlyDistributor
<1>7. Moves(holds, holds', u, "distributor", "unit", "queue", "units")
  BY <1>3, <1>4, <1>5, <1>6, OwnersAre DEF Moves, Keeps, Kinds
<1>8. u \notin Range(queue["units"])
  BY <1>1, <1>3, <1>5, HoldsAre, OwnersAre DEF Apart, Kinds
<1>9. (\A x \in UnitQueues \cup DataQueues : Distinct(Stop, queue'[x])) /\ SameQueued
  BY <1>1, <1>2, <1>3, <1>8, QueueStep
<1>10. SequencesInv' /\ SameOwners
  BY <1>1, <1>9, SequencesSame DEF SequencesInv, SameOwners, SameQueued,
     DistributorProduces, OnlyDistributor
<1>11. Computed("distributor", "unit") = Computed("queue", "units")
  BY DEF Computed
<1> HIDE DEF u
<1> QED
  BY <1>2, <1>7, <1>10, <1>11, MoveStep

LEMMA CalculatorProcessesUnits ==
    ASSUME TypeInv, UnitInv, NEW c \in Calculators, NEW u \in Units,
           CalculatorProcesses(c), Dequeue("units", u)
    PROVE  UnitsKept
<1>1. u # Stop /\ u # Nothing /\ SequencesInv /\ Apart(holds)
  BY QueueTypes DEF UnitInv
<1>2. /\ StoreResult(u) /\ calculator[c].unit = Nothing /\ calculator'[c].unit = u
      /\ \A x \in Calculators \ {c} : calculator'[x] = calculator[x]
  <2>1. calculator[c].at = "take" /\ CalculatorType
    BY DEF CalculatorProcesses, TypeInv, ThreadsInv, CalculatorInv
  <2>2. StoreResult(u) /\ calculator' = [calculator EXCEPT ![c] = [at |-> "produce", unit |-> u]]
    BY <1>1 DEF CalculatorProcesses, Dequeue
  <2> QED
    BY <2>1, <2>2 DEF CalculatorType, UnitInv, SlotsInv
<1>3. "units" \in UnitQueues /\ "units" \in QueueNames /\ "units" \notin DataQueues
  BY DEF UnitQueues, QueueNames, DataQueues
<1>4. /\ \A x \in UnitQueues \ {"units"} : holds'["queue"][x] = holds["queue"][x]
      /\ u \in holds["queue"]["units"]
      /\ holds'["queue"]["units"] = holds["queue"]["units"] \ {u}
  BY <1>1, <1>3, DequeuesHolds
<1>5. /\ holds'["calculator"][c] = holds["calculator"][c] \cup {u}
      /\ \A x \in Calculators \ {c} : holds'["calculator"][x] = holds["calculator"][x]
  BY <1>1, <1>2, CalculatorHolds
<1>6. Keeps(Kinds \ {"queue", "calculator"})
  BY KeepsBut DEF CalculatorProcesses, OnlyCalculator
<1>7. Moves(holds, holds', u, "queue", "units", "calculator", c)
  BY <1>3, <1>4, <1>5, <1>6, OwnersAre DEF Moves, Keeps, Kinds
<1>8. (\A x \in UnitQueues \cup DataQueues : Distinct(Stop, queue'[x])) /\ SameQueued
  BY <1>1, <1>3, QueueStep
<1>9. SequencesInv' /\ SameOwners
  BY <1>1, <1>8, SequencesSame DEF SequencesInv, SameOwners, SameQueued,
     CalculatorProcesses, OnlyCalculator
<1>10. Computed("calculator", c)
  BY DEF Computed
<1> QED
  BY <1>2, <1>7, <1>9, <1>10, MoveStep

LEMMA CalculatorProducesUnits ==
    ASSUME TypeInv, UnitInv, NEW c \in Calculators, CalculatorProduces(c)
    PROVE  UnitsKept
<1> DEFINE u == calculator[c].unit
<1>1. u \in Units /\ u # Stop /\ u # Nothing /\ SequencesInv /\ Apart(holds)
  BY QueueTypes DEF CalculatorProduces, TypeInv, ThreadsInv, CalculatorInv, UnitInv
<1>2. /\ calculator'[c].unit = Nothing /\ UNCHANGED data /\ Enqueue("assembler", u)
      /\ \A x \in Calculators \ {c} : calculator'[x] = calculator[x]
  BY DEF CalculatorProduces, TypeInv, ThreadsInv, CalculatorInv, CalculatorType
<1>3. "assembler" \in UnitQueues /\ "assembler" \in QueueNames /\ "assembler" \notin DataQueues
      /\ u \in ElementsOf("assembler")
  BY <1>1, Elements DEF UnitQueues, QueueNames, DataQueues
<1>4. /\ \A x \in UnitQueues \ {"assembler"} : holds'["queue"][x] = holds["queue"][x]
      /\ holds'["queue"]["assembler"] = holds["queue"]["assembler"] \cup {u}
  BY <1>1, <1>2, <1>3, EnqueuesHolds
<1>5. /\ u \in holds["calculator"][c]
      /\ holds'["calculator"][c] = holds["calculator"][c] \ {u}
      /\ \A x \in Calculators \ {c} : holds'["calculator"][x] = holds["calculator"][x]
  BY <1>1, <1>2, CalculatorHolds
<1>6. Keeps(Kinds \ {"queue", "calculator"})
  BY KeepsBut DEF CalculatorProduces, OnlyCalculator
<1>7. Moves(holds, holds', u, "calculator", c, "queue", "assembler")
  BY <1>3, <1>4, <1>5, <1>6, OwnersAre DEF Moves, Keeps, Kinds
<1>8. u \notin Range(queue["assembler"])
  BY <1>1, <1>3, <1>5, HoldsAre, OwnersAre DEF Apart, Kinds
<1>9. (\A x \in UnitQueues \cup DataQueues : Distinct(Stop, queue'[x])) /\ SameQueued
  BY <1>1, <1>2, <1>3, <1>8, QueueStep
<1>10. SequencesInv' /\ SameOwners
  BY <1>1, <1>9, SequencesSame DEF SequencesInv, SameOwners, SameQueued,
     CalculatorProduces, OnlyCalculator
<1>11. Computed("calculator", c) = Computed("queue", "assembler")
  BY DEF Computed
<1> HIDE DEF u
<1> QED
  BY <1>2, <1>7, <1>10, <1>11, MoveStep

LEMMA WorkerHandlerProducesUnits ==
    ASSUME TypeInv, UnitInv, NEW k \in WorkerHandlers, WorkerHandlerProduces(k)
    PROVE  UnitsKept
<1> DEFINE u == workerHandler[k].unit
<1>1. u \in Units /\ u # Stop /\ u # Nothing /\ SequencesInv /\ Apart(holds)
  BY QueueTypes DEF WorkerHandlerProduces, TypeInv, ThreadsInv, WorkerHandlerInv, UnitInv
<1>2. /\ workerHandler'[k].unit = Nothing /\ UNCHANGED data /\ Enqueue("assembler", u)
      /\ \A x \in WorkerHandlers \ {k} : workerHandler'[x] = workerHandler[x]
  BY DEF WorkerHandlerProduces, TypeInv, ThreadsInv, WorkerHandlerInv, WorkerHandlerType
<1>3. "assembler" \in UnitQueues /\ "assembler" \in QueueNames /\ "assembler" \notin DataQueues
      /\ u \in ElementsOf("assembler")
  BY <1>1, Elements DEF UnitQueues, QueueNames, DataQueues
<1>4. /\ \A x \in UnitQueues \ {"assembler"} : holds'["queue"][x] = holds["queue"][x]
      /\ holds'["queue"]["assembler"] = holds["queue"]["assembler"] \cup {u}
  BY <1>1, <1>2, <1>3, EnqueuesHolds
<1>5. /\ u \in holds["workerHandler"][k]
      /\ holds'["workerHandler"][k] = holds["workerHandler"][k] \ {u}
      /\ \A x \in WorkerHandlers \ {k} : holds'["workerHandler"][x] = holds["workerHandler"][x]
  BY <1>1, <1>2, WorkerHandlerHolds
<1>6. Keeps(Kinds \ {"queue", "workerHandler"})
  BY KeepsBut DEF WorkerHandlerProduces, OnlyWorkerHandler
<1>7. Moves(holds, holds', u, "workerHandler", k, "queue", "assembler")
  BY <1>3, <1>4, <1>5, <1>6, OwnersAre DEF Moves, Keeps, Kinds
<1>8. u \notin Range(queue["assembler"])
  BY <1>1, <1>3, <1>5, HoldsAre, OwnersAre DEF Apart, Kinds
<1>9. (\A x \in UnitQueues \cup DataQueues : Distinct(Stop, queue'[x])) /\ SameQueued
  BY <1>1, <1>2, <1>3, <1>8, QueueStep
<1>10. SequencesInv' /\ SameOwners
  BY <1>1, <1>9, SequencesSame DEF SequencesInv, SameOwners, SameQueued,
     WorkerHandlerProduces, OnlyWorkerHandler
<1>11. Computed("workerHandler", k) = Computed("queue", "assembler")
  BY DEF Computed
<1> HIDE DEF u
<1> QED
  BY <1>2, <1>7, <1>10, <1>11, MoveStep


----
(* The connection to a worker, and the worker.                             *)
LEMMA RemoteTypes ==
    ASSUME TypeInv
    PROVE  /\ DOMAIN remote = Workers
           /\ \A w \in Workers :
                 /\ remote[w] \in Remote!RemoteWorker
                 /\ remote[w].inbox \in Seq(Units \cup {Stop})
                 /\ remote[w].outbox \in Seq(Units \cup {Stop})
                 /\ remote[w].held \subseteq Units
<1>1. DOMAIN remote = Workers /\ \A w \in Workers : remote[w] \in Remote!RemoteWorker
  BY DEF TypeInv, SharedInv, Remote!RemoteType
<1> QED
  BY <1>1, RemoteFields

(* The holders of the other workers, and those of this one whose field is  *)
(* left alone.                                                             *)
LEMMA RemoteHolds ==
    ASSUME NEW w \in Workers, \A x \in Workers \ {w} : remote'[x] = remote[x]
    PROVE  /\ \A x \in Workers \ {w} :
                 /\ holds'["inbox"][x] = holds["inbox"][x]
                 /\ holds'["held"][x] = holds["held"][x]
                 /\ holds'["outbox"][x] = holds["outbox"][x]
           /\ remote'[w].inbox = remote[w].inbox => holds'["inbox"][w] = holds["inbox"][w]
           /\ remote'[w].held = remote[w].held => holds'["held"][w] = holds["held"][w]
           /\ remote'[w].outbox = remote[w].outbox => holds'["outbox"][w] = holds["outbox"][w]
<1>1. \A x \in Workers :
         /\ holds["inbox"][x] = Range(remote[x].inbox) \ {Stop}
         /\ holds["held"][x] = remote[x].held
         /\ holds["outbox"][x] = Range(remote[x].outbox) \ {Stop}
         /\ holds'["inbox"][x] = Range(remote'[x].inbox) \ {Stop}
         /\ holds'["held"][x] = remote'[x].held
         /\ holds'["outbox"][x] = Range(remote'[x].outbox) \ {Stop}
  BY HoldsAre, HoldsAreNext
<1>2. ASSUME NEW x \in Workers \ {w}
      PROVE  /\ holds'["inbox"][x] = holds["inbox"][x]
             /\ holds'["held"][x] = holds["held"][x]
             /\ holds'["outbox"][x] = holds["outbox"][x]
  <2>1. x \in Workers /\ remote'[x] = remote[x]
    OBVIOUS
  <2> QED
    BY <1>1, <2>1
<1> QED
  BY <1>1, <1>2

(* Its sequences, after a step on one end of one connection.               *)
LEMMA RemoteSequences ==
    ASSUME SequencesInv, NEW w \in Workers,
           \A x \in Workers \ {w} : remote'[x] = remote[x],
           Distinct(Stop, remote'[w].inbox), Distinct(Stop, remote'[w].outbox)
    PROVE  \A x \in Workers : Distinct(Stop, remote'[x].inbox) /\ Distinct(Stop, remote'[x].outbox)
<1>1. ASSUME NEW x \in Workers
      PROVE  Distinct(Stop, remote'[x].inbox) /\ Distinct(Stop, remote'[x].outbox)
  <2>1. CASE x = w
    BY <2>1
  <2>2. CASE x # w
    BY <2>2 DEF SequencesInv
  <2> QED
    BY <2>1, <2>2
<1> QED
  BY <1>1

(* The Distributor sends its unit: to a worker that listens, or nowhere.   *)
LEMMA DistributorSendsUnits ==
    ASSUME TypeInv, UnitInv, DistributorSends
    PROVE  UnitsKept
<1> DEFINE u == distributor.unit
           w == distributor.worker
           s == remote[w].inbox
<1>1. /\ u \in Units /\ u # Stop /\ u # Nothing /\ w \in Workers
      /\ SequencesInv /\ Apart(holds) /\ UNCHANGED data
  BY QueueTypes DEF DistributorSends, TypeInv, ThreadsInv, DistributorInv, UnitInv
<1>2. distributor'.unit = Nothing /\ Remote!Send({w}, u)
  BY DEF DistributorSends, TypeInv, ThreadsInv, DistributorInv, DistributorType
<1>3. u \in holds["distributor"]["unit"]
      /\ holds'["distributor"]["unit"] = holds["distributor"]["unit"] \ {u}
  <2>1. /\ holds["distributor"]["unit"] = {distributor.unit} \ {Nothing}
        /\ holds'["distributor"]["unit"] = {distributor'.unit} \ {Nothing}
    BY HoldsAre, HoldsAreNext
  <2> QED
    BY <1>1, <1>2, <2>1, SlotTakes
<1>4. Keeps(Kinds \ {"distributor", "inbox", "held", "outbox"})
  BY KeepsBut DEF DistributorSends, OnlyDistributor
<1>5. \A x \in Workers \ {w} : remote'[x] = remote[x]
  BY <1>2 DEF Remote!Send
<1>6. /\ remote'[w].held = remote[w].held /\ remote'[w].outbox = remote[w].outbox
      /\ remote'[w].inbox = IF Remote!Listens(w) THEN Append(s, u) ELSE s
  <2>1. remote[w] \in Remote!RemoteWorker
    BY <1>1, RemoteTypes
  <2>2. remote'[w] = IF Remote!Listens(w) THEN [remote[w] EXCEPT !.inbox = Append(@, u)]
                     ELSE remote[w]
    BY <1>1, <1>2 DEF Remote!Send
  <2> QED
    BY <2>1, <2>2 DEF Remote!RemoteWorker
<1>7. s \in Seq(Units \cup {Stop}) /\ Distinct(Stop, s) /\ Distinct(Stop, remote[w].outbox)
  BY <1>1, RemoteTypes DEF SequencesInv
<1>8. u \notin Range(s)
  BY <1>1, <1>3, HoldsAre, OwnersAre DEF Apart, Kinds
<1>9. Distinct(Stop, Append(s, u)) /\ Range(Append(s, u)) = Range(s) \cup {u}
  BY <1>1, <1>7, <1>8, DistinctAppend
<1>10. Distinct(Stop, remote'[w].inbox) /\ Distinct(Stop, remote'[w].outbox)
  BY <1>6, <1>7, <1>9
<1>11. SequencesInv' /\ SameOwners
  <2>1. \A x \in Workers : Distinct(Stop, remote'[x].inbox) /\ Distinct(Stop, remote'[x].outbox)
    BY <1>1, <1>5, <1>10, RemoteSequences
  <2> QED
    BY <1>1, <2>1, SequencesSame DEF SequencesInv, SameOwners, SameQueued, DistributorSends,
       OnlyDistributor
<1>12. /\ \A x \in Workers \ {w} : holds'["inbox"][x] = holds["inbox"][x]
       /\ \A x \in Workers : holds'["held"][x] = holds["held"][x]
       /\ \A x \in Workers : holds'["outbox"][x] = holds["outbox"][x]
       /\ ~Remote!Listens(w) => holds'["inbox"][w] = holds["inbox"][w]
       /\ Remote!Listens(w) => holds'["inbox"][w] = holds["inbox"][w] \cup {u}
  <2>1. Remote!Listens(w) => holds'["inbox"][w] = holds["inbox"][w] \cup {u}
    <3>1. /\ holds["inbox"][w] = Range(s) \ {Stop}
          /\ holds'["inbox"][w] = Range(remote'[w].inbox) \ {Stop}
      BY <1>1, HoldsAre, HoldsAreNext
    <3> QED
      BY <1>1, <1>6, <1>9, <3>1
  <2> QED
    BY <1>1, <1>5, <1>6, <2>1, RemoteHolds
<1> HIDE DEF u, w, s
<1>13. CASE Remote!Listens(w)
  <2>1. Moves(holds, holds', u, "distributor", "unit", "inbox", w)
    BY <1>1, <1>3, <1>4, <1>12, <1>13, OwnersAre DEF Moves, Keeps, Kinds
  <2>2. Computed("distributor", "unit") = Computed("inbox", w)
    BY DEF Computed
  <2> QED
    BY <1>1, <1>11, <2>1, <2>2, MoveStep
<1>14. CASE ~Remote!Listens(w)
  <2>1. ASSUME NEW k \in Kinds, NEW o \in Owners[k]
        PROVE  /\ holds'[k][o] \subseteq holds[k][o]
               /\ Computed(k, o) => holds'[k][o] = holds[k][o]
    BY <1>1, <1>3, <1>4, <1>12, <1>14, OwnersAre DEF Keeps, Kinds, Computed
  <2> QED
    BY <1>1, <1>11, <1>14, <2>1, LoseStep DEF Lossy, w
<1> QED
  BY <1>13, <1>14


LEMMA WorkerHandlerReadsUnits ==
    ASSUME TypeInv, UnitInv, NEW k \in WorkerHandlers, WorkerHandlerReads(k)
    PROVE  UnitsKept
<1> DEFINE w == workerHandler[k].worker
           s == remote[w].outbox
           u == Head(s)
<1>1. w \in Workers /\ s # << >> /\ u # Stop /\ Remote!Receive(w) /\ StoreResult(u)
  BY DEF WorkerHandlerReads, TypeInv, ThreadsInv, WorkerHandlerInv
<1>2. /\ SequencesInv /\ Apart(holds) /\ s \in Seq(Units \cup {Stop}) /\ Distinct(Stop, s)
      /\ Distinct(Stop, remote[w].inbox)
  BY <1>1, RemoteTypes DEF UnitInv, SequencesInv
<1>3. u \in Units /\ u # Nothing
  BY <1>1, <1>2, HeadTailProperties, QueueTypes
<1>4. /\ workerHandler[k].unit = Nothing /\ workerHandler'[k].unit = u
      /\ \A x \in WorkerHandlers \ {k} : workerHandler'[x] = workerHandler[x]
  <2>1. WorkerHandlerType /\ workerHandler[k].at = "read"
    BY DEF WorkerHandlerReads, TypeInv, ThreadsInv, WorkerHandlerInv
  <2>2. workerHandler' = [workerHandler EXCEPT ![k] =
           [workerHandler[k] EXCEPT !.at = "produce", !.unit = u]]
    BY DEF WorkerHandlerReads
  <2> QED
    BY <2>1, <2>2 DEF WorkerHandlerType, UnitInv, SlotsInv
<1>5. /\ holds'["workerHandler"][k] = holds["workerHandler"][k] \cup {u}
      /\ \A x \in WorkerHandlers \ {k} : holds'["workerHandler"][x] = holds["workerHandler"][x]
  BY <1>3, <1>4, WorkerHandlerHolds
<1>6. /\ \A x \in Workers \ {w} : remote'[x] = remote[x]
      /\ remote'[w].inbox = remote[w].inbox /\ remote'[w].held = remote[w].held
      /\ remote'[w].outbox = Tail(s)
  <2>1. remote[w] \in Remote!RemoteWorker /\ DOMAIN remote = Workers
    BY <1>1, RemoteTypes
  <2> QED
    BY <1>1, <2>1 DEF Remote!Receive, Remote!RemoteWorker
<1>7. /\ Distinct(Stop, Tail(s)) /\ u \in Range(s)
      /\ Range(Tail(s)) \ {Stop} = (Range(s) \ {Stop}) \ {u}
  BY <1>1, <1>2, DistinctTail
<1>8. /\ holds["outbox"][w] = Range(s) \ {Stop}
      /\ holds'["outbox"][w] = Range(Tail(s)) \ {Stop}
  BY <1>1, <1>6, HoldsAre, HoldsAreNext
<1>9. /\ u \in holds["outbox"][w]
      /\ holds'["outbox"][w] = holds["outbox"][w] \ {u}
  BY <1>1, <1>7, <1>8
<1>10. /\ \A x \in Workers \ {w} : holds'["outbox"][x] = holds["outbox"][x]
       /\ \A x \in Workers : holds'["inbox"][x] = holds["inbox"][x]
       /\ \A x \in Workers : holds'["held"][x] = holds["held"][x]
  BY <1>1, <1>6, RemoteHolds
<1>11. Keeps(Kinds \ {"workerHandler", "inbox", "held", "outbox"})
  BY KeepsBut DEF WorkerHandlerReads, OnlyWorkerHandler
<1>12. SequencesInv' /\ SameOwners
  <2>1. \A x \in Workers : Distinct(Stop, remote'[x].inbox) /\ Distinct(Stop, remote'[x].outbox)
    BY <1>1, <1>2, <1>6, <1>7, RemoteSequences
  <2> QED
    BY <1>2, <2>1, SequencesSame DEF SequencesInv, SameOwners, SameQueued,
       WorkerHandlerReads, OnlyWorkerHandler
<1> HIDE DEF u, w, s
<1>13. Moves(holds, holds', u, "outbox", w, "workerHandler", k)
  <2>1. Keeps(Kinds \ {"outbox", "workerHandler"})
    BY <1>10, <1>11, OwnersAre DEF Keeps, Kinds
  <2> QED
    BY <1>1, <1>5, <1>9, <1>10, <2>1, OwnersAre, MovesMade DEF Kinds
<1>14. Computed("workerHandler", k)
  BY DEF Computed
<1> QED
  BY <1>1, <1>12, <1>13, <1>14, MoveStep

(* A worker's own steps.                                                   *)
LEMMA TakeUnitUnits ==
    ASSUME TypeInv, UnitInv, OnlyRemote, NEW w \in Workers, Remote!TakeUnit(w)
    PROVE  UnitsKept
<1> DEFINE s == remote[w].inbox
           u == Head(s)
<1>1. /\ SequencesInv /\ Apart(holds) /\ s \in Seq(Units \cup {Stop}) /\ Distinct(Stop, s)
      /\ Distinct(Stop, remote[w].outbox) /\ s # << >> /\ u # Stop /\ UNCHANGED data
  BY RemoteTypes DEF UnitInv, SequencesInv, Remote!TakeUnit, OnlyRemote
<1>2. u \in Units
  BY <1>1, HeadTailProperties
<1>3. /\ \A x \in Workers \ {w} : remote'[x] = remote[x]
      /\ remote'[w].inbox = Tail(s) /\ remote'[w].held = remote[w].held \cup {u}
      /\ remote'[w].outbox = remote[w].outbox
  <2>1. remote[w] \in Remote!RemoteWorker /\ DOMAIN remote = Workers
    BY RemoteTypes
  <2> QED
    BY <2>1 DEF Remote!TakeUnit, Remote!RemoteWorker
<1>4. /\ Distinct(Stop, Tail(s)) /\ u \in Range(s)
      /\ Range(Tail(s)) \ {Stop} = (Range(s) \ {Stop}) \ {u}
  BY <1>1, DistinctTail
<1>5. /\ holds["inbox"][w] = Range(s) \ {Stop}
      /\ holds'["inbox"][w] = Range(Tail(s)) \ {Stop}
      /\ holds'["held"][w] = holds["held"][w] \cup {u}
  BY <1>3, HoldsAre, HoldsAreNext
<1>6. /\ u \in holds["inbox"][w]
      /\ holds'["inbox"][w] = holds["inbox"][w] \ {u}
  BY <1>1, <1>4, <1>5
<1>7. /\ \A x \in Workers \ {w} :
            /\ holds'["inbox"][x] = holds["inbox"][x]
            /\ holds'["held"][x] = holds["held"][x]
      /\ \A x \in Workers : holds'["outbox"][x] = holds["outbox"][x]
  BY <1>3, RemoteHolds
<1>8. Keeps(Kinds \ {"inbox", "held", "outbox"})
  BY KeepsBut DEF OnlyRemote, threads
<1>9. SequencesInv' /\ SameOwners
  <2>1. \A x \in Workers : Distinct(Stop, remote'[x].inbox) /\ Distinct(Stop, remote'[x].outbox)
    BY <1>1, <1>3, <1>4, RemoteSequences
  <2> QED
    BY <1>1, <2>1, SequencesSame DEF SequencesInv, SameOwners, SameQueued, OnlyRemote, threads
<1> HIDE DEF u, s
<1>10. Moves(holds, holds', u, "inbox", w, "held", w)
  <2>1. Keeps(Kinds \ {"inbox", "held"})
    BY <1>7, <1>8, OwnersAre DEF Keeps, Kinds
  <2>2. holds'["held"][w] = holds["held"][w] \cup {u}
    BY <1>5
  <2> QED
    BY <1>6, <1>7, <2>1, <2>2, OwnersAre, MovesMade DEF Kinds
<1>11. Computed("inbox", w) = Computed("held", w)
  BY DEF Computed
<1> QED
  BY <1>1, <1>9, <1>10, <1>11, MoveStep

LEMMA AnswerUnits ==
    ASSUME TypeInv, UnitInv, OnlyRemote, NEW w \in Workers, NEW u \in Units,
           Remote!Answer(w, u)
    PROVE  UnitsKept
<1> DEFINE s == remote[w].outbox
<1>1. /\ SequencesInv /\ Apart(holds) /\ s \in Seq(Units \cup {Stop}) /\ Distinct(Stop, s)
      /\ Distinct(Stop, remote[w].inbox) /\ UNCHANGED data /\ u # Stop
  BY RemoteTypes, QueueTypes DEF UnitInv, SequencesInv, OnlyRemote
<1>2. /\ \A x \in Workers \ {w} : remote'[x] = remote[x]
      /\ remote'[w].inbox = remote[w].inbox /\ remote'[w].held = remote[w].held \ {u}
      /\ remote'[w].outbox = Append(s, u) /\ u \in remote[w].held
  <2>1. remote[w] \in Remote!RemoteWorker /\ DOMAIN remote = Workers
    BY RemoteTypes
  <2> QED
    BY <2>1 DEF Remote!Answer, Remote!RemoteWorker
<1>3. /\ holds["outbox"][w] = Range(s) \ {Stop}
      /\ holds'["outbox"][w] = Range(Append(s, u)) \ {Stop}
      /\ holds'["held"][w] = holds["held"][w] \ {u} /\ u \in holds["held"][w]
  BY <1>2, HoldsAre, HoldsAreNext
<1>4. u \notin Range(s)
  BY <1>1, <1>3, OwnersAre DEF Apart, Kinds
<1>5. Distinct(Stop, Append(s, u)) /\ Range(Append(s, u)) = Range(s) \cup {u}
  BY <1>1, <1>4, DistinctAppend
<1>6. holds'["outbox"][w] = holds["outbox"][w] \cup {u}
  BY <1>1, <1>3, <1>5
<1>7. /\ \A x \in Workers \ {w} :
            /\ holds'["outbox"][x] = holds["outbox"][x]
            /\ holds'["held"][x] = holds["held"][x]
      /\ \A x \in Workers : holds'["inbox"][x] = holds["inbox"][x]
  BY <1>2, RemoteHolds
<1>8. Keeps(Kinds \ {"inbox", "held", "outbox"})
  BY KeepsBut DEF OnlyRemote, threads
<1>9. SequencesInv' /\ SameOwners
  <2>1. \A x \in Workers : Distinct(Stop, remote'[x].inbox) /\ Distinct(Stop, remote'[x].outbox)
    BY <1>1, <1>2, <1>5, RemoteSequences
  <2> QED
    BY <1>1, <2>1, SequencesSame DEF SequencesInv, SameOwners, SameQueued, OnlyRemote, threads
<1> HIDE DEF s
<1>10. Moves(holds, holds', u, "held", w, "outbox", w)
  <2>1. Keeps(Kinds \ {"held", "outbox"})
    BY <1>7, <1>8, OwnersAre DEF Keeps, Kinds
  <2>2. u \in holds["held"][w] /\ holds'["held"][w] = holds["held"][w] \ {u}
    BY <1>3
  <2> QED
    BY <1>6, <1>7, <2>1, <2>2, OwnersAre, MovesMade DEF Kinds
<1>11. Computed("held", w) = Computed("outbox", w)
  BY DEF Computed
<1> QED
  BY <1>1, <1>9, <1>10, <1>11, MoveStep

(* A stop condition that a worker takes or sends is no unit.               *)
LEMMA RemoteStopsUnits ==
    ASSUME TypeInv, UnitInv, OnlyRemote, NEW w \in Workers,
           Remote!TakeStop(w) \/ Remote!Leave(w) \/ Remote!Crash(w)
    PROVE  UnitsKept
<1> DEFINE in == remote[w].inbox
           out == remote[w].outbox
<1>1. /\ SequencesInv /\ Apart(holds) /\ UNCHANGED data
      /\ in \in Seq(Units \cup {Stop}) /\ Distinct(Stop, in)
      /\ out \in Seq(Units \cup {Stop}) /\ Distinct(Stop, out)
      /\ remote[w] \in Remote!RemoteWorker /\ DOMAIN remote = Workers
  BY RemoteTypes DEF UnitInv, SequencesInv, OnlyRemote
<1>2. \A x \in Workers \ {w} : remote'[x] = remote[x]
  BY <1>1 DEF Remote!TakeStop, Remote!Leave, Remote!Crash
<1>3. /\ Distinct(Stop, remote'[w].inbox) /\ Distinct(Stop, remote'[w].outbox)
      /\ Range(remote'[w].inbox) \ {Stop} \subseteq Range(in) \ {Stop}
      /\ remote'[w].held \subseteq remote[w].held
      /\ Range(remote'[w].outbox) \ {Stop} \subseteq Range(out) \ {Stop}
      /\ \/ Remote!Crash(w)
         \/ /\ Range(remote'[w].inbox) \ {Stop} = Range(in) \ {Stop}
            /\ remote'[w].held = remote[w].held
            /\ Range(remote'[w].outbox) \ {Stop} = Range(out) \ {Stop}
  <2>1. CASE Remote!TakeStop(w)
    <3>1. /\ in # << >> /\ Head(in) = Stop /\ remote'[w].inbox = Tail(in)
          /\ remote'[w].held = remote[w].held /\ remote'[w].outbox = out
      BY <1>1, <2>1 DEF Remote!TakeStop, Remote!RemoteWorker
    <3>2. Range(Tail(in)) \ {Stop} = (Range(in) \ {Stop}) \ {Stop}
      BY <1>1, <3>1, DistinctTail
    <3>3. Range(Tail(in)) \ {Stop} = Range(in) \ {Stop}
      BY <3>2
    <3>4. Distinct(Stop, Tail(in))
      BY <1>1, <3>1, DistinctTail
    <3> QED
      BY <1>1, <3>1, <3>3, <3>4
  <2>2. CASE Remote!Leave(w)
    <3>1. /\ remote'[w].inbox = in /\ remote'[w].held = remote[w].held
          /\ remote'[w].outbox = Append(out, Stop)
      BY <1>1, <2>2 DEF Remote!Leave, Remote!RemoteWorker
    <3>2. Distinct(Stop, Append(out, Stop)) /\ Range(Append(out, Stop)) = Range(out) \cup {Stop}
      BY <1>1, DistinctAppend
    <3> QED
      BY <1>1, <3>1, <3>2
  <2>3. CASE Remote!Crash(w)
    <3>1. PICK n \in 0 .. Len(out) :
             remote' = [remote EXCEPT ![w] =
                [state |-> "crashed", inbox |-> << >>, held |-> {},
                 outbox |-> SubSeq(out, 1, n)]]
      BY <2>3 DEF Remote!Crash
    <3>2. Distinct(Stop, SubSeq(out, 1, n)) /\ Range(SubSeq(out, 1, n)) \subseteq Range(out)
      BY <1>1, DistinctPrefix
    <3>3. /\ remote'[w].inbox = << >> /\ remote'[w].held = {}
          /\ remote'[w].outbox = SubSeq(out, 1, n)
      BY <1>1, <3>1
    <3> QED
      BY <2>3, <3>2, <3>3, DistinctEmpty
  <2> QED
    BY <2>1, <2>2, <2>3
<1>4. /\ holds'["inbox"][w] \subseteq holds["inbox"][w]
      /\ holds'["held"][w] \subseteq holds["held"][w]
      /\ holds'["outbox"][w] \subseteq holds["outbox"][w]
  BY <1>3, HoldsAre, HoldsAreNext
<1>5. \A x \in Workers \ {w} :
         /\ holds'["inbox"][x] = holds["inbox"][x]
         /\ holds'["held"][x] = holds["held"][x]
         /\ holds'["outbox"][x] = holds["outbox"][x]
  BY <1>2, RemoteHolds
<1>6. Keeps(Kinds \ {"inbox", "held", "outbox"})
  BY KeepsBut DEF OnlyRemote, threads
<1>7. SequencesInv' /\ SameOwners
  <2>1. \A x \in Workers : Distinct(Stop, remote'[x].inbox) /\ Distinct(Stop, remote'[x].outbox)
    BY <1>1, <1>2, <1>3, RemoteSequences
  <2> QED
    BY <1>1, <2>1, SequencesSame DEF SequencesInv, SameOwners, SameQueued, OnlyRemote, threads
<1>8. ASSUME NEW k \in Kinds, NEW o \in Owners[k]
      PROVE  /\ holds'[k][o] \subseteq holds[k][o]
             /\ Computed(k, o) => holds'[k][o] = holds[k][o]
  BY <1>4, <1>5, <1>6, OwnersAre DEF Keeps, Kinds, Computed
<1>9. Lossy \/ Keeps(Kinds)
  <2>1. CASE ~Remote!Crash(w)
    <3>1. /\ holds'["inbox"][w] = holds["inbox"][w]
          /\ holds'["held"][w] = holds["held"][w]
          /\ holds'["outbox"][w] = holds["outbox"][w]
      <4>1. /\ holds["inbox"][w] = Range(in) \ {Stop}
            /\ holds'["inbox"][w] = Range(remote'[w].inbox) \ {Stop}
            /\ holds["held"][w] = remote[w].held /\ holds'["held"][w] = remote'[w].held
            /\ holds["outbox"][w] = Range(out) \ {Stop}
            /\ holds'["outbox"][w] = Range(remote'[w].outbox) \ {Stop}
        BY HoldsAre, HoldsAreNext
      <4>2. /\ Range(remote'[w].inbox) \ {Stop} = Range(in) \ {Stop}
            /\ remote'[w].held = remote[w].held
            /\ Range(remote'[w].outbox) \ {Stop} = Range(out) \ {Stop}
        BY <1>3, <2>1
      <4> HIDE DEF in, out
      <4> QED
        BY <4>1, <4>2
    <3> QED
      BY <1>5, <1>6, <3>1, OwnersAre DEF Keeps, Kinds
  <2> QED
    BY <2>1 DEF Lossy
<1> QED
  BY <1>1, <1>7, <1>8, <1>9, LoseStep


----
(* Steps that touch no unit and no request: those of a stop condition, of  *)
(* a connection, and those that only change where a thread is.             *)
SlotsSame ==
    /\ \A h \in Handlers : handler'[h].data = handler[h].data
    /\ decomposer'.units = decomposer.units
    /\ distributor'.unit = distributor.unit
    /\ \A c \in Calculators : calculator'[c].unit = calculator[c].unit
    /\ \A k \in WorkerHandlers : workerHandler'[k].unit = workerHandler[k].unit
    /\ assembler'.unit = assembler.unit

QueuesQuiet ==
    \/ UNCHANGED queue
    \/ \E q \in QueueNames : \E e \in ElementsOf(q) :
          /\ Enqueue(q, e) \/ Dequeue(q, e)
          /\ e = Stop \/ q \in {"sockets", "workers"}

LEMMA SlotsHolds ==
    SlotsSame => Keeps({"decomposer", "distributor", "calculator", "workerHandler"})
<1> SUFFICES ASSUME SlotsSame
             PROVE  Keeps({"decomposer", "distributor", "calculator", "workerHandler"})
  OBVIOUS
<1>1. /\ holds'["decomposer"]["units"] = holds["decomposer"]["units"]
      /\ holds'["distributor"]["unit"] = holds["distributor"]["unit"]
  BY HoldsAre, HoldsAreNext DEF SlotsSame
<1>2. ASSUME NEW c \in Calculators PROVE holds'["calculator"][c] = holds["calculator"][c]
  <2>1. /\ holds["calculator"][c] = {calculator[c].unit} \ {Nothing}
        /\ holds'["calculator"][c] = {calculator'[c].unit} \ {Nothing}
        /\ calculator'[c].unit = calculator[c].unit
    BY HoldsAre, HoldsAreNext DEF SlotsSame
  <2> QED
    BY <2>1
<1>3. ASSUME NEW k \in WorkerHandlers
      PROVE  holds'["workerHandler"][k] = holds["workerHandler"][k]
  <2>1. /\ holds["workerHandler"][k] = {workerHandler[k].unit} \ {Nothing}
        /\ holds'["workerHandler"][k] = {workerHandler'[k].unit} \ {Nothing}
        /\ workerHandler'[k].unit = workerHandler[k].unit
    BY HoldsAre, HoldsAreNext DEF SlotsSame
  <2> QED
    BY <2>1
<1> QED
  BY <1>1, <1>2, <1>3, OwnersAre DEF Keeps

LEMMA QueuesQuietHolds ==
    ASSUME TypeInv, SequencesInv, QueuesQuiet
    PROVE  /\ Keeps({"queue"}) /\ SameQueued
           /\ \A x \in UnitQueues \cup DataQueues : Distinct(Stop, queue'[x])
<1>1. CASE UNCHANGED queue
  BY <1>1, HoldsKept, SequencesSame
<1>2. ASSUME NEW q \in QueueNames, NEW e \in ElementsOf(q),
             Enqueue(q, e) \/ Dequeue(q, e), e = Stop \/ q \in {"sockets", "workers"}
      PROVE  /\ Keeps({"queue"}) /\ SameQueued
             /\ \A x \in UnitQueues \cup DataQueues : Distinct(Stop, queue'[x])
  <2>1. q \in {"sockets", "workers"} => q \notin DataQueues
    BY DEF DataQueues
  <2>2. Keeps({"queue"})
    BY <1>2, EnqueuesHolds, DequeuesHolds
  <2>3. SameQueued /\ \A x \in UnitQueues \cup DataQueues : Distinct(Stop, queue'[x])
    BY <1>2, <2>1, QueueStep
  <2> QED
    BY <2>2, <2>3
<1> QED
  BY <1>1, <1>2 DEF QueuesQuiet

LEMMA QuietStep ==
    ASSUME TypeInv, UnitInv, SlotsSame, QueuesQuiet, UNCHANGED data,
           Keeps({"inbox", "held", "outbox"}),
           \A w \in Workers : Distinct(Stop, remote'[w].inbox) /\ Distinct(Stop, remote'[w].outbox)
    PROVE  UnitsKept
<1>1. SequencesInv
  BY DEF UnitInv
<1>2. \A k \in Kinds : \A o \in Owners[k] : holds'[k][o] = holds[k][o]
  BY <1>1, SlotsHolds, QueuesQuietHolds DEF Keeps, Kinds
<1>3. SequencesInv' /\ SameOwners
  BY <1>1, QueuesQuietHolds DEF SequencesInv, SlotsSame, SameOwners, SameQueued
<1>4. \A k \in Kinds : \A o \in Owners[k] :
         holds'[k][o] \subseteq holds[k][o] /\ (Computed(k, o) => holds'[k][o] = holds[k][o])
  BY <1>2
<1>5. Keeps(Kinds)
  BY <1>2 DEF Keeps
<1> QED
  BY <1>3, <1>4, <1>5, LoseStep

LEMMA StillStep ==
    ASSUME TypeInv, UnitInv, SlotsSame, QueuesQuiet, UNCHANGED <<data, remote>>
    PROVE  UnitsKept
<1>1. \A w \in Workers : Distinct(Stop, remote'[w].inbox) /\ Distinct(Stop, remote'[w].outbox)
  BY SequencesSame DEF UnitInv
<1> QED
  BY <1>1, HoldsKept, QuietStep

(* The elements of those steps.                                            *)
LEMMA QuietElements ==
    /\ \A q \in QueueNames : Stop \in ElementsOf(q)
    /\ \A q \in QueueNames : Enqueue(q, Stop) \/ Dequeue(q, Stop) => QueuesQuiet
    /\ \A e \in {Client, Stop} : Enqueue("sockets", e) \/ Dequeue("sockets", e) => QueuesQuiet
    /\ \A w \in Workers : Enqueue("workers", w) \/ Dequeue("workers", w) => QueuesQuiet
    /\ UNCHANGED queue => QueuesQuiet
<1>1. \A q \in QueueNames : Stop \in ElementsOf(q)
  BY DEF ElementsOf
<1>2. "sockets" \in QueueNames /\ "workers" \in QueueNames
  BY DEF QueueNames
<1> QED
  BY <1>1, <1>2, Elements DEF QueuesQuiet

LEMMA MainUnits ==
    ASSUME TypeInv, UnitInv, MainSteps \/ HandleSignal \/ MasterSteps \/ UNCHANGED vars
    PROVE  UnitsKept
<1>1. CASE MainSteps
  <2>1. SlotsSame /\ UNCHANGED <<data, remote>>
    BY <1>1 DEF MainSteps, MainAccepts, MainHands, MainFailsToAccept, MainStops, MainJoins,
       OnlyMain, SlotsSame
  <2>2. QueuesQuiet
    BY <1>1, QuietElements DEF MainSteps, MainAccepts, MainHands, MainFailsToAccept,
       MainStops, MainJoins, QueueNames
  <2> QED
    BY <2>1, <2>2, StillStep
<1>2. CASE HandleSignal \/ UNCHANGED vars
  BY <1>2, StillStep, QuietElements DEF HandleSignal, vars, threads, SlotsSame
<1>3. CASE MasterListens \/ MasterFails \/ MasterEnds \/ MasterAdmits \/ MasterRejects
  <2>1. SlotsSame /\ UNCHANGED <<data, remote, queue>>
    BY <1>3 DEF MasterListens, MasterFails, MasterEnds, MasterAdmits, MasterRejects,
       OnlyMaster, SlotsSame
  <2> QED
    BY <2>1, StillStep, QuietElements
<1>4. CASE MasterHands \/ MasterStops
  <2>1. SlotsSame /\ UNCHANGED <<data, remote>>
    BY <1>4 DEF MasterHands, MasterStops, OnlyMaster, SlotsSame
  <2>2. QueuesQuiet
    BY <1>4, QuietElements DEF MasterHands, MasterStops, QueueNames, TypeInv, ThreadsInv,
       MasterInv
  <2> QED
    BY <2>1, <2>2, StillStep
<1>5. ASSUME NEW w \in Workers, MasterAccepts(w) PROVE UnitsKept
  <2>1. SlotsSame /\ UNCHANGED <<data, queue>>
    BY <1>5 DEF MasterAccepts, OnlyMaster, SlotsSame
  <2>2. /\ \A x \in Workers \ {w} : remote'[x] = remote[x]
        /\ remote'[w].inbox = remote[w].inbox /\ remote'[w].held = remote[w].held
        /\ remote'[w].outbox = remote[w].outbox
    <3>1. remote[w] \in Remote!RemoteWorker /\ DOMAIN remote = Workers
      BY RemoteTypes
    <3> QED
      BY <1>5, <3>1 DEF MasterAccepts, Remote!Connect, Remote!RemoteWorker
  <2>3. Keeps({"inbox", "held", "outbox"})
    BY <2>2, RemoteHolds, OwnersAre DEF Keeps
  <2>4. SequencesInv
    BY DEF UnitInv
  <2>5. \A x \in Workers : Distinct(Stop, remote'[x].inbox) /\ Distinct(Stop, remote'[x].outbox)
    <3>1. Distinct(Stop, remote'[w].inbox) /\ Distinct(Stop, remote'[w].outbox)
      BY <2>2, <2>4 DEF SequencesInv
    <3> QED
      BY <2>2, <2>4, <3>1, RemoteSequences
  <2> QED
    BY <2>1, <2>3, <2>5, QuietStep, QuietElements
<1> QED
  BY <1>1, <1>2, <1>3, <1>4, <1>5 DEF MasterSteps

(* The steps of the threads of the line on connections and stops.          *)
LEMMA HandlerStopsUnits ==
    ASSUME TypeInv, UnitInv, NEW h \in Handlers,
           HandlerTakes(h) \/ HandlerHalts(h) \/ HandlerLeaves(h)
    PROVE  UnitsKept
<1>1. SlotsSame /\ UNCHANGED <<data, remote>>
  BY DEF HandlerTakes, HandlerHalts, HandlerLeaves, OnlyHandler, SlotsSame, TypeInv,
     ThreadsInv, HandlerInv, HandlerType
<1>2. QueuesQuiet
  BY QuietElements DEF HandlerTakes, HandlerHalts, HandlerLeaves, QueueNames
<1> QED
  BY <1>1, <1>2, StillStep

LEMMA LineStopsUnits ==
    ASSUME TypeInv, UnitInv,
           \/ DecomposerTakes /\ Dequeue("decomposer", Stop)
           \/ DecomposerHalts
           \/ DistributorTakes /\ Dequeue("distributor", Stop)
           \/ DistributorFindsNobody \/ DistributorHalts
           \/ \E w \in Workers : DistributorChooses(w)
           \/ AssemblerCountsStop \/ AssemblerHalts \/ ResponderEnds
    PROVE  UnitsKept
<1>1. UNCHANGED <<data, remote>>
  BY DEF DecomposerTakes, DecomposerHalts, DistributorTakes, DistributorFindsNobody,
     DistributorHalts, DistributorChooses, AssemblerCountsStop, AssemblerHalts, ResponderEnds
<1>2. QueuesQuiet
  BY QuietElements DEF DecomposerHalts, DistributorFindsNobody, DistributorHalts,
     DistributorChooses, AssemblerCountsStop, AssemblerHalts, ResponderEnds, QueueNames
<1>3. SlotsSame
  <2>1. Stop \notin Units /\ Stop \notin Requests
    BY QueueTypes
  <2>2. DecomposerType /\ DistributorType /\ AssemblerType
    BY DEF TypeInv, ThreadsInv, DecomposerInv, DistributorInv, AssemblerInv
  <2>3. CASE DecomposerTakes /\ Dequeue("decomposer", Stop)
    <3>1. decomposer'.units = decomposer.units
      BY <2>1, <2>2, <2>3 DEF DecomposerTakes, Dequeue, DecomposerType
    <3> QED
      BY <2>3, <3>1 DEF DecomposerTakes, OnlyDecomposer, SlotsSame
  <2>4. CASE DecomposerHalts
    BY <2>2, <2>4 DEF DecomposerHalts, OnlyDecomposer, SlotsSame, DecomposerType
  <2>5. CASE DistributorTakes /\ Dequeue("distributor", Stop)
    <3>1. distributor'.unit = distributor.unit
      BY <2>1, <2>2, <2>5 DEF DistributorTakes, Dequeue, DistributorType
    <3> QED
      BY <2>5, <3>1 DEF DistributorTakes, OnlyDistributor, SlotsSame
  <2>6. CASE DistributorFindsNobody \/ DistributorHalts \/ \E w \in Workers : DistributorChooses(w)
    BY <2>2, <2>6 DEF DistributorFindsNobody, DistributorHalts, DistributorChooses,
       OnlyDistributor, SlotsSame, DistributorType
  <2>7. CASE AssemblerCountsStop \/ AssemblerHalts \/ ResponderEnds
    BY <2>2, <2>7 DEF AssemblerCountsStop, AssemblerHalts, ResponderEnds, OnlyAssembler,
       OnlyResponder, SlotsSame, AssemblerType
  <2> QED
    BY <2>3, <2>4, <2>5, <2>6, <2>7
<1> QED
  BY <1>1, <1>2, <1>3, StillStep

LEMMA CalculatorStopsUnits ==
    ASSUME TypeInv, UnitInv, NEW c \in Calculators,
           \/ CalculatorProcesses(c) /\ Dequeue("units", Stop)
           \/ CalculatorHalts(c)
    PROVE  UnitsKept
<1>1. Stop \notin Units /\ CalculatorType
  BY QueueTypes DEF TypeInv, ThreadsInv, CalculatorInv
<1>2. QueuesQuiet
  BY QuietElements DEF CalculatorHalts, QueueNames
<1>3. SlotsSame /\ UNCHANGED <<data, remote>>
  <2>1. CASE CalculatorProcesses(c) /\ Dequeue("units", Stop)
    <3>1. calculator' = [calculator EXCEPT ![c].at = "halt"] /\ UNCHANGED data
      BY <1>1, <2>1 DEF CalculatorProcesses, Dequeue
    <3> QED
      BY <1>1, <2>1, <3>1 DEF CalculatorProcesses, OnlyCalculator, SlotsSame, CalculatorType
  <2>2. CASE CalculatorHalts(c)
    BY <1>1, <2>2 DEF CalculatorHalts, OnlyCalculator, SlotsSame, CalculatorType
  <2> QED
    BY <2>1, <2>2
<1> QED
  BY <1>2, <1>3, StillStep

LEMMA WorkerHandlerStopsUnits ==
    ASSUME TypeInv, UnitInv, NEW k \in WorkerHandlers,
           WorkerHandlerTakes(k) \/ WorkerHandlerHalts(k)
    PROVE  UnitsKept
<1>1. WorkerHandlerType
  BY DEF TypeInv, ThreadsInv, WorkerHandlerInv
<1>2. QueuesQuiet
  BY QuietElements DEF WorkerHandlerTakes, WorkerHandlerHalts, QueueNames
<1>3. \A x \in WorkerHandlers : workerHandler'[x].unit = workerHandler[x].unit
  <2>1. CASE WorkerHandlerTakes(k)
    <3>1. \A x \in WorkerHandlers \ {k} : workerHandler'[x] = workerHandler[x]
      BY <1>1, <2>1 DEF WorkerHandlerTakes, WorkerHandlerType
    <3>2. workerHandler'[k].unit = workerHandler[k].unit
      BY <1>1, <2>1 DEF WorkerHandlerTakes, WorkerHandlerType
    <3> QED
      BY <3>1, <3>2
  <2>2. CASE WorkerHandlerHalts(k)
    BY <1>1, <2>2 DEF WorkerHandlerHalts, WorkerHandlerType
  <2> QED
    BY <2>1, <2>2
<1>4. SlotsSame /\ UNCHANGED <<data, remote>>
  BY <1>3 DEF WorkerHandlerTakes, WorkerHandlerHalts, OnlyWorkerHandler, SlotsSame
<1> QED
  BY <1>2, <1>4, StillStep

(* The Distributor tells the workers in the pool to stop, and a handler    *)
(* reads that one did, or finds its connection ended.                      *)
LEMMA StopsWorkersUnits ==
    ASSUME TypeInv, UnitInv, DistributorStopsWorkers
    PROVE  UnitsKept
<1>1. SequencesInv /\ UNCHANGED <<data, queue>> /\ SlotsSame
  BY DEF UnitInv, DistributorStopsWorkers, OnlyDistributor, SlotsSame, TypeInv, ThreadsInv,
     DistributorInv, DistributorType
<1>2. ASSUME NEW w \in Workers
      PROVE  /\ Distinct(Stop, remote'[w].inbox) /\ Distinct(Stop, remote'[w].outbox)
             /\ holds'["inbox"][w] = holds["inbox"][w]
             /\ holds'["held"][w] = holds["held"][w]
             /\ holds'["outbox"][w] = holds["outbox"][w]
  <2> DEFINE s == remote[w].inbox
  <2>1. remote[w] \in Remote!RemoteWorker /\ s \in Seq(Units \cup {Stop})
    BY RemoteTypes
  <2>2. remote'[w] = remote[w] \/ remote'[w] = [remote[w] EXCEPT !.inbox = Append(@, Stop)]
    BY DEF DistributorStopsWorkers, Remote!Send
  <2>3. /\ remote'[w].inbox = s \/ remote'[w].inbox = Append(s, Stop)
        /\ remote'[w].held = remote[w].held /\ remote'[w].outbox = remote[w].outbox
    BY <2>1, <2>2 DEF Remote!RemoteWorker
  <2>4. Distinct(Stop, s) /\ Distinct(Stop, remote[w].outbox)
    BY <1>1 DEF SequencesInv
  <2>5. Distinct(Stop, Append(s, Stop)) /\ Range(Append(s, Stop)) = Range(s) \cup {Stop}
    BY <2>1, <2>4, DistinctAppend
  <2>6. Range(remote'[w].inbox) \ {Stop} = Range(s) \ {Stop}
    BY <2>3, <2>5
  <2>7. /\ holds["inbox"][w] = Range(s) \ {Stop}
        /\ holds'["inbox"][w] = Range(remote'[w].inbox) \ {Stop}
        /\ holds["held"][w] = remote[w].held /\ holds'["held"][w] = remote'[w].held
        /\ holds["outbox"][w] = Range(remote[w].outbox) \ {Stop}
        /\ holds'["outbox"][w] = Range(remote'[w].outbox) \ {Stop}
    BY HoldsAre, HoldsAreNext
  <2> QED
    BY <2>3, <2>4, <2>5, <2>6, <2>7
<1>3. Keeps({"inbox", "held", "outbox"})
  BY <1>2, OwnersAre DEF Keeps
<1> QED
  BY <1>1, <1>2, <1>3, QuietStep, QuietElements

LEMMA WorkerHandlerDropsUnits ==
    ASSUME TypeInv, UnitInv, NEW k \in WorkerHandlers, WorkerHandlerDrops(k)
    PROVE  UnitsKept
<1> DEFINE w == workerHandler[k].worker
           s == remote[w].outbox
<1>1. SequencesInv /\ UNCHANGED <<data, queue>> /\ SlotsSame /\ w \in Workers
  <2>1. \A x \in WorkerHandlers : workerHandler'[x].unit = workerHandler[x].unit
    <3>1. WorkerHandlerType
      BY DEF TypeInv, ThreadsInv, WorkerHandlerInv
    <3>2. workerHandler' = [workerHandler EXCEPT ![k] =
             [workerHandler[k] EXCEPT !.at = "take", !.worker = Nothing]]
      BY DEF WorkerHandlerDrops
    <3> QED
      BY <3>1, <3>2 DEF WorkerHandlerType
  <2> QED
    BY <2>1 DEF UnitInv, WorkerHandlerDrops, OnlyWorkerHandler, SlotsSame, TypeInv,
       ThreadsInv, WorkerHandlerInv
<1>2. CASE UNCHANGED remote
  BY <1>1, <1>2, StillStep, QuietElements
<1>3. CASE s # << >> /\ Head(s) = Stop /\ Remote!Receive(w)
  <2>1. /\ \A x \in Workers \ {w} : remote'[x] = remote[x]
        /\ remote'[w].inbox = remote[w].inbox /\ remote'[w].held = remote[w].held
        /\ remote'[w].outbox = Tail(s)
    <3>1. remote[w] \in Remote!RemoteWorker /\ DOMAIN remote = Workers
      BY <1>1, RemoteTypes
    <3> QED
      BY <1>1, <1>3, <3>1 DEF Remote!Receive, Remote!RemoteWorker
  <2>2. s \in Seq(Units \cup {Stop}) /\ Distinct(Stop, s) /\ Distinct(Stop, remote[w].inbox)
    BY <1>1, RemoteTypes DEF SequencesInv
  <2>3. /\ Distinct(Stop, Tail(s))
        /\ Range(Tail(s)) \ {Stop} = (Range(s) \ {Stop}) \ {Head(s)}
    BY <1>3, <2>2, DistinctTail
  <2>4. Range(Tail(s)) \ {Stop} = Range(s) \ {Stop}
    BY <1>3, <2>3
  <2>5. holds'["outbox"][w] = holds["outbox"][w]
    <3>1. /\ holds["outbox"][w] = Range(s) \ {Stop}
          /\ holds'["outbox"][w] = Range(Tail(s)) \ {Stop}
      BY <1>1, <2>1, HoldsAre, HoldsAreNext
    <3> QED
      BY <2>4, <3>1
  <2>6. Keeps({"inbox", "held", "outbox"})
    BY <1>1, <2>1, <2>5, RemoteHolds, OwnersAre DEF Keeps
  <2>7. \A x \in Workers : Distinct(Stop, remote'[x].inbox) /\ Distinct(Stop, remote'[x].outbox)
    BY <1>1, <2>1, <2>2, <2>3, RemoteSequences
  <2> QED
    BY <1>1, <2>6, <2>7, QuietStep, QuietElements
<1> QED
  BY <1>2, <1>3 DEF WorkerHandlerDrops


----
(* How many units a request has.                                           *)
LEMMA UnitsCount ==
    ASSUME NEW r \in Requests
    PROVE  /\ Queries[r] \in Nat
           /\ IsFiniteSet(UnitsOf(r)) /\ Cardinality(UnitsOf(r)) = Queries[r]
           /\ \A S \in SUBSET UnitsOf(r) :
                 /\ IsFiniteSet(S) /\ Cardinality(S) \in Nat
                 /\ Cardinality(S) = 0 <=> S = {}
<1> DEFINE n == Queries[r]
           f == [i \in 1 .. n |-> <<r, i>>]
<1>1. n \in Nat
  BY LineAssumption
<1>2. IsFiniteSet(1 .. n) /\ Cardinality(1 .. n) = n
  BY <1>1, FS_Interval
<1>3. ExistsBijection(1 .. n, UnitsOf(r))
  <2>1. f \in [1 .. n -> UnitsOf(r)]
    BY DEF UnitsOf
  <2>2. \A i, j \in 1 .. n : f[i] = f[j] => i = j
    OBVIOUS
  <2>3. \A u \in UnitsOf(r) : \E i \in 1 .. n : f[i] = u
    BY DEF UnitsOf
  <2> HIDE DEF f
  <2>4. f \in Injection(1 .. n, UnitsOf(r))
    BY <2>1, <2>2 DEF Injection, IsInjective
  <2>5. f \in Surjection(1 .. n, UnitsOf(r))
    BY <2>1, <2>3 DEF Surjection
  <2> QED
    BY <2>4, <2>5 DEF ExistsBijection, Bijection
<1>4. IsFiniteSet(UnitsOf(r)) /\ Cardinality(UnitsOf(r)) = n
  BY <1>2, <1>3, FS_Bijection
<1>5. ASSUME NEW S \in SUBSET UnitsOf(r)
      PROVE  /\ IsFiniteSet(S) /\ Cardinality(S) \in Nat
             /\ Cardinality(S) = 0 <=> S = {}
  <2>1. IsFiniteSet(S)
    BY <1>4, FS_Subset
  <2> QED
    BY <2>1, FS_CardinalityType, FS_EmptySet
<1> QED
  BY <1>1, <1>4, <1>5

(* A request that a step does not concern.                                 *)
LEMMA OtherRequest ==
    ASSUME NEW r \in Requests, RequestsInv, data'[r] = data[r],
           Undecomposed(r)' <=> Undecomposed(r), r \in ToRespond' <=> r \in ToRespond,
           UnitsOf(r) \cap Flying(holds') = UnitsOf(r) \cap Flying(holds)
    PROVE  RequestInv(holds', data', r, Undecomposed(r)', r \in ToRespond')
<1>1. RequestInv(holds, data, r, Undecomposed(r), r \in ToRespond)
  BY DEF RequestsInv
<1>2. Unfinished(holds', data', r) = Unfinished(holds, data, r)
  <2>1. \A u \in UnitsOf(r) : u \in Flying(holds') <=> u \in Flying(holds)
    OBVIOUS
  <2> QED
    BY <2>1 DEF Unfinished
<1> QED
  BY <1>1, <1>2 DEF RequestInv

LEMMA FlyingKept ==
    ASSUME Keeps(Kinds)
    PROVE  Flying(holds') = Flying(holds) /\ (Apart(holds) => Apart(holds'))
  BY DEF Keeps, Flying, Apart

(* createConcurrentData().                                                 *)
LEMMA HandlerCreatesUnits ==
    ASSUME TypeInv, UnitInv, NEW h \in Handlers, NEW r \in Requests, HandlerCreates(h, r)
    PROVE  UnitsKept
<1>1. /\ SequencesInv /\ SlotsInv /\ OneOwner /\ Apart(holds) /\ Stored(holds, data)
      /\ RequestsInv
  BY DEF UnitInv
<1>2. /\ \A x \in Handlers \ {h} : handler'[x] = handler[x]
      /\ handler'[h].data = r /\ handler[h].data = Nothing
  BY <1>1 DEF HandlerCreates, SlotsInv, TypeInv, ThreadsInv, HandlerInv, HandlerType
<1>3. /\ \A x \in Requests \ {r} : data'[x] = data[x]
      /\ data[r].phase = "unseen" /\ data'[r].phase = "live" /\ Queries[r] > 0
      /\ data'[r].pending = Queries[r] /\ data'[r].results = data[r].results
  <2>1. DataType
    BY DEF TypeInv, SharedInv, DataInv
  <2>2. data' = [data EXCEPT ![r] =
           [data[r] EXCEPT !.phase = "live", !.pending = Queries[r]]]
    BY DEF HandlerCreates
  <2> QED
    BY <2>1, <2>2 DEF DataType, HandlerCreates
<1>4. UNCHANGED <<queue, assembler, decomposer, remote>> /\ Keeps(Kinds)
  BY KeepsBut DEF HandlerCreates, OnlyHandler
<1>5. RequestInv(holds, data, r, Undecomposed(r), r \in ToRespond)
  BY <1>1 DEF RequestsInv
<1>6. /\ data[r].results = {} /\ ~Undecomposed(r) /\ r \notin ToRespond
      /\ UnitsOf(r) \cap Flying(holds) = {}
  BY <1>3, <1>5 DEF RequestInv
<1>7. r \notin Range(queue["decomposer"]) /\ \A x \in Handlers : handler[x].data # r
  BY <1>6 DEF Undecomposed
<1>8. OneOwner'
  <2>1. \A h1, h2 \in Handlers :
           handler'[h1].data = handler'[h2].data /\ handler'[h1].data # Nothing => h1 = h2
    BY <1>1, <1>2, <1>7 DEF OneOwner
  <2>2. \A x \in Handlers :
           handler'[x].data # Nothing => handler'[x].data \notin Range(queue'["decomposer"])
    BY <1>1, <1>2, <1>4, <1>7 DEF OneOwner
  <2> QED
    BY <1>1, <1>4, <2>1, <2>2 DEF OneOwner
<1>9. SequencesInv'
  BY <1>1, <1>4, SequencesSame DEF SequencesInv
<1>10. Apart(holds') /\ Flying(holds') = Flying(holds)
  BY <1>1, <1>4, FlyingKept
<1>11. \A x \in Requests : data'[x].results = data[x].results
  BY <1>3
<1>12. Stored(holds', data')
  <2>1. \A k \in Kinds : \A o \in Owners[k] : \A u \in holds[k][o] : u[1] \in Requests
    BY HoldsType, UnitParts
  <2> QED
    BY <1>1, <1>4, <1>11, <2>1 DEF Stored, Keeps
<1>13. ToRespond' = ToRespond
  BY <1>4 DEF ToRespond
<1>14. \A x \in Requests \ {r} : Undecomposed(x)' <=> Undecomposed(x)
  <2>1. Nothing \notin Requests
    BY QueueTypes
  <2> QED
    BY <1>2, <1>4, <2>1 DEF Undecomposed
<1>15. RequestsInv'
  <2>1. ASSUME NEW x \in Requests \ {r}
        PROVE  RequestInv(holds', data', x, Undecomposed(x)', x \in ToRespond')
    BY <1>1, <1>3, <1>10, <1>13, <1>14, OtherRequest
  <2>2. RequestInv(holds', data', r, Undecomposed(r)', r \in ToRespond')
    <3>1. Unfinished(holds', data', r) = UnitsOf(r)
      BY <1>6, <1>11 DEF Unfinished
    <3>2. data'[r].pending = Cardinality(Unfinished(holds', data', r))
      BY <1>3, <3>1, UnitsCount
    <3> QED
      BY <1>3, <1>6, <1>10, <1>11, <1>13, <3>2, UnitsCount DEF RequestInv
  <2> QED
    BY <2>1, <2>2 DEF RequestsInv
<1>16. NoneLost => NoneLost'
  BY <1>2, <1>3, <1>10, <1>11, <1>14, NoneLostKept DEF Undecomposed
<1> QED
  BY <1>8, <1>9, <1>10, <1>12, <1>15, <1>16 DEF UnitsKept

(* A request is passed on to the Decomposer, in one piece.                 *)
LEMMA HandlerProducesUnits ==
    ASSUME TypeInv, UnitInv, NEW h \in Handlers, HandlerProduces(h)
    PROVE  UnitsKept
<1> DEFINE r == handler[h].data
<1>1. /\ SequencesInv /\ OneOwner /\ Apart(holds) /\ Stored(holds, data) /\ RequestsInv
  BY DEF UnitInv
<1>2. /\ r \in Requests /\ r # Stop /\ r # Nothing /\ Enqueue("decomposer", r)
      /\ handler'[h].data = Nothing /\ \A x \in Handlers \ {h} : handler'[x] = handler[x]
  BY QueueTypes DEF HandlerProduces, TypeInv, ThreadsInv, HandlerInv, HandlerType
<1>3. "decomposer" \in QueueNames /\ "decomposer" \in DataQueues /\ r \in ElementsOf("decomposer")
  BY <1>2, Elements DEF QueueNames, DataQueues
<1>4. /\ UNCHANGED <<assembler, decomposer, remote, data>> /\ Keeps(Kinds \ {"queue"})
  BY KeepsBut DEF HandlerProduces, OnlyHandler
<1>5. Keeps(Kinds)
  <2>1. Keeps({"queue"})
    BY <1>2, <1>3, EnqueuesHolds
  <2> QED
    BY <1>4, <2>1 DEF Keeps
<1>6. r \notin Range(queue["decomposer"])
  BY <1>1, <1>2 DEF OneOwner
<1>7. SequencesInv'
  <2>1. \A x \in UnitQueues \cup DataQueues : Distinct(Stop, queue'[x])
    BY <1>1, <1>2, <1>3, <1>6, QueueStep
  <2> QED
    BY <1>1, <1>4, <2>1, SequencesSame DEF SequencesInv
<1>8. /\ Range(queue'["decomposer"]) = Range(queue["decomposer"]) \cup {r}
      /\ queue'["responder"] = queue["responder"]
  <2>1. "responder" \in QueueNames \ {"decomposer"}
    BY DEF QueueNames
  <2> QED
    BY <1>2, <1>3, <2>1, Enqueues
<1>9. OneOwner'
  <2>1. \A x \in Handlers \ {h} : handler[x].data # r
    BY <1>1, <1>2 DEF OneOwner
  <2>2. \A h1, h2 \in Handlers :
           handler'[h1].data = handler'[h2].data /\ handler'[h1].data # Nothing => h1 = h2
    BY <1>1, <1>2 DEF OneOwner
  <2>3. \A x \in Handlers :
           handler'[x].data # Nothing => handler'[x].data \notin Range(queue'["decomposer"])
    BY <1>1, <1>2, <1>8, <2>1 DEF OneOwner
  <2> QED
    BY <1>1, <1>4, <1>8, <2>2, <2>3 DEF OneOwner
<1>10. SameRequests
  <2>1. ASSUME NEW x \in Requests PROVE Undecomposed(x)' <=> Undecomposed(x)
    <3>1. CASE x = r
      BY <1>8, <3>1 DEF Undecomposed
    <3>2. CASE x # r
      <4>1. x \in Range(queue'["decomposer"]) <=> x \in Range(queue["decomposer"])
        BY <1>8, <3>2
      <4>2. (\E y \in Handlers : handler'[y].data = x) <=> \E y \in Handlers : handler[y].data = x
        <5>1. x # Nothing
          BY QueueTypes
        <5> QED
          BY <1>2, <3>2, <5>1
      <4> QED
        BY <4>1, <4>2 DEF Undecomposed
    <3> QED
      BY <3>1, <3>2
  <2>2. ToRespond' = ToRespond
    BY <1>4, <1>8 DEF ToRespond
  <2> QED
    BY <2>1, <2>2 DEF SameRequests
<1>11. Apart(holds') /\ Flying(holds') = Flying(holds)
  BY <1>1, <1>5, FlyingKept
<1>12. Stored(holds', data')
  BY <1>1, <1>4, <1>5 DEF Stored, Keeps
<1>13. RequestsInv'
  BY <1>1, <1>4, <1>10, <1>11, RequestsKept
<1>14. NoneLost => NoneLost'
  BY <1>4, <1>10, <1>11, NoneLostKept DEF SameRequests
<1> QED
  BY <1>7, <1>9, <1>11, <1>12, <1>13, <1>14 DEF UnitsKept

(* A request of no query is answered at once.                              *)
LEMMA HandlerAnswersUnits ==
    ASSUME TypeInv, UnitInv, NEW h \in Handlers, NEW r \in Requests, HandlerAnswers(h, r)
    PROVE  UnitsKept
<1>1. /\ SequencesInv /\ OneOwner /\ Apart(holds) /\ Stored(holds, data) /\ RequestsInv
  BY DEF UnitInv
<1>2. /\ \A x \in Requests \ {r} : data'[x] = data[x]
      /\ data[r].phase = "unseen" /\ data'[r].phase = "answered"
      /\ data'[r].results = data[r].results
  BY DEF HandlerAnswers, TypeInv, SharedInv, DataInv, DataType
<1>3. UNCHANGED <<handler, queue, assembler, decomposer, remote>> /\ Keeps(Kinds)
  BY KeepsBut DEF HandlerAnswers, OnlyHandler
<1>4. SequencesInv'
  BY <1>1, <1>3, SequencesSame DEF SequencesInv
<1>5. OneOwner' /\ SameRequests
  BY <1>1, <1>3, OwnersSame DEF SameOwners
<1>6. Apart(holds') /\ Flying(holds') = Flying(holds)
  BY <1>1, <1>3, FlyingKept
<1>7. \A x \in Requests : data'[x].results = data[x].results
  BY <1>2
<1>8. Stored(holds', data')
  <2>1. \A k \in Kinds : \A o \in Owners[k] : \A u \in holds[k][o] : u[1] \in Requests
    BY HoldsType, UnitParts
  <2> QED
    BY <1>1, <1>3, <1>7, <2>1 DEF Stored, Keeps
<1>9. RequestsInv'
  <2>1. ASSUME NEW x \in Requests \ {r}
        PROVE  RequestInv(holds', data', x, Undecomposed(x)', x \in ToRespond')
    BY <1>1, <1>2, <1>5, <1>6, OtherRequest DEF SameRequests
  <2>2. RequestInv(holds', data', r, Undecomposed(r)', r \in ToRespond')
    <3>1. RequestInv(holds, data, r, Undecomposed(r), r \in ToRespond)
      BY <1>1 DEF RequestsInv
    <3> QED
      BY <1>2, <1>5, <1>6, <1>7, <3>1 DEF RequestInv, SameRequests
  <2> QED
    BY <2>1, <2>2 DEF RequestsInv
<1>10. NoneLost => NoneLost'
  BY <1>2, <1>5, <1>6, <1>7, NoneLostKept DEF SameRequests
<1> QED
  BY <1>4, <1>5, <1>6, <1>8, <1>9, <1>10 DEF UnitsKept


(* A request in the Decomposer's queue is in one piece.                    *)
LEMMA WholeRequest ==
    ASSUME RequestsInv, NEW r \in Requests, Undecomposed(r)
    PROVE  /\ data[r].phase = "live" /\ data[r].results = {}
           /\ UnitsOf(r) \cap Flying(holds) = {}
           /\ Unfinished(holds, data, r) = UnitsOf(r)
           /\ data[r].pending = Queries[r] /\ r \notin ToRespond
<1>1. RequestInv(holds, data, r, Undecomposed(r), r \in ToRespond)
  BY DEF RequestsInv
<1>2. data[r].results = {} /\ data[r].phase = "live" /\ UnitsOf(r) \cap Flying(holds) = {}
  BY <1>1 DEF RequestInv
<1>3. Unfinished(holds, data, r) = UnitsOf(r)
  BY <1>2 DEF Unfinished
<1>4. /\ data[r].pending = Cardinality(Unfinished(holds, data, r)) /\ Queries[r] > 0
      /\ data[r].pending = 0 <=> r \in ToRespond
  BY <1>1, <1>2 DEF RequestInv
<1>5. data[r].pending = Queries[r]
  BY <1>3, <1>4, UnitsCount
<1>6. r \notin ToRespond
  BY <1>4, <1>5, UnitsCount
<1> QED
  BY <1>2, <1>3, <1>5, <1>6

(* decompose(): the units of a request are all made at once, and held by   *)
(* nobody else.                                                            *)
LEMMA DecomposerTakesUnits ==
    ASSUME TypeInv, UnitInv, NEW r \in Requests, DecomposerTakes, Dequeue("decomposer", r)
    PROVE  UnitsKept
<1>1. /\ SequencesInv /\ SlotsInv /\ OneOwner /\ Apart(holds) /\ Stored(holds, data)
      /\ RequestsInv
  BY DEF UnitInv
<1>2. /\ "decomposer" \in QueueNames /\ "decomposer" \in DataQueues
      /\ "responder" \in QueueNames
  BY DEF QueueNames, DataQueues
<1>3. /\ r \in Range(queue["decomposer"]) /\ queue'["responder"] = queue["responder"]
      /\ Range(queue'["decomposer"]) \ {Stop} = (Range(queue["decomposer"]) \ {Stop}) \ {r}
  BY <1>1, <1>2, Dequeues DEF SequencesInv
<1>4. Undecomposed(r)
  BY <1>3 DEF Undecomposed
<1>5. /\ data[r].phase = "live" /\ data[r].results = {}
      /\ UnitsOf(r) \cap Flying(holds) = {} /\ data[r].pending = Queries[r]
      /\ Unfinished(holds, data, r) = UnitsOf(r)
  BY <1>1, <1>4, WholeRequest
<1>6. decomposer.units = << >> /\ decomposer'.units = Decompose(r)
  <2>1. Stop # r /\ DecomposerType
    BY QueueTypes DEF TypeInv, ThreadsInv, DecomposerInv
  <2> QED
    BY <1>1, <2>1 DEF DecomposerTakes, Dequeue, SlotsInv, DecomposerType
<1>7. Distinct(Stop, Decompose(r)) /\ Range(Decompose(r)) = UnitsOf(r)
  <2>1. Decompose(r) = [i \in 1 .. Queries[r] |-> <<r, i>>]
    BY <1>5 DEF Decompose
  <2> QED
    BY <2>1 DEF Distinct, Range, UnitsOf
<1>8. UNCHANGED <<handler, assembler, remote, data>> /\ Keeps(Kinds \ {"decomposer"})
  <2>1. Keeps(Kinds \ {"queue", "decomposer"})
    BY KeepsBut DEF DecomposerTakes, OnlyDecomposer
  <2>2. Keeps({"queue"})
    BY <1>1, <1>2, DequeuesHolds
  <2> QED
    BY <2>1, <2>2 DEF Keeps, Kinds, DecomposerTakes, OnlyDecomposer
<1>9. holds["decomposer"]["units"] = {} /\ holds'["decomposer"]["units"] = UnitsOf(r)
  BY <1>6, <1>7, DistinctEmpty, HoldsAre, HoldsAreNext
<1>10. ASSUME NEW k \in Kinds, NEW o \in Owners[k], k # "decomposer"
       PROVE  holds'[k][o] = holds[k][o] /\ holds[k][o] \cap UnitsOf(r) = {}
  <2>1. holds'[k][o] = holds[k][o]
    BY <1>8, <1>10 DEF Keeps
  <2>2. holds[k][o] \subseteq Flying(holds)
    BY HoldsType DEF Flying
  <2> QED
    BY <1>5, <2>1, <2>2
<1>11. Apart(holds')
  BY <1>1, <1>9, <1>10, OwnersAre DEF Apart
<1>12. Stored(holds', data')
  <2>1. \A u \in UnitsOf(r) : u[1] = r
    BY DEF UnitsOf
  <2>2. ~Computed("decomposer", "units")
    BY DEF Computed
  <2>3. \A k \in Kinds : \A o \in Owners[k] : k = "decomposer" => o = "units"
    BY OwnersAre
  <2>4. ASSUME NEW k \in Kinds, NEW o \in Owners[k], NEW u \in holds'[k][o]
        PROVE  u[2] \in data'[u[1]].results <=> Computed(k, o)
    <3>1. CASE k = "decomposer"
      BY <1>5, <1>8, <1>9, <2>1, <2>2, <2>3, <2>4, <3>1
    <3>2. CASE k # "decomposer"
      BY <1>1, <1>8, <1>10, <2>4, <3>2 DEF Stored
    <3> QED
      BY <3>1, <3>2
  <2> QED
    BY <2>4 DEF Stored
<1>13. ASSUME NEW u \in Units
       PROVE  u \in Flying(holds') <=> u \in Flying(holds) \/ u \in UnitsOf(r)
  <2>1. "decomposer" \in Kinds /\ "units" \in Owners["decomposer"]
    BY OwnersAre DEF Kinds
  <2>2. CASE u \in UnitsOf(r)
    BY <1>9, <2>1, <2>2 DEF Flying
  <2>3. CASE u \notin UnitsOf(r)
    <3>1. \A k \in Kinds : \A o \in Owners[k] : u \in holds'[k][o] <=> u \in holds[k][o]
      BY <1>9, <1>10, <2>3, OwnersAre
    <3> QED
      BY <2>3, <3>1 DEF Flying
  <2> QED
    BY <2>2, <2>3
<1>14. SequencesInv'
  <2>1. \A x \in UnitQueues \cup DataQueues : Distinct(Stop, queue'[x])
    BY <1>1, <1>2, QueueStep
  <2> QED
    BY <1>1, <1>6, <1>7, <1>8, <2>1, SequencesSame DEF SequencesInv
<1>15. Nothing \notin Requests /\ Stop \notin Requests
  BY QueueTypes
<1>16. OneOwner'
  <2>1. \A x \in Requests : x \in Range(queue'["decomposer"]) => x \in Range(queue["decomposer"])
    BY <1>3, <1>15
  <2> QED
    BY <1>1, <1>3, <1>8, <2>1, RequestOwners DEF OneOwner
<1>17. ToRespond' = ToRespond
  BY <1>3, <1>8 DEF ToRespond
<1>18. ~Undecomposed(r)' /\ \A x \in Requests \ {r} : Undecomposed(x)' <=> Undecomposed(x)
  <2>1. /\ r \notin Range(queue'["decomposer"])
        /\ \A x \in Requests \ {r} :
              x \in Range(queue'["decomposer"]) <=> x \in Range(queue["decomposer"])
    BY <1>3, <1>15
  <2>2. \A h \in Handlers : handler'[h].data = handler[h].data /\ handler[h].data # r
    BY <1>1, <1>3, <1>8, <1>15 DEF OneOwner
  <2> QED
    BY <2>1, <2>2 DEF Undecomposed
<1>19. RequestsInv'
  <2>1. ASSUME NEW x \in Requests \ {r}
        PROVE  RequestInv(holds', data', x, Undecomposed(x)', x \in ToRespond')
    <3>1. \A u \in UnitsOf(x) : u \in Units /\ u \notin UnitsOf(r)
      BY DEF Units, UnitsOf
    <3>2. UnitsOf(x) \cap Flying(holds') = UnitsOf(x) \cap Flying(holds)
      BY <1>13, <3>1
    <3> QED
      BY <1>1, <1>8, <1>17, <1>18, <3>2, OtherRequest
  <2>2. RequestInv(holds', data', r, Undecomposed(r)', r \in ToRespond')
    <3>1. RequestInv(holds, data, r, Undecomposed(r), r \in ToRespond)
      BY <1>1 DEF RequestsInv
    <3>2. Unfinished(holds', data', r) = UnitsOf(r)
      BY <1>5, <1>8 DEF Unfinished
    <3> QED
      BY <1>5, <1>8, <1>17, <1>18, <3>1, <3>2 DEF RequestInv
  <2> QED
    BY <2>1, <2>2 DEF RequestsInv
<1>20. NoneLost => NoneLost'
  <2>1. UnitsOf(r) \subseteq Units /\ Flying(holds) \subseteq Units
    BY DEF Units, Flying
  <2> QED
    BY <1>8, <1>13, <1>18, <2>1, NoneLostKept
<1> QED
  BY <1>11, <1>12, <1>14, <1>16, <1>19, <1>20 DEF UnitsKept

(* markUnitReady(): the unit is in flight no more, and it was pending.     *)
LEMMA AssemblerMarksUnits ==
    ASSUME TypeInv, UnitInv, NEW u \in Units, AssemblerMarks, Dequeue("assembler", u)
    PROVE  UnitsKept
<1> DEFINE r == u[1]
           pending == IF data[r].pending > 0 THEN data[r].pending - 1 ELSE 0
<1>1. /\ SequencesInv /\ SlotsInv /\ OneOwner /\ Apart(holds) /\ Stored(holds, data)
      /\ RequestsInv
  BY DEF UnitInv
<1>2. /\ "assembler" \in QueueNames /\ "assembler" \in UnitQueues
      /\ "decomposer" \in QueueNames \ {"assembler"}
      /\ "responder" \in QueueNames \ {"assembler"}
  BY DEF QueueNames, UnitQueues
<1>3. r \in Requests /\ u \in UnitsOf(r) /\ u = <<r, u[2]>> /\ u # Stop /\ u # Nothing
  BY UnitParts, QueueTypes DEF Units, UnitsOf
<1>4. /\ assembler.unit = Nothing /\ AssemblerType
      /\ UNCHANGED <<decomposer, handler, remote>>
      /\ queue'["decomposer"] = queue["decomposer"]
      /\ queue'["responder"] = queue["responder"]
      /\ data' = [data EXCEPT ![r].pending = pending]
      /\ assembler' = IF IsReady(pending) THEN [assembler EXCEPT !.at = "produce", !.unit = u]
                      ELSE assembler
  <2>1. /\ queue'["decomposer"] = queue["decomposer"]
        /\ queue'["responder"] = queue["responder"]
    BY <1>2, Dequeues
  <2>2. u = Head(queue["assembler"])
    BY DEF Dequeue
  <2>3. \A v : Dequeue("assembler", v) => v = u
    BY <2>2 DEF Dequeue
  <2> QED
    BY <1>1, <2>1, <2>3 DEF AssemblerMarks, OnlyAssembler, SlotsInv, TypeInv, ThreadsInv,
       AssemblerInv
<1>5. /\ u \in holds["queue"]["assembler"]
      /\ holds'["queue"]["assembler"] = holds["queue"]["assembler"] \ {u}
      /\ \A x \in UnitQueues \ {"assembler"} : holds'["queue"][x] = holds["queue"][x]
  BY <1>1, <1>2, <1>3, DequeuesHolds
<1>6. Keeps(Kinds \ {"queue"})
  BY KeepsBut DEF AssemblerMarks, OnlyAssembler
<1>7. ASSUME NEW k \in Kinds, NEW o \in Owners[k]
      PROVE  /\ u \notin holds'[k][o]
             /\ \A v : v # u => (v \in holds'[k][o] <=> v \in holds[k][o])
  <2>1. CASE k = "queue" /\ o = "assembler"
    BY <1>5, <2>1
  <2>2. CASE ~(k = "queue" /\ o = "assembler")
    <3>1. holds'[k][o] = holds[k][o]
      <4>1. CASE k = "queue"
        BY <1>5, <2>2, <4>1, OwnersAre
      <4>2. CASE k # "queue"
        BY <1>6, <4>2 DEF Keeps
      <4> QED
        BY <4>1, <4>2
    <3>2. "queue" \in Kinds /\ "assembler" \in Owners["queue"]
      BY <1>2, OwnersAre DEF Kinds
    <3>3. holds[k][o] \cap holds["queue"]["assembler"] = {}
      BY <1>1, <2>2, <3>2 DEF Apart
    <3> QED
      BY <1>5, <3>1, <3>3
  <2> QED
    BY <2>1, <2>2
<1>8. Apart(holds')
  BY <1>1, <1>7 DEF Apart
<1>9. /\ u \in Flying(holds) /\ u \notin Flying(holds')
      /\ \A v : v # u => (v \in Flying(holds') <=> v \in Flying(holds))
  <2>1. "queue" \in Kinds /\ "assembler" \in Owners["queue"]
    BY <1>2, OwnersAre DEF Kinds
  <2> QED
    BY <1>5, <1>7, <2>1 DEF Flying
<1>10. u[2] \in data[r].results
  <2>1. "queue" \in Kinds /\ "assembler" \in Owners["queue"] /\ Computed("queue", "assembler")
    BY <1>2, OwnersAre DEF Kinds, Computed
  <2> QED
    BY <1>1, <1>5, <2>1 DEF Stored
<1>11. /\ \A x \in Requests \ {r} : data'[x] = data[x]
       /\ data'[r].pending = pending /\ data'[r].phase = data[r].phase
       /\ \A x \in Requests : data'[x].results = data[x].results
  BY <1>3, <1>4 DEF TypeInv, SharedInv, DataInv, DataType
<1>12. Stored(holds', data')
  <2>1. ASSUME NEW k \in Kinds, NEW o \in Owners[k], NEW v \in holds'[k][o]
        PROVE  v[2] \in data'[v[1]].results <=> Computed(k, o)
    <3>1. v \in holds[k][o]
      BY <1>7, <2>1
    <3>2. v[1] \in Requests
      BY <3>1, HoldsType, UnitParts
    <3> QED
      BY <1>1, <1>11, <3>1, <3>2 DEF Stored
  <2> QED
    BY <2>1 DEF Stored
<1>13. SequencesInv'
  <2>1. \A x \in UnitQueues \cup DataQueues : Distinct(Stop, queue'[x])
    BY <1>1, <1>2, QueueStep
  <2> QED
    BY <1>1, <1>4, <2>1, SequencesSame DEF SequencesInv
<1>14. RequestInv(holds, data, r, Undecomposed(r), r \in ToRespond)
  BY <1>1, <1>3 DEF RequestsInv
<1>15. /\ data[r].phase = "live" /\ ~Undecomposed(r)
       /\ data[r].pending = Cardinality(Unfinished(holds, data, r))
       /\ data[r].pending = 0 <=> r \in ToRespond
  <2>1. u \in UnitsOf(r) \cap Flying(holds)
    BY <1>3, <1>9
  <2> QED
    BY <1>14, <2>1 DEF RequestInv
<1>16. /\ IsFiniteSet(Unfinished(holds, data, r)) /\ u \in Unfinished(holds, data, r)
       /\ data[r].pending \in Nat \ {0}
  <2>1. /\ Unfinished(holds, data, r) \in SUBSET UnitsOf(r)
        /\ u \in Unfinished(holds, data, r)
    BY <1>3, <1>9 DEF Unfinished
  <2> QED
    BY <1>3, <1>15, <2>1, UnitsCount
<1>17. pending = data[r].pending - 1 /\ pending \in Nat /\ r \notin ToRespond
  BY <1>15, <1>16
<1>18. Unfinished(holds', data', r) = Unfinished(holds, data, r) \ {u}
  <2>1. ASSUME NEW v \in UnitsOf(r)
        PROVE  (v \in Flying(holds') \/ v[2] \notin data'[r].results) <=>
                  (v \in Flying(holds) \/ v[2] \notin data[r].results) /\ v # u
    BY <1>3, <1>9, <1>10, <1>11
  <2> QED
    BY <2>1 DEF Unfinished
<1>19. pending = Cardinality(Unfinished(holds', data', r))
  <2> DEFINE S == Unfinished(holds, data, r)
  <2>1. Cardinality(S \ {u}) = Cardinality(S) - 1
    <3>1. IsFiniteSet(S) /\ u \in S
      BY <1>16
    <3> HIDE DEF S
    <3> QED
      BY <3>1, FS_RemoveElement
  <2> QED
    BY <1>15, <1>17, <1>18, <2>1
<1>20. Stop \notin Requests
  BY QueueTypes
<1>21. r \notin Range(queue["responder"])
  BY <1>3, <1>17, <1>20 DEF ToRespond
<1>22. /\ pending = 0 => assembler'.unit = u
       /\ pending # 0 => assembler'.unit = Nothing
  BY <1>4 DEF IsReady, AssemblerType
<1> HIDE DEF pending, r
<1>23. OneOwner'
  <2>1. assembler'.unit # Nothing => assembler'.unit[1] \notin Range(queue'["responder"])
    BY <1>4, <1>21, <1>22 DEF r
  <2> QED
    BY <1>1, <1>4, <2>1 DEF OneOwner
<1>24. \A x \in Requests : Undecomposed(x)' <=> Undecomposed(x)
  BY <1>4 DEF Undecomposed
<1>25. /\ r \in ToRespond' <=> pending = 0
       /\ \A x \in Requests \ {r} : x \in ToRespond' <=> x \in ToRespond
  <2>1. /\ ToRespond = Range(queue["responder"]) \ {Stop}
        /\ ToRespond' = (Range(queue["responder"]) \ {Stop}) \cup
                        (IF assembler'.unit # Nothing THEN {assembler'.unit[1]} ELSE {})
    BY <1>4 DEF ToRespond
  <2>2. CASE pending = 0
    BY <1>3, <1>20, <1>22, <2>1, <2>2 DEF r
  <2>3. CASE pending # 0
    BY <1>17, <1>22, <2>1, <2>3
  <2> QED
    BY <2>2, <2>3
<1>26. RequestsInv'
  <2>1. ASSUME NEW x \in Requests \ {r}
        PROVE  RequestInv(holds', data', x, Undecomposed(x)', x \in ToRespond')
    <3>1. \A v \in UnitsOf(x) : v # u
      BY DEF UnitsOf, r
    <3>2. UnitsOf(x) \cap Flying(holds') = UnitsOf(x) \cap Flying(holds)
      BY <1>9, <3>1
    <3> QED
      BY <1>1, <1>11, <1>24, <1>25, <3>2, OtherRequest
  <2>2. RequestInv(holds', data', r, Undecomposed(r)', r \in ToRespond')
    BY <1>3, <1>11, <1>14, <1>15, <1>19, <1>24, <1>25 DEF RequestInv
  <2> QED
    BY <2>1, <2>2 DEF RequestsInv
<1>27. NoneLost => NoneLost'
  BY <1>3, <1>9, <1>10, <1>11, <1>15, <1>24, NoneLostKept DEF r
<1> QED
  BY <1>8, <1>12, <1>13, <1>23, <1>26, <1>27 DEF UnitsKept

(* What was completed goes to the ClientResponder.                         *)
LEMMA AssemblerProducesUnits ==
    ASSUME TypeInv, UnitInv, AssemblerProduces
    PROVE  UnitsKept
<1> DEFINE r == assembler.unit[1]
<1>1. /\ SequencesInv /\ OneOwner /\ Apart(holds) /\ Stored(holds, data) /\ RequestsInv
  BY DEF UnitInv
<1>2. assembler.unit # Nothing /\ r \in Requests
  BY UnitParts, QueueTypes DEF AssemblerProduces, TypeInv, ThreadsInv, AssemblerInv
<1>3. /\ "responder" \in QueueNames /\ "responder" \in DataQueues
      /\ "decomposer" \in QueueNames \ {"responder"} /\ r \in ElementsOf("responder")
  BY <1>2, Elements DEF QueueNames, DataQueues
<1>4. /\ Enqueue("responder", r) /\ assembler'.unit = Nothing
      /\ UNCHANGED <<data, handler, decomposer, remote>>
  BY DEF AssemblerProduces, OnlyAssembler, TypeInv, ThreadsInv, AssemblerInv, AssemblerType
<1>5. r \notin Range(queue["responder"])
  BY <1>1, <1>2 DEF OneOwner
<1>6. /\ queue'["decomposer"] = queue["decomposer"]
      /\ Range(queue'["responder"]) = Range(queue["responder"]) \cup {r}
  BY <1>3, <1>4, Enqueues
<1>7. Keeps(Kinds)
  <2>1. Keeps(Kinds \ {"queue"})
    BY KeepsBut DEF AssemblerProduces, OnlyAssembler
  <2>2. Keeps({"queue"})
    BY <1>3, <1>4, EnqueuesHolds
  <2> QED
    BY <2>1, <2>2 DEF Keeps, Kinds
<1>8. Apart(holds') /\ Flying(holds') = Flying(holds)
  BY <1>1, <1>7, FlyingKept
<1>9. Stored(holds', data')
  BY <1>1, <1>4, <1>7 DEF Stored, Keeps
<1>10. SequencesInv'
  <2>1. \A x \in UnitQueues \cup DataQueues : Distinct(Stop, queue'[x])
    BY <1>1, <1>3, <1>4, <1>5, QueueStep
  <2> QED
    BY <1>1, <1>4, <2>1, SequencesSame DEF SequencesInv
<1>11. OneOwner'
  BY <1>1, <1>4, <1>6 DEF OneOwner
<1>12. SameRequests
  <2>1. ToRespond' = ToRespond
    <3>1. r # Stop
      BY <1>2, QueueTypes
    <3>2. /\ ToRespond = (Range(queue["responder"]) \ {Stop}) \cup {r}
          /\ ToRespond' = Range(queue'["responder"]) \ {Stop}
      BY <1>2, <1>4 DEF ToRespond
    <3> HIDE DEF r
    <3> QED
      BY <1>6, <3>1, <3>2
  <2>2. \A x \in Requests : Undecomposed(x)' <=> Undecomposed(x)
    BY <1>4, <1>6 DEF Undecomposed
  <2> QED
    BY <2>1, <2>2 DEF SameRequests
<1>13. RequestsInv'
  BY <1>1, <1>4, <1>8, <1>12, RequestsKept
<1>14. NoneLost => NoneLost'
  BY <1>4, <1>8, <1>12, NoneLostKept DEF SameRequests
<1> QED
  BY <1>8, <1>9, <1>10, <1>11, <1>13, <1>14 DEF UnitsKept

(* A request that is to be answered has all of its results, and none of    *)
(* its units is left.                                                      *)
LEMMA ReadyRequest ==
    ASSUME RequestsInv, NEW r \in Requests, r \in ToRespond
    PROVE  /\ data[r].phase = "live" /\ data[r].results = 1 .. Queries[r]
           /\ ~Undecomposed(r) /\ UnitsOf(r) \cap Flying(holds) = {}
<1>1. RequestInv(holds, data, r, Undecomposed(r), r \in ToRespond)
  BY DEF RequestsInv
<1>2. /\ data[r].phase = "live" /\ Queries[r] > 0 /\ data[r].pending = 0
      /\ data[r].pending = Cardinality(Unfinished(holds, data, r))
      /\ data[r].results \subseteq 1 .. Queries[r]
  BY <1>1 DEF RequestInv
<1>3. Unfinished(holds, data, r) = {}
  <2>1. Unfinished(holds, data, r) \in SUBSET UnitsOf(r)
    BY DEF Unfinished
  <2> QED
    BY <1>2, <2>1, UnitsCount
<1>4. \A i \in 1 .. Queries[r] : <<r, i>> \in UnitsOf(r)
  BY DEF UnitsOf
<1>5. \A u \in UnitsOf(r) : u \notin Flying(holds) /\ u[2] \in data[r].results
  BY <1>3 DEF Unfinished
<1>6. data[r].results = 1 .. Queries[r]
  BY <1>2, <1>4, <1>5
<1>7. data[r].results # {}
  BY <1>2, <1>6, UnitsCount
<1> QED
  BY <1>1, <1>2, <1>5, <1>6, <1>7 DEF RequestInv

(* respond(), and the ConcurrentData is deleted: nobody points to it.      *)
LEMMA ResponderAnswersUnits ==
    ASSUME TypeInv, UnitInv, NEW r \in Requests, ResponderAnswers, Dequeue("responder", r)
    PROVE  UnitsKept
<1>1. /\ SequencesInv /\ OneOwner /\ Apart(holds) /\ Stored(holds, data) /\ RequestsInv
  BY DEF UnitInv
<1>2. /\ "responder" \in QueueNames /\ "responder" \in DataQueues
      /\ "decomposer" \in QueueNames \ {"responder"}
  BY DEF QueueNames, DataQueues
<1>3. Stop \notin Requests
  BY QueueTypes
<1>4. /\ queue'["decomposer"] = queue["decomposer"] /\ r \in Range(queue["responder"])
      /\ Range(queue'["responder"]) \ {Stop} = (Range(queue["responder"]) \ {Stop}) \ {r}
  BY <1>1, <1>2, Dequeues DEF SequencesInv
<1>5. /\ UNCHANGED <<handler, decomposer, assembler, remote>>
      /\ data' = [data EXCEPT ![r].phase = "answered"]
  <2>1. \A v : Dequeue("responder", v) => v = r
    BY DEF Dequeue
  <2> QED
    BY <2>1 DEF ResponderAnswers, OnlyResponder
<1>6. /\ \A x \in Requests \ {r} : data'[x] = data[x]
      /\ data'[r].phase = "answered" /\ data'[r].results = data[r].results
  BY <1>5 DEF TypeInv, SharedInv, DataInv, DataType
<1>7. /\ ~Undecomposed(r) /\ UnitsOf(r) \cap Flying(holds) = {}
      /\ data[r].results = 1 .. Queries[r]
  <2>1. r \in ToRespond
    BY <1>3, <1>4 DEF ToRespond
  <2> QED
    BY <1>1, <2>1, ReadyRequest
<1>8. Keeps(Kinds)
  <2>1. Keeps(Kinds \ {"queue"})
    BY KeepsBut DEF ResponderAnswers, OnlyResponder
  <2>2. Keeps({"queue"})
    BY <1>1, <1>2, DequeuesHolds
  <2> QED
    BY <2>1, <2>2 DEF Keeps, Kinds
<1>9. Apart(holds') /\ Flying(holds') = Flying(holds)
  BY <1>1, <1>8, FlyingKept
<1>10. Stored(holds', data')
  <2>1. \A k \in Kinds : \A o \in Owners[k] : \A u \in holds[k][o] : u[1] \in Requests
    BY HoldsType, UnitParts
  <2> QED
    BY <1>1, <1>6, <1>8, <2>1 DEF Stored, Keeps
<1>11. SequencesInv'
  <2>1. \A x \in UnitQueues \cup DataQueues : Distinct(Stop, queue'[x])
    BY <1>1, <1>2, QueueStep
  <2> QED
    BY <1>1, <1>5, <2>1, SequencesSame DEF SequencesInv
<1>12. \A x \in Requests : x \in Range(queue'["responder"]) <=>
                              x \in Range(queue["responder"]) /\ x # r
  BY <1>3, <1>4
<1>13. OneOwner'
  BY <1>1, <1>4, <1>5, <1>12, RequestOwners DEF OneOwner
<1>14. \A x \in Requests : Undecomposed(x)' <=> Undecomposed(x)
  BY <1>4, <1>5 DEF Undecomposed
<1>15. /\ \A x \in Requests \ {r} : x \in ToRespond' <=> x \in ToRespond
       /\ r \notin ToRespond'
  <2>1. assembler.unit # Nothing => assembler.unit[1] # r
    BY <1>1, <1>4 DEF OneOwner
  <2> QED
    BY <1>3, <1>4, <1>5, <1>12, <2>1 DEF ToRespond
<1>16. RequestsInv'
  <2>1. ASSUME NEW x \in Requests \ {r}
        PROVE  RequestInv(holds', data', x, Undecomposed(x)', x \in ToRespond')
    BY <1>1, <1>6, <1>9, <1>14, <1>15, OtherRequest
  <2>2. RequestInv(holds', data', r, Undecomposed(r)', r \in ToRespond')
    BY <1>6, <1>7, <1>9, <1>14, <1>15 DEF RequestInv
  <2> QED
    BY <2>1, <2>2 DEF RequestsInv
<1>17. NoneLost => NoneLost'
  BY <1>6, <1>9, <1>14, NoneLostKept
<1> QED
  BY <1>9, <1>10, <1>11, <1>13, <1>16, <1>17 DEF UnitsKept


----
(* Every step keeps what the invariant says of the units.                  *)
LEMMA UnitInit == Init => UnitInv
<1> SUFFICES ASSUME Init PROVE UnitInv
  OBVIOUS
<1>1. SlotsInv
  BY DEF Init, SlotsInv
<1>2. /\ \A q \in UnitQueues \cup DataQueues : queue[q] = << >>
      /\ \A w \in Workers : /\ remote[w].inbox = << >> /\ remote[w].held = {}
                            /\ remote[w].outbox = << >>
      /\ decomposer.units = << >> /\ distributor.unit = Nothing
      /\ assembler.unit = Nothing
      /\ \A c \in Calculators : calculator[c].unit = Nothing
      /\ \A k \in WorkerHandlers : workerHandler[k].unit = Nothing
      /\ \A h \in Handlers : handler[h].data = Nothing
  BY DEF Init, Remote!RemoteInit, UnitQueues, DataQueues, QueueNames
<1>3. SequencesInv /\ OneOwner
  BY <1>2, DistinctEmpty DEF SequencesInv, OneOwner
<1>4. ASSUME NEW k \in Kinds, NEW o \in Owners[k] PROVE holds[k][o] = {}
  <2>1. \A q \in UnitQueues : holds["queue"][q] = {}
    BY <1>2, DistinctEmpty, HoldsAre
  <2>2. \A w \in Workers : /\ holds["inbox"][w] = {} /\ holds["held"][w] = {}
                           /\ holds["outbox"][w] = {}
    BY <1>2, DistinctEmpty, HoldsAre
  <2>3. /\ holds["decomposer"]["units"] = {} /\ holds["distributor"]["unit"] = {}
        /\ \A c \in Calculators : holds["calculator"][c] = {}
        /\ \A h \in WorkerHandlers : holds["workerHandler"][h] = {}
    BY <1>2, DistinctEmpty, HoldsAre
  <2> QED
    BY <2>1, <2>2, <2>3, OwnersAre DEF Kinds
<1>5. Apart(holds) /\ Stored(holds, data) /\ Flying(holds) = {}
  BY <1>4 DEF Apart, Stored, Flying
<1>6. RequestsInv
  <2> SUFFICES ASSUME NEW r \in Requests
               PROVE  RequestInv(holds, data, r, Undecomposed(r), r \in ToRespond)
    BY DEF RequestsInv
  <2>1. data[r].phase = "unseen" /\ data[r].results = {}
    BY DEF Init
  <2>2. ~Undecomposed(r)
    <3>1. queue["decomposer"] = << >> /\ r # Nothing
      BY <1>2, LineAssumption DEF DataQueues
    <3> QED
      BY <1>2, <3>1, DistinctEmpty DEF Undecomposed
  <2>3. r \notin ToRespond
    <3>1. queue["responder"] = << >>
      BY <1>2 DEF DataQueues
    <3> QED
      BY <1>2, <3>1, DistinctEmpty DEF ToRespond
  <2> QED
    BY <1>5, <2>1, <2>2, <2>3 DEF RequestInv
<1> QED
  BY <1>1, <1>3, <1>5, <1>6 DEF UnitInv

LEMMA DecomposerDistributorUnits ==
    ASSUME TypeInv, UnitInv, DecomposerWorks \/ DistributorWorks
    PROVE  UnitsKept
<1>1. CASE DecomposerTakes
  BY <1>1, DecomposerTakesUnits, LineStopsUnits DEF DecomposerTakes
<1>2. CASE DecomposerProduces \/ DecomposerHalts
  BY <1>2, DecomposerProducesUnits, LineStopsUnits
<1>3. CASE DistributorTakes
  BY <1>3, DistributorTakesUnits, LineStopsUnits DEF DistributorTakes
<1>4. CASE DistributorSends \/ DistributorProduces \/ DistributorStopsWorkers
  BY <1>4, DistributorSendsUnits, DistributorProducesUnits, StopsWorkersUnits
<1>5. CASE DistributorFindsNobody \/ DistributorHalts \/ \E w \in Workers : DistributorChooses(w)
  BY <1>5, LineStopsUnits
<1> QED
  BY <1>1, <1>2, <1>3, <1>4, <1>5 DEF DecomposerWorks, DistributorWorks

LEMMA LastThreadsUnits ==
    ASSUME TypeInv, UnitInv, AssemblerWorks \/ ResponderWorks
    PROVE  UnitsKept
<1>1. CASE AssemblerMarks
  BY <1>1, AssemblerMarksUnits DEF AssemblerMarks
<1>2. CASE AssemblerCountsStop \/ AssemblerHalts \/ AssemblerProduces
  BY <1>2, AssemblerProducesUnits, LineStopsUnits
<1>3. CASE ResponderAnswers
  BY <1>3, ResponderAnswersUnits DEF ResponderAnswers
<1>4. CASE ResponderEnds
  BY <1>4, LineStopsUnits
<1> QED
  BY <1>1, <1>2, <1>3, <1>4 DEF AssemblerWorks, ResponderWorks

LEMMA UnitsStep ==
    ASSUME TypeInv, UnitInv, [Next]_vars
    PROVE  UnitsKept
<1>1. CASE MainSteps \/ HandleSignal \/ MasterSteps \/ UNCHANGED vars
  BY <1>1, MainUnits
<1>2. ASSUME NEW h \in Handlers, HandlerWorks(h) \/ HandlerLeaves(h)
      PROVE  UnitsKept
  BY <1>2, HandlerStopsUnits, HandlerProducesUnits DEF HandlerWorks
<1>3. ASSUME NEW h \in Handlers, NEW r \in Requests,
             HandlerAnswers(h, r) \/ HandlerCreates(h, r)
      PROVE  UnitsKept
  BY <1>3, HandlerAnswersUnits, HandlerCreatesUnits
<1>4. CASE DecomposerWorks \/ DistributorWorks
  BY <1>4, DecomposerDistributorUnits
<1>5. CASE AssemblerWorks \/ ResponderWorks
  BY <1>5, LastThreadsUnits
<1>6. ASSUME NEW c \in Calculators, CalculatorWorks(c) PROVE UnitsKept
  BY <1>6, CalculatorProcessesUnits, CalculatorProducesUnits, CalculatorStopsUnits
     DEF CalculatorWorks, CalculatorProcesses
<1>7. ASSUME NEW k \in WorkerHandlers, WorkerHandlerWorks(k) PROVE UnitsKept
  BY <1>7, WorkerHandlerStopsUnits, WorkerHandlerReadsUnits, WorkerHandlerProducesUnits,
     WorkerHandlerDropsUnits DEF WorkerHandlerWorks
<1>8. ASSUME NEW w \in Workers, WorkerWorks(w) \/ WorkerCrashes(w) PROVE UnitsKept
  BY <1>8, TakeUnitUnits, AnswerUnits, RemoteStopsUnits
     DEF WorkerWorks, WorkerCrashes, Remote!Works
<1>9. CASE Finished
  BY <1>9, MainUnits DEF Finished
<1> QED
  BY <1>1, <1>2, <1>3, <1>4, <1>5, <1>6, <1>7, <1>8, <1>9 DEF Next

LEMMA UnitStep ==
    ASSUME TypeInv, UnitInv, [Next]_vars
    PROVE  UnitInv'
<1>1. SlotsInv'
  BY SlotsStep DEF UnitInv
<1>2. UnitsKept
  BY UnitsStep
<1> QED
  BY <1>1, <1>2 DEF UnitInv, UnitsKept

THEOREM UnitInvariant == Spec => []UnitInv
<1>1. Init => UnitInv
  BY UnitInit
<1>2. TypeInv /\ UnitInv /\ [Next]_vars => UnitInv'
  BY UnitStep
<1> QED
  BY <1>1, <1>2, LineInvariant, PTL DEF Spec


----
(* Which steps change what is on the other side of the connections, or     *)
(* which of them the pool has.                                             *)
LEMMA RemoteSteps ==
    ASSUME [Next]_vars
    PROVE  /\ \/ UNCHANGED remote
              \/ \E w \in Workers : MasterAccepts(w) \/ WorkerWorks(w) \/ WorkerCrashes(w)
              \/ DistributorSends \/ DistributorStopsWorkers
              \/ \E k \in WorkerHandlers : WorkerHandlerReads(k) \/ WorkerHandlerDrops(k)
           /\ UNCHANGED pool \/ MasterAdmits \/ \E k \in WorkerHandlers : WorkerHandlerDrops(k)
<1>1. CASE MainSteps \/ HandleSignal \/ UNCHANGED vars \/ Finished
  BY <1>1 DEF MainSteps, MainAccepts, MainHands, MainFailsToAccept, MainStops, MainJoins,
     HandleSignal, vars, Finished
<1>2. CASE MasterSteps
  BY <1>2 DEF MasterSteps, MasterListens, MasterAdmits, MasterRejects, MasterHands,
     MasterFails, MasterStops, MasterEnds, MasterAccepts
<1>3. ASSUME NEW h \in Handlers,
             \/ HandlerWorks(h) \/ HandlerLeaves(h)
             \/ \E r \in Requests : HandlerAnswers(h, r) \/ HandlerCreates(h, r)
      PROVE  UNCHANGED <<remote, pool>>
  BY <1>3 DEF HandlerWorks, HandlerTakes, HandlerProduces, HandlerHalts, HandlerLeaves,
     HandlerAnswers, HandlerCreates
<1>4. CASE DecomposerWorks
  BY <1>4 DEF DecomposerWorks, DecomposerTakes, DecomposerProduces, DecomposerHalts
<1>5. CASE DistributorWorks
  BY <1>5 DEF DistributorWorks, DistributorTakes, DistributorFindsNobody, DistributorChooses,
     DistributorSends, DistributorProduces, DistributorStopsWorkers, DistributorHalts
<1>6. CASE AssemblerWorks \/ ResponderWorks
  BY <1>6 DEF AssemblerWorks, AssemblerMarks, AssemblerCountsStop, AssemblerProduces,
     AssemblerHalts, ResponderWorks, ResponderAnswers, ResponderEnds
<1>7. ASSUME NEW c \in Calculators, CalculatorWorks(c) PROVE UNCHANGED <<remote, pool>>
  BY <1>7 DEF CalculatorWorks, CalculatorProcesses, CalculatorProduces, CalculatorHalts
<1>8. ASSUME NEW k \in WorkerHandlers, WorkerHandlerWorks(k)
      PROVE  \/ UNCHANGED <<remote, pool>> \/ WorkerHandlerDrops(k)
             \/ WorkerHandlerReads(k) /\ UNCHANGED pool
  BY <1>8 DEF WorkerHandlerWorks, WorkerHandlerTakes, WorkerHandlerReads,
     WorkerHandlerProduces, WorkerHandlerHalts
<1>9. ASSUME NEW w \in Workers, WorkerWorks(w) \/ WorkerCrashes(w) PROVE UNCHANGED pool
  BY <1>9 DEF WorkerWorks, WorkerCrashes, OnlyRemote
<1> QED
  BY <1>1, <1>2, <1>3, <1>4, <1>5, <1>6, <1>7, <1>8, <1>9 DEF Next

(* What a step may do to a worker: it connects once, never recovers from a *)
(* crash, and leaves only after it was told to stop.                       *)
WorkerMoves(w) ==
    /\ remote'[w].state = "absent" => remote[w].state = "absent"
    /\ remote[w].state = "crashed" => remote'[w].state = "crashed"
    /\ Stop \in Range(remote'[w].inbox) =>
          Stop \in Range(remote[w].inbox) \/ DistributorStopsWorkers
    /\ remote'[w].state \in {"draining", "gone"} =>
          remote[w].state \in {"draining", "gone"} \/ Stop \in Range(remote[w].inbox)

LEMMA WorkersMove ==
    ASSUME TypeInv, [Next]_vars, NEW w \in Workers
    PROVE  WorkerMoves(w)
<1> DEFINE in == remote[w].inbox
<1>1. /\ remote[w] \in Remote!RemoteWorker /\ DOMAIN remote = Workers
      /\ in \in Seq(Units \cup {Stop})
  BY RemoteTypes
<1>2. CASE remote'[w] = remote[w]
  BY <1>2 DEF WorkerMoves
<1>3. CASE remote'[w].state = remote[w].state /\ remote'[w].inbox = in
  BY <1>3 DEF WorkerMoves
<1>4. ASSUME NEW x \in Workers, MasterAccepts(x) PROVE WorkerMoves(w)
  <2>1. remote'[w] = remote[w] \/ remote[w].state = "absent"
    BY <1>1, <1>4 DEF MasterAccepts, Remote!Connect
  <2>2. /\ remote'[w].inbox = in
        /\ remote'[w].state = remote[w].state \/ remote'[w].state = "serving"
    BY <1>1, <1>4 DEF MasterAccepts, Remote!Connect, Remote!RemoteWorker
  <2> QED
    BY <1>2, <2>1, <2>2 DEF WorkerMoves
<1>5. ASSUME NEW W, NEW m \in Units \cup {Stop}, Remote!Send(W, m),
             m # Stop \/ DistributorStopsWorkers
      PROVE  WorkerMoves(w)
  <2>1. remote'[w] = remote[w] \/ remote'[w] = [remote[w] EXCEPT !.inbox = Append(@, m)]
    BY <1>5 DEF Remote!Send
  <2>2. CASE remote'[w] = [remote[w] EXCEPT !.inbox = Append(@, m)]
    <3>1. remote'[w].state = remote[w].state /\ remote'[w].inbox = Append(in, m)
      BY <1>1, <2>2 DEF Remote!RemoteWorker
    <3>2. Range(Append(in, m)) = Range(in) \cup {m}
      BY <1>1, <1>5, AppendRange
    <3> QED
      BY <1>5, <3>1, <3>2 DEF WorkerMoves
  <2> QED
    BY <1>2, <2>1, <2>2
<1>6. CASE DistributorSends
  <2>1. distributor.unit \in Units /\ distributor.unit # Stop
    BY <1>6, QueueTypes DEF DistributorSends, TypeInv, ThreadsInv, DistributorInv
  <2> QED
    BY <1>5, <1>6, <2>1 DEF DistributorSends
<1>7. CASE DistributorStopsWorkers
  BY <1>5, <1>7 DEF DistributorStopsWorkers
<1>8. ASSUME NEW k \in WorkerHandlers, WorkerHandlerReads(k) \/ WorkerHandlerDrops(k)
      PROVE  WorkerMoves(w)
  <2>1. UNCHANGED remote \/ \E x : remote' = [remote EXCEPT ![x].outbox = Tail(@)]
    BY <1>8 DEF WorkerHandlerReads, WorkerHandlerDrops, Remote!Receive
  <2> QED
    BY <1>1, <1>3, <2>1 DEF Remote!RemoteWorker
<1>9. ASSUME NEW x \in Workers, WorkerWorks(x) \/ WorkerCrashes(x) PROVE WorkerMoves(w)
  <2>1. remote[x] \in Remote!RemoteWorker
    BY RemoteTypes
  <2>2. CASE w # x
    <3>1. remote'[w] = remote[w]
      BY <1>1, <1>9, <2>2 DEF WorkerWorks, WorkerCrashes, Remote!Works, Remote!TakeUnit,
         Remote!TakeStop, Remote!Leave, Remote!Answer, Remote!Crash
    <3> QED
      BY <1>2, <3>1
  <2>3. CASE w = x /\ (Remote!TakeUnit(x) \/ Remote!TakeStop(x))
    <3>1. /\ in # << >> /\ remote'[w].inbox = Tail(in)
          /\ remote[w].state = "serving"
          /\ \/ remote'[w].state = "serving"
             \/ remote'[w].state = "draining" /\ Head(in) = Stop
      BY <1>1, <2>3 DEF Remote!TakeUnit, Remote!TakeStop, Remote!RemoteWorker
    <3>2. Range(Tail(in)) \subseteq Range(in) /\ Head(in) \in Range(in)
      BY <1>1, <3>1, TailRange
    <3> QED
      BY <3>1, <3>2 DEF WorkerMoves
  <2>4. CASE w = x /\ Remote!Leave(x)
    <3>1. /\ remote'[w].inbox = in
          /\ remote[w].state = "draining" /\ remote'[w].state = "gone"
      BY <1>1, <2>4 DEF Remote!Leave, Remote!RemoteWorker
    <3> QED
      BY <3>1 DEF WorkerMoves
  <2>5. ASSUME NEW u \in Units, w = x, Remote!Answer(x, u) PROVE WorkerMoves(w)
    BY <1>1, <1>3, <2>5 DEF Remote!Answer, Remote!RemoteWorker
  <2>6. CASE w = x /\ Remote!Crash(x)
    <3>1. remote'[w].inbox = << >> /\ remote'[w].state = "crashed"
      BY <1>1, <2>6 DEF Remote!Crash
    <3> QED
      BY <3>1, DistinctEmpty DEF WorkerMoves
  <2> QED
    BY <1>9, <2>2, <2>3, <2>4, <2>5, <2>6 DEF WorkerWorks, WorkerCrashes, Remote!Works
<1> QED
  BY <1>2, <1>4, <1>6, <1>7, <1>8, <1>9, RemoteSteps

LEMMA ListenStep ==
    ASSUME TypeInv, PoolInv, ListenInv, [Next]_vars
    PROVE  ListenInv'
<1>1. \A w \in Workers : WorkerMoves(w)
  BY WorkersMove
<1>2. ASSUME NEW w \in pool' \cup ({distributor'.worker} \ {Nothing})
      PROVE  remote'[w].state # "absent"
  <2>1. pool \subseteq Workers /\ DistributorType /\ master.peer \in Workers \cup {Nothing}
    BY OwnersType DEF TypeInv, SharedInv, ThreadsInv, DistributorInv
  <2>2. \/ w \in pool
        \/ w = master.peer /\ w # Nothing
        \/ w = distributor.worker /\ w # Nothing
    <3>1. w \in pool' => w \in pool \/ (w = master.peer /\ w # Nothing)
      <4>1. CASE MasterAdmits
        BY <4>1, OwnersType DEF MasterAdmits, TypeInv, ThreadsInv, MasterInv
      <4>2. ASSUME NEW k \in WorkerHandlers, WorkerHandlerDrops(k) PROVE pool' \subseteq pool
        BY <4>2 DEF WorkerHandlerDrops
      <4> QED
        BY <4>1, <4>2, RemoteSteps
    <3>2. distributor'.worker # Nothing =>
             distributor'.worker = distributor.worker \/ distributor'.worker \in pool
      <4>1. CASE DistributorWorks
        BY <2>1, <4>1 DEF DistributorWorks, DistributorTakes, DistributorFindsNobody,
           DistributorChooses, DistributorSends, DistributorProduces,
           DistributorStopsWorkers, DistributorHalts, DistributorType
      <4> QED
        BY <4>1, ThreadSteps
    <3> QED
      BY <1>2, <3>1, <3>2
  <2>3. w \in Workers
    BY <2>1, <2>2 DEF DistributorType
  <2>4. remote[w].state # "absent"
    BY <2>2 DEF ListenInv, PoolInv, OwnedConnected
  <2> QED
    BY <1>1, <2>3, <2>4 DEF WorkerMoves
<1>3. ASSUME distributor'.at \notin {"halt", "done"}, NEW w \in Workers
      PROVE  /\ remote'[w].state \in {"absent", "serving", "crashed"}
             /\ Stop \notin Range(remote'[w].inbox)
  <2>1. distributor.at \notin {"halt", "done"} /\ ~DistributorStopsWorkers
    <3>1. CASE DistributorWorks
      BY <1>3, <3>1 DEF DistributorWorks, DistributorTakes, DistributorFindsNobody,
         DistributorChooses, DistributorSends, DistributorProduces,
         DistributorStopsWorkers, DistributorHalts, TypeInv, ThreadsInv, DistributorInv,
         DistributorType
    <3>2. CASE UNCHANGED distributor
      BY <1>3, <3>2 DEF DistributorStopsWorkers, TypeInv, ThreadsInv, DistributorInv,
         DistributorType
    <3> QED
      BY <3>1, <3>2, ThreadSteps
  <2>2. remote'[w].state \in Remote!WorkerStates
    <3>1. TypeInv'
      BY TypeStep
    <3>2. remote' \in [Workers -> Remote!RemoteWorker]
      BY <3>1 DEF TypeInv, SharedInv, Remote!RemoteType
    <3> QED
      BY <3>2 DEF Remote!RemoteWorker
  <2> QED
    BY <1>1, <2>1, <2>2 DEF WorkerMoves, ListenInv, Remote!WorkerStates
<1> QED
  BY <1>2, <1>3 DEF ListenInv

(* No unit is lost before a worker crashes.                                *)
LEMMA LossStep ==
    ASSUME TypeInv, PoolInv, UnitInv, LossInv, [Next]_vars
    PROVE  LossInv'
<1>1. ListenInv'
  BY ListenStep DEF LossInv
<1>2. ASSUME Crashed PROVE Crashed'
  <2>1. PICK w \in Workers : remote[w].state = "crashed"
    BY <1>2 DEF Crashed
  <2>2. remote'[w].state = "crashed"
    BY <2>1, WorkersMove DEF WorkerMoves
  <2> QED
    BY <2>2 DEF Crashed
<1>3. ASSUME ~Crashed, NoneLost PROVE Crashed' \/ NoneLost'
  <2>1. NoneLost' \/ Lossy
    BY <1>3, UnitsStep DEF UnitsKept
  <2>2. ASSUME NEW w \in Workers, Remote!Crash(w) PROVE Crashed'
    <3>1. DOMAIN remote = Workers
      BY RemoteTypes
    <3>2. remote'[w].state = "crashed"
      BY <2>2, <3>1 DEF Remote!Crash
    <3> QED
      BY <3>2 DEF Crashed
  <2>3. DistributorSends => Remote!Listens(distributor.worker)
    <3>1. DistributorSends =>
             /\ distributor.worker \in Workers /\ distributor.at \notin {"halt", "done"}
             /\ distributor.worker # Nothing
      BY OwnersType DEF DistributorSends, TypeInv, ThreadsInv, DistributorInv
    <3>2. ASSUME DistributorSends PROVE Remote!Listens(distributor.worker)
      <4> DEFINE w == distributor.worker
      <4>1. remote[w].state # "absent" /\ remote[w].state \in {"absent", "serving", "crashed"}
        BY <3>1, <3>2 DEF LossInv, ListenInv
      <4>2. remote[w].state # "crashed"
        BY <1>3, <3>1, <3>2 DEF Crashed
      <4> QED
        BY <4>1, <4>2 DEF Remote!Listens
    <3> QED
      BY <3>2
  <2> QED
    BY <2>1, <2>2, <2>3 DEF Lossy
<1>4. Crashed' \/ NoneLost'
  BY <1>2, <1>3 DEF LossInv
<1> QED
  BY <1>1, <1>4 DEF LossInv

LEMMA LossInit == Init => LossInv
  BY DEF Init, LossInv, ListenInv, NoneLost, Remote!RemoteInit, Range

THEOREM LossInvariant == Spec => []LossInv
<1>1. Init => PoolInv /\ UnitInv /\ LossInv
  BY PoolInit, UnitInit, LossInit
<1>2. TypeInv /\ PoolInv /\ [Next]_vars => PoolInv'
  BY PoolStep
<1>3. TypeInv /\ UnitInv /\ [Next]_vars => UnitInv'
  BY UnitStep
<1>4. TypeInv /\ PoolInv /\ UnitInv /\ LossInv /\ [Next]_vars => LossInv'
  BY LossStep
<1> QED
  BY <1>1, <1>2, <1>3, <1>4, LineInvariant, PTL DEF Spec


----
(* The places of a unit are those of its holders, one for each.            *)
PlaceOf(p, u, k, o, i) ==
    \/ k = "queue" /\ i \in Positions(queue[o], u) /\ p = <<o, i>>
    \/ k = "decomposer" /\ i \in Positions(decomposer.units, u) /\ p = <<"decomposer", i>>
    \/ k = "distributor" /\ distributor.unit = u /\ p = <<"Distributor">>
    \/ k = "inbox" /\ i \in Positions(remote[o].inbox, u) /\ p = <<"inbox", o, i>>
    \/ k = "held" /\ u \in remote[o].held /\ p = <<"held", o>>
    \/ k = "outbox" /\ i \in Positions(remote[o].outbox, u) /\ p = <<"outbox", o, i>>
    \/ k = "calculator" /\ calculator[o].unit = u /\ p = <<"calculator", o>>
    \/ k = "workerHandler" /\ workerHandler[o].unit = u /\ p = <<"workerHandler", o>>

LEMMA PlacesAre ==
    ASSUME NEW u, NEW p
    PROVE  p \in Places(u) <=>
              \/ \E q \in UnitQueues : \E i \in Positions(queue[q], u) : p = <<q, i>>
              \/ \E i \in Positions(decomposer.units, u) : p = <<"decomposer", i>>
              \/ distributor.unit = u /\ p = <<"Distributor">>
              \/ \E c \in Calculators : calculator[c].unit = u /\ p = <<"calculator", c>>
              \/ \E k \in WorkerHandlers :
                    workerHandler[k].unit = u /\ p = <<"workerHandler", k>>
              \/ \E w \in Workers :
                    \E i \in Positions(remote[w].inbox, u) : p = <<"inbox", w, i>>
              \/ \E w \in Workers : u \in remote[w].held /\ p = <<"held", w>>
              \/ \E w \in Workers :
                    \E i \in Positions(remote[w].outbox, u) : p = <<"outbox", w, i>>
<1> DEFINE Queues == UNION {{<<q, i>> : i \in Positions(queue[q], u)} : q \in UnitQueues}
           Produced == {<<"decomposer", i>> : i \in Positions(decomposer.units, u)}
           Distributed == IF distributor.unit = u THEN {<<"Distributor">>} ELSE {}
           Local == {<<"calculator", c>> : c \in {x \in Calculators : calculator[x].unit = u}}
           Handled == {<<"workerHandler", k>> :
                          k \in {x \in WorkerHandlers : workerHandler[x].unit = u}}
           In == UNION {{<<"inbox", w, i>> : i \in Positions(remote[w].inbox, u)} : w \in Workers}
           Held == {<<"held", w>> : w \in {x \in Workers : u \in remote[x].held}}
           Out == UNION {{<<"outbox", w, i>> : i \in Positions(remote[w].outbox, u)}
                             : w \in Workers}
<1>1. Places(u) = Queues \cup Produced \cup Distributed \cup Local \cup Handled
                  \cup In \cup Held \cup Out
  BY DEF Places
<1>2. p \in Queues <=> \E q \in UnitQueues : \E i \in Positions(queue[q], u) : p = <<q, i>>
  OBVIOUS
<1>3. p \in Produced <=> \E i \in Positions(decomposer.units, u) : p = <<"decomposer", i>>
  OBVIOUS
<1>4. p \in Distributed <=> distributor.unit = u /\ p = <<"Distributor">>
  OBVIOUS
<1>5. p \in Local <=> \E c \in Calculators : calculator[c].unit = u /\ p = <<"calculator", c>>
  OBVIOUS
<1>6. p \in Handled <=>
         \E k \in WorkerHandlers : workerHandler[k].unit = u /\ p = <<"workerHandler", k>>
  OBVIOUS
<1>7. p \in In <=> \E w \in Workers :
                      \E i \in Positions(remote[w].inbox, u) : p = <<"inbox", w, i>>
  OBVIOUS
<1>8. p \in Held <=> \E w \in Workers : u \in remote[w].held /\ p = <<"held", w>>
  OBVIOUS
<1>9. p \in Out <=> \E w \in Workers :
                       \E i \in Positions(remote[w].outbox, u) : p = <<"outbox", w, i>>
  OBVIOUS
<1> HIDE DEF Queues, Produced, Distributed, Local, Handled, In, Held, Out
<1> QED
  BY <1>1, <1>2, <1>3, <1>4, <1>5, <1>6, <1>7, <1>8, <1>9

LEMMA PlacesHeld ==
    ASSUME NEW u \in Units, NEW p \in Places(u)
    PROVE  \E k \in Kinds : \E o \in Owners[k] : \E i : PlaceOf(p, u, k, o, i)
<1> DEFINE Held == \E k \in Kinds : \E o \in Owners[k] : \E i : PlaceOf(p, u, k, o, i)
<1>1. ASSUME NEW k \in Kinds, NEW o \in Owners[k], NEW i, PlaceOf(p, u, k, o, i)
      PROVE  Held
  BY <1>1
<1> HIDE DEF Held
<1>2. ASSUME NEW q \in UnitQueues, NEW i \in Positions(queue[q], u), p = <<q, i>>
      PROVE  Held
  BY <1>1, <1>2, OwnersAre DEF PlaceOf, Kinds
<1>3. ASSUME NEW i \in Positions(decomposer.units, u), p = <<"decomposer", i>>
      PROVE  Held
  BY <1>1, <1>3, OwnersAre DEF PlaceOf, Kinds
<1>4. ASSUME distributor.unit = u, p = <<"Distributor">> PROVE Held
  BY <1>1, <1>4, OwnersAre DEF PlaceOf, Kinds
<1>5. ASSUME NEW c \in Calculators, calculator[c].unit = u, p = <<"calculator", c>>
      PROVE  Held
  BY <1>1, <1>5, OwnersAre DEF PlaceOf, Kinds
<1>6. ASSUME NEW k \in WorkerHandlers, workerHandler[k].unit = u, p = <<"workerHandler", k>>
      PROVE  Held
  BY <1>1, <1>6, OwnersAre DEF PlaceOf, Kinds
<1>7. ASSUME NEW w \in Workers,
             \/ \E i \in Positions(remote[w].inbox, u) : p = <<"inbox", w, i>>
             \/ u \in remote[w].held /\ p = <<"held", w>>
             \/ \E i \in Positions(remote[w].outbox, u) : p = <<"outbox", w, i>>
      PROVE  Held
  BY <1>1, <1>7, OwnersAre DEF PlaceOf, Kinds
<1>8. Held
  BY <1>2, <1>3, <1>4, <1>5, <1>6, <1>7, PlacesAre
<1> QED
  BY <1>8 DEF Held

LEMMA PlaceHolds ==
    ASSUME NEW u \in Units, NEW p, NEW k \in Kinds, NEW o \in Owners[k], NEW i,
           PlaceOf(p, u, k, o, i), TypeInv
    PROVE  u \in holds[k][o]
<1>1. u # Stop /\ u # Nothing
  BY QueueTypes
<1>2. \A s : i \in Positions(s, u) => u \in Range(s)
  BY DEF Positions, Range
<1> QED
  BY <1>1, <1>2, HoldsAre, OwnersAre DEF PlaceOf, Kinds

LEMMA SamePlace ==
    ASSUME TypeInv, SequencesInv, NEW u \in Units, NEW p1, NEW p2, NEW k \in Kinds,
           NEW o \in Owners[k], NEW i1, NEW i2,
           PlaceOf(p1, u, k, o, i1), PlaceOf(p2, u, k, o, i2)
    PROVE  p1 = p2
<1>1. u # Stop
  BY QueueTypes
<1>2. \A s : Distinct(Stop, s) /\ i1 \in Positions(s, u) /\ i2 \in Positions(s, u) => i1 = i2
  BY <1>1 DEF Positions, Distinct
<1>3. CASE k = "queue"
  <2>1. o \in UnitQueues
    BY <1>3, OwnersAre
  <2>2. Distinct(Stop, queue[o])
    BY <2>1 DEF SequencesInv
  <2> QED
    BY <1>2, <1>3, <2>2 DEF PlaceOf
<1>4. CASE k \in {"inbox", "outbox"}
  <2>1. o \in Workers
    BY <1>4, OwnersAre
  <2>2. Distinct(Stop, remote[o].inbox) /\ Distinct(Stop, remote[o].outbox)
    BY <2>1 DEF SequencesInv
  <2> QED
    BY <1>2, <1>4, <2>2 DEF PlaceOf
<1>5. CASE k = "decomposer"
  <2>1. Distinct(Stop, decomposer.units)
    BY DEF SequencesInv
  <2> QED
    BY <1>2, <1>5, <2>1 DEF PlaceOf
<1>6. CASE k \in {"distributor", "held", "calculator", "workerHandler"}
  BY <1>6 DEF PlaceOf
<1> QED
  BY <1>3, <1>4, <1>5, <1>6 DEF Kinds

(* A unit that is held has a place.                                        *)
LEMMA HeldPlaces ==
    ASSUME TypeInv, NEW u \in Units, NEW k \in Kinds, NEW o \in Owners[k], u \in holds[k][o]
    PROVE  Places(u) # {}
<1>1. \A s : u \in Range(s) => \E i \in DOMAIN s : i \in Positions(s, u)
  BY DEF Positions, Range
<1>2. CASE k = "queue"
  <2>1. o \in UnitQueues /\ u \in Range(queue[o])
    BY <1>2, HoldsAre, OwnersAre
  <2>2. PICK i \in DOMAIN queue[o] : i \in Positions(queue[o], u)
    BY <1>1, <2>1
  <2>3. <<o, i>> \in Places(u)
    BY <2>1, <2>2, PlacesAre
  <2> QED
    BY <2>3
<1>3. CASE k = "decomposer"
  <2>1. u \in Range(decomposer.units)
    BY <1>3, HoldsAre, OwnersAre
  <2>2. PICK i \in DOMAIN decomposer.units : i \in Positions(decomposer.units, u)
    BY <1>1, <2>1
  <2>3. <<"decomposer", i>> \in Places(u)
    BY <2>2, PlacesAre
  <2> QED
    BY <2>3
<1>4. CASE k = "distributor"
  <2>1. distributor.unit = u
    BY <1>4, HoldsAre, OwnersAre
  <2>2. <<"Distributor">> \in Places(u)
    BY <2>1, PlacesAre
  <2> QED
    BY <2>2
<1>5. CASE k = "inbox"
  <2>1. o \in Workers /\ u \in Range(remote[o].inbox)
    BY <1>5, HoldsAre, OwnersAre
  <2>2. PICK i \in DOMAIN remote[o].inbox : i \in Positions(remote[o].inbox, u)
    BY <1>1, <2>1
  <2>3. <<"inbox", o, i>> \in Places(u)
    BY <2>1, <2>2, PlacesAre
  <2> QED
    BY <2>3
<1>6. CASE k = "held"
  <2>1. o \in Workers /\ u \in remote[o].held
    BY <1>6, HoldsAre, OwnersAre
  <2>2. <<"held", o>> \in Places(u)
    BY <2>1, PlacesAre
  <2> QED
    BY <2>2
<1>7. CASE k = "outbox"
  <2>1. o \in Workers /\ u \in Range(remote[o].outbox)
    BY <1>7, HoldsAre, OwnersAre
  <2>2. PICK i \in DOMAIN remote[o].outbox : i \in Positions(remote[o].outbox, u)
    BY <1>1, <2>1
  <2>3. <<"outbox", o, i>> \in Places(u)
    BY <2>1, <2>2, PlacesAre
  <2> QED
    BY <2>3
<1>8. CASE k = "calculator"
  <2>1. o \in Calculators /\ calculator[o].unit = u
    BY <1>8, HoldsAre, OwnersAre
  <2>2. <<"calculator", o>> \in Places(u)
    BY <2>1, PlacesAre
  <2> QED
    BY <2>2
<1>9. CASE k = "workerHandler"
  <2>1. o \in WorkerHandlers /\ workerHandler[o].unit = u
    BY <1>9, HoldsAre, OwnersAre
  <2>2. <<"workerHandler", o>> \in Places(u)
    BY <2>1, PlacesAre
  <2> QED
    BY <2>2
<1> QED
  BY <1>2, <1>3, <1>4, <1>5, <1>6, <1>7, <1>8, <1>9 DEF Kinds

LEMMA InFlightFlies ==
    ASSUME TypeInv, NEW r \in Requests
    PROVE  InFlight(r) = UnitsOf(r) \cap Flying(holds)
<1> SUFFICES ASSUME NEW u \in UnitsOf(r)
             PROVE  Places(u) # {} <=> u \in Flying(holds)
  BY DEF InFlight
<1>1. u \in Units
  BY DEF Units
<1>2. ASSUME u \in Flying(holds) PROVE Places(u) # {}
  BY <1>1, <1>2, HeldPlaces DEF Flying
<1>3. ASSUME NEW p \in Places(u) PROVE u \in Flying(holds)
  <2>1. PICK k \in Kinds : \E o \in Owners[k] : \E i : PlaceOf(p, u, k, o, i)
    BY <1>1, PlacesHeld
  <2>2. PICK o \in Owners[k] : \E i : PlaceOf(p, u, k, o, i)
    BY <2>1
  <2>3. u \in holds[k][o]
    BY <1>1, <2>2, PlaceHolds
  <2> QED
    BY <1>1, <2>3 DEF Flying
<1> QED
  BY <1>2, <1>3

----
(* No unit is in two places: it would be deleted twice, computed twice,    *)
(* and the results of a query appended to each other.                      *)
THEOREM UnitsAreOnce == Spec => []NoUnitTwice
<1>1. TypeInv /\ UnitInv => NoUnitTwice
  <2> SUFFICES ASSUME TypeInv, UnitInv, NEW u \in Units, NEW p1 \in Places(u),
                      NEW p2 \in Places(u)
               PROVE  p1 = p2
    BY DEF NoUnitTwice
  <2>1. PICK k1 \in Kinds : \E o \in Owners[k1] : \E i : PlaceOf(p1, u, k1, o, i)
    BY PlacesHeld
  <2>2. PICK k2 \in Kinds : \E o \in Owners[k2] : \E i : PlaceOf(p2, u, k2, o, i)
    BY PlacesHeld
  <2>3. PICK o1 \in Owners[k1] : \E i : PlaceOf(p1, u, k1, o1, i)
    BY <2>1
  <2>4. PICK o2 \in Owners[k2] : \E i : PlaceOf(p2, u, k2, o2, i)
    BY <2>2
  <2>5. u \in holds[k1][o1] /\ u \in holds[k2][o2]
    BY <2>3, <2>4, PlaceHolds
  <2>6. k1 = k2 /\ o1 = o2
    BY <2>5 DEF UnitInv, Apart
  <2> QED
    BY <2>3, <2>4, <2>6, SamePlace DEF UnitInv
<1> QED
  BY <1>1, LineInvariant, UnitInvariant, PTL

(* No thread, queue, worker or connection keeps a pointer to a             *)
(* ConcurrentData that the ClientResponder has deleted.                    *)
THEOREM NothingDangles == Spec => []NoDanglingPointer
<1>1. TypeInv /\ UnitInv => NoDanglingPointer
  <2> SUFFICES ASSUME TypeInv, UnitInv, NEW r \in Requests, data[r].phase # "live"
               PROVE  ~Undecomposed(r) /\ InFlight(r) = {} /\ r \notin ToRespond
    BY DEF NoDanglingPointer
  <2>1. RequestInv(holds, data, r, Undecomposed(r), r \in ToRespond)
    BY DEF UnitInv, RequestsInv
  <2> QED
    BY <2>1, InFlightFlies DEF RequestInv
<1> QED
  BY <1>1, LineInvariant, UnitInvariant, PTL

(* A response is formatted from the results of every query, though they    *)
(* are stored by many threads and counted by another.                      *)
THEOREM AnswersComplete == Spec => []AnswersAreComplete
<1>1. TypeInv /\ UnitInv => AnswersAreComplete
  <2> SUFFICES ASSUME TypeInv, UnitInv, NEW r \in ToRespond
               PROVE  data[r].results = 1 .. Queries[r]
    BY DEF AnswersAreComplete
  <2>1. r \in Requests
    <3>1. Range(queue["responder"]) \subseteq {Stop} \cup Requests
      BY QueueTypes DEF DataQueues
    <3> QED
      BY <3>1, RequestOwners DEF ToRespond
  <2> QED
    BY <2>1, ReadyRequest DEF UnitInv
<1> QED
  BY <1>1, LineInvariant, UnitInvariant, PTL

(* pendingQueries says how many units the ResponseAssembler has yet to     *)
(* see: those in flight and, when a worker crashed, those that are lost.   *)
THEOREM PendingCounts == Spec => []PendingCountsUnits
<1>1. TypeInv /\ UnitInv /\ LossInv => PendingCountsUnits
  <2> SUFFICES ASSUME TypeInv, UnitInv, LossInv, NEW r \in Requests, data[r].phase = "live"
               PROVE  IF Undecomposed(r)
                      THEN data[r].pending = Queries[r] /\ InFlight(r) = {}
                      ELSE IF \E w \in Workers : remote[w].state = "crashed"
                           THEN data[r].pending >= Cardinality(InFlight(r))
                           ELSE data[r].pending = Cardinality(InFlight(r))
    BY DEF PendingCountsUnits
  <2>1. InFlight(r) = UnitsOf(r) \cap Flying(holds)
    BY InFlightFlies
  <2>2. RequestsInv /\ data[r].pending = Cardinality(Unfinished(holds, data, r))
    BY DEF UnitInv, RequestsInv, RequestInv
  <2>3. CASE Undecomposed(r)
    BY <2>1, <2>2, <2>3, WholeRequest
  <2>4. CASE ~Undecomposed(r) /\ Crashed
    <3>1. /\ InFlight(r) \subseteq Unfinished(holds, data, r)
          /\ Unfinished(holds, data, r) \in SUBSET UnitsOf(r)
      BY <2>1 DEF Unfinished
    <3>2. IsFiniteSet(Unfinished(holds, data, r))
      BY <3>1, UnitsCount
    <3>3. /\ Cardinality(InFlight(r)) <= Cardinality(Unfinished(holds, data, r))
          /\ Cardinality(InFlight(r)) \in Nat
          /\ Cardinality(Unfinished(holds, data, r)) \in Nat
      BY <3>1, <3>2, FS_Subset, FS_CardinalityType
    <3> QED
      BY <2>2, <2>4, <3>3 DEF Crashed
  <2>5. CASE ~Undecomposed(r) /\ ~Crashed
    <3>1. \A u \in UnitsOf(r) : u \in Flying(holds) \/ u[2] \in data[r].results
      BY <2>5 DEF LossInv, NoneLost
    <3>2. InFlight(r) = Unfinished(holds, data, r)
      BY <2>1, <3>1 DEF Unfinished
    <3> QED
      BY <2>2, <2>5, <3>2 DEF Crashed
  <2> QED
    BY <2>3, <2>4, <2>5
<1> QED
  BY <1>1, LineInvariant, UnitInvariant, LossInvariant, PTL

====
