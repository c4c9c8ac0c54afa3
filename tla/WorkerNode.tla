---- MODULE WorkerNode ----
(***************************************************************************)
(* A worker process: the threads that HttpServer::runWorker() creates.     *)
(*                                                                         *)
(*   master -TCP-> RequestServer -units-> calculators -responses->         *)
(*   ResponseClient -TCP-> master                                          *)
(*                                                                         *)
(* It implements what ProductionLine, the master, assumes of each of its   *)
(* workers: RemoteCalculator.  As there, enqueue() and dequeue() are       *)
(* atomic, and a message, which is several lines, is whole.                *)
(***************************************************************************)
EXTENDS Naturals, Sequences, FiniteSets, Functions

CONSTANTS
    Calculators,   \* Calculator threads, calculatorsAmount of them
    Units,         \* the data units that the master may send, each once
    QueueCapacity, \* queuesCapacity
    Stop,          \* a stop condition: nullptr, the line "-1", and the end of
                   \* the connection, which RequestServer takes for the same
    Nothing,       \* a local variable that holds no unit
    Self           \* this process, as the master tells it from the others

ASSUME NodeAssumption ==
    /\ IsFiniteSet(Calculators) /\ Calculators # {}
    /\ QueueCapacity \in Nat
    /\ Stop \notin Units
    /\ Nothing \notin Units

VARIABLES
    main,       \* HttpServer::runWorker()
    server,     \* RequestServer
    calculator, \* each Calculator
    client,     \* ResponseClient, with the stop conditions that it consumed
    queue,      \* the content of the two queues
    unsent,     \* what the master may still send
    inbox,      \* what was sent and RequestServer has not read
    outbox      \* what ResponseClient has sent

vars == <<main, server, calculator, client, queue, unsent, inbox, outbox>>

QueueNames == {"units", "responses"}
Messages == Units \cup {Stop}

(* Threads and messages are of their types, and no queue is overfull.      *)
TypeOK ==
    /\ main \in {"connecting", "joining", "done"}
    /\ server \in [at : {"read", "produce", "halt", "done"},
                   unit : Units \cup {Nothing}, stops : 0 .. Cardinality(Calculators)]
    /\ calculator \in [Calculators -> [at : {"take", "produce", "halt", "done"},
                                       unit : Units \cup {Nothing}]]
    /\ client \in [at : {"take", "send", "goodbye", "done"},
                   unit : Units \cup {Nothing}, stops : 0 .. Cardinality(Calculators)]
    /\ DOMAIN queue = QueueNames
    /\ \A q \in QueueNames : queue[q] \in Seq(Messages) /\ Len(queue[q]) <= QueueCapacity
    /\ unsent \subseteq Messages
    /\ inbox \in Seq(Messages)
    /\ outbox \in Seq(Messages)

Init ==
    /\ main = "connecting"
    /\ server = [at |-> "read", unit |-> Nothing, stops |-> 0]
    /\ calculator = [c \in Calculators |-> [at |-> "take", unit |-> Nothing]]
    /\ client = [at |-> "take", unit |-> Nothing, stops |-> 0]
    /\ queue = [q \in QueueNames |-> << >>]
    /\ unsent = Messages
    /\ inbox = << >>
    /\ outbox = << >>

(* Faulty variant: the queue grows beyond its capacity.                    *)
EnqueueUnbounded(q, e) == queue' = [queue EXCEPT ![q] = Append(@, e)]

Enqueue(q, e) ==
    /\ Len(queue[q]) < QueueCapacity
    /\ queue' = [queue EXCEPT ![q] = Append(@, e)]

Dequeue(q, e) ==
    /\ queue[q] # << >>
    /\ e = Head(queue[q])
    /\ queue' = [queue EXCEPT ![q] = Tail(@)]

----
(* The main thread: it connects, starts the threads and joins them.        *)

MainConnects ==
    /\ main = "connecting"
    /\ main' = "joining"
    /\ UNCHANGED <<server, calculator, client, queue, unsent, inbox, outbox>>

(* connectToMaster() throws: stopWorker(false) has no threads to join.     *)
MainFailsToConnect ==
    /\ main = "connecting"
    /\ main' = "done"
    /\ UNCHANGED <<server, calculator, client, queue, unsent, inbox, outbox>>

MainJoins ==
    /\ main = "joining"
    /\ server.at = "done" /\ client.at = "done"
    /\ \A c \in Calculators : calculator[c].at = "done"
    /\ main' = "done"
    /\ UNCHANGED <<server, calculator, client, queue, unsent, inbox, outbox>>

(* The Distributor sends a unit, or tells the workers to stop and then     *)
(* sends no more; the master may also end.                                 *)
MasterSends(message) ==
    /\ main = "joining"
    /\ message \in unsent
    /\ inbox' = Append(inbox, message)
    /\ unsent' = IF message = Stop THEN {} ELSE unsent \ {message}
    /\ UNCHANGED <<main, server, calculator, client, queue, outbox>>

----
(* RequestServer.                                                          *)

ServerReads ==
    /\ server.at = "read"
    /\ inbox # << >>
    /\ inbox' = Tail(inbox)
    /\ server' = IF Head(inbox) = Stop
                 THEN [server EXCEPT !.at = "halt"]
                 ELSE [server EXCEPT !.at = "produce", !.unit = Head(inbox)]
    /\ UNCHANGED <<main, calculator, client, queue, unsent, outbox>>

ServerProduces ==
    /\ server.at = "produce"
    /\ Enqueue("units", server.unit)
    /\ server' = [server EXCEPT !.at = "read", !.unit = Nothing]
    /\ UNCHANGED <<main, calculator, client, unsent, inbox, outbox>>

(* Faulty variant: one stop condition for all of the calculators.          *)
ServerHaltsOnce ==
    /\ server.at = "halt"
    /\ Enqueue("units", Stop)
    /\ server' = [server EXCEPT !.stops = @ + 1, !.at = "done"]
    /\ UNCHANGED <<main, calculator, client, unsent, inbox, outbox>>

(* One stop condition for each calculator.                                 *)
ServerHalts ==
    /\ server.at = "halt"
    /\ Enqueue("units", Stop)
    /\ server' = [server EXCEPT
          !.stops = @ + 1,
          !.at = IF server.stops + 1 = Cardinality(Calculators) THEN "done" ELSE "halt"]
    /\ UNCHANGED <<main, calculator, client, unsent, inbox, outbox>>

----
(* Calculator.                                                             *)

CalculatorTakes(c) ==
    /\ calculator[c].at = "take"
    /\ \E e \in Messages :
          /\ Dequeue("units", e)
          /\ calculator' = [calculator EXCEPT ![c] =
                IF e = Stop THEN [at |-> "halt", unit |-> Nothing]
                ELSE [at |-> "produce", unit |-> e]]
    /\ UNCHANGED <<main, server, client, unsent, inbox, outbox>>

(* Faulty variant: the unit is computed and not handed on.                 *)
CalculatorKeeps(c) ==
    /\ calculator[c].at = "produce"
    /\ calculator' = [calculator EXCEPT ![c] = [at |-> "take", unit |-> Nothing]]
    /\ UNCHANGED <<main, server, client, queue, unsent, inbox, outbox>>

CalculatorProduces(c) ==
    /\ calculator[c].at = "produce"
    /\ Enqueue("responses", calculator[c].unit)
    /\ calculator' = [calculator EXCEPT ![c] = [at |-> "take", unit |-> Nothing]]
    /\ UNCHANGED <<main, server, client, unsent, inbox, outbox>>

CalculatorHalts(c) ==
    /\ calculator[c].at = "halt"
    /\ Enqueue("responses", Stop)
    /\ calculator' = [calculator EXCEPT ![c].at = "done"]
    /\ UNCHANGED <<main, server, client, unsent, inbox, outbox>>

----
(* ResponseClient: a consumeLoop() for each calculator's stop condition.   *)

ClientTakes ==
    /\ client.at = "take"
    /\ \E u \in Units :
          /\ Dequeue("responses", u)
          /\ client' = [client EXCEPT !.at = "send", !.unit = u]
    /\ UNCHANGED <<main, server, calculator, unsent, inbox, outbox>>

(* Faulty variant: a single consumeLoop().                                 *)
ClientHeedsFirstStop ==
    /\ client.at = "take"
    /\ Dequeue("responses", Stop)
    /\ client' = [client EXCEPT !.stops = @ + 1, !.at = "goodbye"]
    /\ UNCHANGED <<main, server, calculator, unsent, inbox, outbox>>

ClientCountsStop ==
    /\ client.at = "take"
    /\ Dequeue("responses", Stop)
    /\ client' = [client EXCEPT
          !.stops = @ + 1,
          !.at = IF client.stops + 1 = Cardinality(Calculators) THEN "goodbye" ELSE "take"]
    /\ UNCHANGED <<main, server, calculator, unsent, inbox, outbox>>

ClientSends ==
    /\ client.at = "send"
    /\ outbox' = Append(outbox, client.unit)
    /\ client' = [client EXCEPT !.at = "take", !.unit = Nothing]
    /\ UNCHANGED <<main, server, calculator, queue, unsent, inbox>>

ClientSaysGoodbye ==
    /\ client.at = "goodbye"
    /\ outbox' = Append(outbox, Stop)
    /\ client' = [client EXCEPT !.at = "done"]
    /\ UNCHANGED <<main, server, calculator, queue, unsent, inbox>>

----
MainWorks == MainConnects \/ MainFailsToConnect \/ MainJoins
ServerWorks == ServerReads \/ ServerProduces \/ ServerHalts
CalculatorWorks(c) == CalculatorTakes(c) \/ CalculatorProduces(c) \/ CalculatorHalts(c)
ClientWorks == ClientTakes \/ ClientCountsStop \/ ClientSends \/ ClientSaysGoodbye

(* The process has ended.                                                  *)
Finished == main = "done" /\ UNCHANGED vars

Next ==
    \/ MainWorks \/ ServerWorks \/ ClientWorks
    \/ \E c \in Calculators : CalculatorWorks(c)
    \/ \E message \in Messages : MasterSends(message)
    \/ Finished

Spec == Init /\ [][Next]_vars

(* Each thread that can run is run.  The master need not send anything.    *)
FairSpec ==
    /\ Spec
    /\ WF_vars(MainWorks)
    /\ WF_vars(ServerWorks)
    /\ \A c \in Calculators : WF_vars(CalculatorWorks(c))
    /\ WF_vars(ClientWorks)

----
(* The worker as the master sees it.  It drains from the moment that it    *)
(* has read the stop condition, and holds what it has read and not sent.   *)
Held ==
    (Range(queue["units"]) \cup Range(queue["responses"])
        \cup {server.unit, client.unit}
        \cup {calculator[c].unit : c \in Calculators}) \cap Units

State ==
    CASE main # "joining" /\ client.at # "done" -> "absent"
      [] main = "joining" /\ server.at \in {"read", "produce"} -> "serving"
      [] main = "joining" /\ server.at \in {"halt", "done"} /\ client.at # "done" -> "draining"
      [] client.at = "done" -> "gone"

remoteView == [w \in {Self} |->
                  [state |-> State, inbox |-> inbox, held |-> Held, outbox |-> outbox]]

Remote == INSTANCE RemoteCalculator WITH
    Workers <- {Self}, Unreliable <- {}, remote <- remoteView

RemoteStep ==
    \/ Remote!Connect(Self)
    \/ Remote!Works(Self)
    \/ \E message \in Messages : Remote!Send({Self}, message)

(* The worker does what the master counts on: it answers each unit once,   *)
(* and says "-1" when, of all its threads and queues, none has one left.   *)
ImplementsRemote == Remote!RemoteInit /\ [][RemoteStep]_remoteView

(* Each unit that was sent is answered, though the master may tell the     *)
(* worker to stop while all of its queues are full.                        *)
EveryUnitAnswered ==
    \A u \in Units : u \in Range(inbox) ~> u \in Range(outbox)

(* A worker that is told to stop, or is left by the master, ends.          *)
StopEndsWorker == Stop \in Range(inbox) ~> main = "done"

====
