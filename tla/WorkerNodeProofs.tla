---- MODULE WorkerNodeProofs ----
(***************************************************************************)
(* The worker process implements what the master counts on, for any number *)
(* of calculators and units and any capacity: it answers each unit that it *)
(* was sent, once, and says that it ends when nothing is left in it.       *)
(***************************************************************************)
EXTENDS WorkerNode, StopLemmas

(* A thread that has passed on what it took holds nothing, and one that    *)
(* counts stop conditions ends with the last of them.                      *)
ServerInv ==
    /\ server.at = "produce" <=> server.unit \in Units
    /\ server.at \in {"read", "produce"} => server.stops = 0
    /\ server.at = "done" <=> server.stops = Cardinality(Calculators)

CalculatorInv ==
    \A c \in Calculators : calculator[c].at = "produce" <=> calculator[c].unit \in Units

ClientInv ==
    /\ client.at = "send" <=> client.unit \in Units
    /\ client.at \in {"goodbye", "done"} <=> client.stops = Cardinality(Calculators)

ThreadsInv == TypeOK /\ ServerInv /\ CalculatorInv /\ ClientInv

(* The stop conditions of the two queues.                                  *)
QueuesInv ==
    /\ Passed(Stop, queue["units"], server.stops, Cardinality(Heeded(calculator)))
    /\ Gathered(Stop, queue["responses"], Cardinality(Ended(calculator)), client.stops,
                AllEnded(calculator))

(* The master's stop condition is its last message.                        *)
InboxInv ==
    /\ StopLast(Stop, inbox)
    /\ Stop \in Range(inbox) \/ server.at \in {"halt", "done"} => unsent = {}
    /\ server.at \in {"halt", "done"} => inbox = << >>

(* No thread has run before main() has started it, nor runs once main()    *)
(* has joined it.                                                          *)
NotStarted ==
    /\ server.at = "read" /\ inbox = << >>
    /\ \A q \in QueueNames : queue[q] = << >>
    /\ \A c \in Calculators : calculator[c].at = "take"
    /\ client.at = "take"

MainInv ==
    /\ main = "connecting" => NotStarted
    /\ main = "done" => NotStarted \/ client.at = "done"

(* Where the units are, from the master to the answer.                     *)
Stages == {"unsent", "inbox", "server", "units", "calculators", "responses", "client"}

holds ==
    [unsent |-> unsent \ {Stop},
     inbox |-> Range(inbox) \ {Stop},
     server |-> {server.unit} \ {Nothing},
     units |-> Range(queue["units"]) \ {Stop},
     calculators |-> {calculator[c].unit : c \in Calculators} \ {Nothing},
     responses |-> Range(queue["responses"]) \ {Stop},
     client |-> {client.unit} \ {Nothing}]

(* No unit is at two stages, and none is at one of them twice.             *)
Apart(H) == \A a, b \in Stages : a # b => H[a] \cap H[b] = {}

OnceInv ==
    /\ Apart(holds)
    /\ Distinct(Stop, inbox) /\ Distinct(Stop, queue["units"]) /\ Distinct(Stop, queue["responses"])
    /\ \A c, d \in Calculators :
          calculator[c].unit = calculator[d].unit /\ calculator[c].unit # Nothing => c = d

NodeInv == ThreadsInv /\ QueuesInv /\ InboxInv /\ MainInv /\ OnceInv

----
(* Types: the queues, and each thread.                                     *)
LEMMA Sizes ==
    /\ IsFiniteSet(Calculators) /\ Cardinality(Calculators) \in Nat /\ Cardinality(Calculators) > 0
    /\ Stop \notin Units /\ Nothing \notin Units /\ QueueCapacity \in Nat
    /\ Stop \in Messages /\ Units \subseteq Messages
<1>1. IsFiniteSet(Calculators) /\ Calculators # {}
  BY NodeAssumption
<1>2. Cardinality(Calculators) \in Nat /\ Cardinality(Calculators) # 0
  BY <1>1, FS_CardinalityType, FS_EmptySet
<1> QED
  BY <1>1, <1>2, NodeAssumption DEF Messages

LEMMA QueuesAre ==
    ASSUME TypeOK
    PROVE  /\ queue["units"] \in Seq(Messages) /\ queue["responses"] \in Seq(Messages)
           /\ "units" \in QueueNames /\ "responses" \in QueueNames
           /\ \A q \in QueueNames : q = "units" \/ q = "responses"
           /\ inbox \in Seq(Messages) /\ outbox \in Seq(Messages)
  BY DEF TypeOK, QueueNames

QueueType == DOMAIN queue = QueueNames
             /\ \A q \in QueueNames : queue[q] \in Seq(Messages) /\ Len(queue[q]) <= QueueCapacity

LEMMA Enqueues ==
    ASSUME TypeOK, NEW q \in QueueNames, NEW e \in Messages, Enqueue(q, e)
    PROVE  /\ queue'[q] = Append(queue[q], e) /\ \A x \in QueueNames \ {q} : queue'[x] = queue[x]
           /\ QueueType'
<1>1. QueueType
  BY DEF TypeOK, QueueType
<1>2. /\ queue'[q] = Append(queue[q], e) /\ \A x \in QueueNames \ {q} : queue'[x] = queue[x]
      /\ DOMAIN queue' = QueueNames /\ Len(queue[q]) < QueueCapacity /\ queue[q] \in Seq(Messages)
  BY <1>1 DEF QueueType, Enqueue
<1>3. Append(queue[q], e) \in Seq(Messages) /\ Len(Append(queue[q], e)) <= QueueCapacity
  BY <1>2, Sizes
<1> QED
  BY <1>1, <1>2, <1>3 DEF QueueType

LEMMA Dequeues ==
    ASSUME TypeOK, NEW q \in QueueNames, NEW e, Dequeue(q, e)
    PROVE  /\ queue[q] # << >> /\ e = Head(queue[q]) /\ e \in Messages
           /\ queue'[q] = Tail(queue[q]) /\ \A x \in QueueNames \ {q} : queue'[x] = queue[x]
           /\ QueueType'
<1>1. QueueType
  BY DEF TypeOK, QueueType
<1>2. /\ queue'[q] = Tail(queue[q]) /\ \A x \in QueueNames \ {q} : queue'[x] = queue[x]
      /\ DOMAIN queue' = QueueNames /\ queue[q] # << >> /\ queue[q] \in Seq(Messages)
      /\ e = Head(queue[q]) /\ Len(queue[q]) <= QueueCapacity
  BY <1>1 DEF QueueType, Dequeue
<1>3. /\ Tail(queue[q]) \in Seq(Messages) /\ Len(Tail(queue[q])) <= QueueCapacity
      /\ Head(queue[q]) \in Messages
  BY <1>2, Sizes, HeadTailProperties
<1> QED
  BY <1>1, <1>2, <1>3 DEF QueueType

(* What each step of a thread does to its state.                           *)
CalculatorMoves(c, a, b) ==
    /\ Moved(calculator, calculator', c, a, b)
    /\ \A d \in Calculators \ {c} : calculator'[d] = calculator[d]

LEMMA CalculatorSteps ==
    ASSUME ThreadsInv, NEW c \in Calculators
    PROVE  /\ CalculatorTakes(c) =>
                 \/ /\ Dequeue("units", Stop) /\ CalculatorMoves(c, "take", "halt")
                    /\ calculator[c].unit = Nothing /\ calculator'[c].unit = Nothing
                 \/ \E u \in Units :
                       /\ Dequeue("units", u) /\ CalculatorMoves(c, "take", "produce")
                       /\ calculator[c].unit = Nothing /\ calculator'[c].unit = u
           /\ CalculatorProduces(c) =>
                 /\ calculator[c].unit \in Units /\ Enqueue("responses", calculator[c].unit)
                 /\ CalculatorMoves(c, "produce", "take") /\ calculator'[c].unit = Nothing
           /\ CalculatorHalts(c) =>
                 /\ Enqueue("responses", Stop) /\ CalculatorMoves(c, "halt", "done")
                 /\ calculator[c].unit = Nothing /\ calculator'[c].unit = Nothing
<1>1. /\ DOMAIN calculator = Calculators
      /\ \A d \in Calculators : calculator[d] \in [at : {"take", "produce", "halt", "done"},
                                                   unit : Units \cup {Nothing}]
  BY DEF ThreadsInv, TypeOK
<1>2. calculator[c].at # "produce" => calculator[c].unit = Nothing
  BY <1>1 DEF ThreadsInv, CalculatorInv
<1>3. calculator[c].at = "produce" => calculator[c].unit \in Units
  BY DEF ThreadsInv, CalculatorInv
<1>4. ASSUME CalculatorTakes(c)
      PROVE  \/ /\ Dequeue("units", Stop) /\ CalculatorMoves(c, "take", "halt")
                /\ calculator[c].unit = Nothing /\ calculator'[c].unit = Nothing
             \/ \E u \in Units :
                   /\ Dequeue("units", u) /\ CalculatorMoves(c, "take", "produce")
                   /\ calculator[c].unit = Nothing /\ calculator'[c].unit = u
  <2>1. PICK e \in Messages :
           /\ Dequeue("units", e)
           /\ calculator' = [calculator EXCEPT ![c] =
                 IF e = Stop THEN [at |-> "halt", unit |-> Nothing]
                 ELSE [at |-> "produce", unit |-> e]]
    BY <1>4 DEF CalculatorTakes
  <2>2. calculator[c].at = "take" /\ calculator[c].unit = Nothing
    BY <1>2, <1>4 DEF CalculatorTakes
  <2>3. CASE e = Stop
    BY <1>1, <2>1, <2>2, <2>3 DEF CalculatorMoves, Moved
  <2>4. CASE e # Stop
    <3>1. e \in Units
      BY <2>4 DEF Messages
    <3>2. CalculatorMoves(c, "take", "produce") /\ calculator'[c].unit = e
      BY <1>1, <2>1, <2>2, <2>4 DEF CalculatorMoves, Moved
    <3> QED
      BY <2>1, <2>2, <3>1, <3>2
  <2> QED
    BY <2>3, <2>4
<1>5. ASSUME CalculatorProduces(c)
      PROVE  /\ calculator[c].unit \in Units /\ Enqueue("responses", calculator[c].unit)
             /\ CalculatorMoves(c, "produce", "take") /\ calculator'[c].unit = Nothing
  BY <1>1, <1>3, <1>5 DEF CalculatorProduces, CalculatorMoves, Moved
<1>6. ASSUME CalculatorHalts(c)
      PROVE  /\ Enqueue("responses", Stop) /\ CalculatorMoves(c, "halt", "done")
             /\ calculator[c].unit = Nothing /\ calculator'[c].unit = Nothing
  BY <1>1, <1>2, <1>6 DEF CalculatorHalts, CalculatorMoves, Moved
<1> QED
  BY <1>4, <1>5, <1>6

(* The steps by the thread that takes them.                                *)
MainOnly == UNCHANGED <<server, calculator, client, queue, outbox>>
ServerOnly == UNCHANGED <<main, calculator, client, unsent, outbox>>
CalculatorOnly == UNCHANGED <<main, server, client, unsent, inbox, outbox>>
ClientOnly == UNCHANGED <<main, server, calculator, unsent, inbox>>

LEMMA NodeSteps ==
    ASSUME [Next]_vars
    PROVE  \/ MainConnects \/ MainFailsToConnect \/ MainJoins
           \/ \E message \in Messages : MasterSends(message)
           \/ ServerReads \/ ServerProduces \/ ServerHalts
           \/ \E c \in Calculators : \/ CalculatorTakes(c)
                                     \/ CalculatorProduces(c)
                                     \/ CalculatorHalts(c)
           \/ ClientTakes \/ ClientCountsStop \/ ClientSends \/ ClientSaysGoodbye
           \/ UNCHANGED vars
  BY DEF Next, MainWorks, ServerWorks, CalculatorWorks, ClientWorks, Finished

LEMMA ThreadsInit == Init => ThreadsInv
<1> SUFFICES ASSUME Init PROVE ThreadsInv
  OBVIOUS
<1>1. Cardinality(Calculators) \in Nat /\ Cardinality(Calculators) > 0
      /\ Nothing \notin Units /\ QueueCapacity \in Nat
  BY Sizes
<1>2. << >> \in Seq(Messages) /\ Len(<< >>) = 0
  OBVIOUS
<1>3. TypeOK
  BY <1>1, <1>2 DEF Init, TypeOK
<1> QED
  BY <1>1, <1>3 DEF Init, ThreadsInv, ServerInv, CalculatorInv, ClientInv

LEMMA ServerThreads ==
    ASSUME ThreadsInv, ServerReads \/ ServerProduces \/ ServerHalts
    PROVE  ThreadsInv'
<1>1. TypeOK /\ ServerInv /\ CalculatorInv /\ ClientInv
  BY DEF ThreadsInv
<1>2. /\ Cardinality(Calculators) \in Nat /\ Cardinality(Calculators) > 0
      /\ Nothing \notin Units /\ Stop \notin Units /\ Stop \in Messages /\ Units \subseteq Messages
  BY Sizes
<1>3. server \in [at : {"read", "produce", "halt", "done"},
                  unit : Units \cup {Nothing}, stops : 0 .. Cardinality(Calculators)]
  BY <1>1 DEF TypeOK
<1>4. CASE ServerReads
  <2>1. /\ server.at = "read" /\ inbox # << >> /\ inbox' = Tail(inbox)
        /\ inbox \in Seq(Messages) /\ UNCHANGED <<main, calculator, client, queue, unsent, outbox>>
    BY <1>1, <1>4 DEF ServerReads, TypeOK
  <2>2. Head(inbox) \in Messages /\ Tail(inbox) \in Seq(Messages)
    BY <2>1, HeadTailProperties
  <2>3. /\ server' \in [at : {"read", "produce", "halt", "done"},
                        unit : Units \cup {Nothing}, stops : 0 .. Cardinality(Calculators)]
        /\ ServerInv'
    <3>1. CASE Head(inbox) = Stop
      <4>1. server' = [server EXCEPT !.at = "halt"]
        BY <1>4, <3>1 DEF ServerReads
      <4> QED
        BY <1>1, <1>2, <1>3, <2>1, <4>1 DEF ServerInv
    <3>2. CASE Head(inbox) # Stop
      <4>1. /\ server' = [server EXCEPT !.at = "produce", !.unit = Head(inbox)]
            /\ Head(inbox) \in Units
        BY <1>4, <2>2, <3>2 DEF ServerReads, Messages
      <4> QED
        BY <1>1, <1>2, <1>3, <2>1, <4>1 DEF ServerInv
    <3> QED
      BY <3>1, <3>2
  <2> QED
    BY <1>1, <2>1, <2>2, <2>3 DEF ThreadsInv, TypeOK, CalculatorInv, ClientInv
<1>5. CASE ServerProduces
  <2>1. /\ server.at = "produce" /\ server' = [server EXCEPT !.at = "read", !.unit = Nothing]
        /\ Enqueue("units", server.unit)
        /\ UNCHANGED <<main, calculator, client, unsent, inbox, outbox>>
    BY <1>5 DEF ServerProduces
  <2>2. server.unit \in Messages
    BY <1>1, <1>2, <2>1 DEF ServerInv
  <2>3. QueueType'
    BY <1>1, <2>1, <2>2, QueuesAre, Enqueues
  <2>4. /\ server' \in [at : {"read", "produce", "halt", "done"},
                        unit : Units \cup {Nothing}, stops : 0 .. Cardinality(Calculators)]
        /\ ServerInv'
    BY <1>1, <1>2, <1>3, <2>1 DEF ServerInv
  <2> QED
    BY <1>1, <2>1, <2>3, <2>4 DEF ThreadsInv, TypeOK, QueueType, CalculatorInv, ClientInv
<1>6. CASE ServerHalts
  <2>1. /\ server.at = "halt" /\ Enqueue("units", Stop)
        /\ server' = [server EXCEPT
              !.stops = server.stops + 1,
              !.at = IF server.stops + 1 = Cardinality(Calculators) THEN "done" ELSE "halt"]
        /\ UNCHANGED <<main, calculator, client, unsent, inbox, outbox>>
    BY <1>6 DEF ServerHalts
  <2>2. QueueType'
    BY <1>1, <1>2, <2>1, QueuesAre, Enqueues
  <2>3. server.stops + 1 \in 0 .. Cardinality(Calculators)
    BY <1>1, <1>2, <1>3, <2>1 DEF ServerInv
  <2>4. /\ server' \in [at : {"read", "produce", "halt", "done"},
                        unit : Units \cup {Nothing}, stops : 0 .. Cardinality(Calculators)]
        /\ ServerInv'
    BY <1>1, <1>2, <1>3, <2>1, <2>3 DEF ServerInv
  <2> QED
    BY <1>1, <2>1, <2>2, <2>4 DEF ThreadsInv, TypeOK, QueueType, CalculatorInv, ClientInv
<1> QED
  BY <1>4, <1>5, <1>6

LEMMA CalculatorThreads ==
    ASSUME ThreadsInv, NEW c \in Calculators,
           CalculatorTakes(c) \/ CalculatorProduces(c) \/ CalculatorHalts(c)
    PROVE  ThreadsInv'
<1>1. TypeOK /\ ServerInv /\ CalculatorInv /\ ClientInv
  BY DEF ThreadsInv
<1>2. /\ Nothing \notin Units /\ Stop \notin Units /\ Stop \in Messages /\ Units \subseteq Messages
  BY Sizes
<1> DEFINE Type == [at : {"take", "produce", "halt", "done"}, unit : Units \cup {Nothing}]
<1>3. calculator \in [Calculators -> Type]
  BY <1>1 DEF TypeOK
<1>4. CalculatorOnly
  BY DEF CalculatorTakes, CalculatorProduces, CalculatorHalts, CalculatorOnly
<1>5. ASSUME QueueType', calculator' \in [Calculators -> Type],
             calculator'[c].at = "produce" <=> calculator'[c].unit \in Units,
             \A d \in Calculators \ {c} : calculator'[d] = calculator[d]
      PROVE  ThreadsInv'
  BY <1>1, <1>4, <1>5 DEF ThreadsInv, TypeOK, QueueType, ServerInv, CalculatorInv, ClientInv,
     CalculatorOnly
<1>6. CASE CalculatorTakes(c)
  <2>1. PICK e \in Messages :
           /\ Dequeue("units", e)
           /\ calculator' = [calculator EXCEPT ![c] =
                 IF e = Stop THEN [at |-> "halt", unit |-> Nothing]
                 ELSE [at |-> "produce", unit |-> e]]
    BY <1>6 DEF CalculatorTakes
  <2>2. QueueType'
    BY <1>1, <2>1, QueuesAre, Dequeues
  <2>3. e = Stop \/ e \in Units
    BY DEF Messages
  <2> QED
    BY <1>2, <1>3, <1>5, <2>1, <2>2, <2>3
<1>7. CASE CalculatorProduces(c)
  <2>1. /\ calculator[c].at = "produce" /\ Enqueue("responses", calculator[c].unit)
        /\ calculator' = [calculator EXCEPT ![c] = [at |-> "take", unit |-> Nothing]]
    BY <1>7 DEF CalculatorProduces
  <2>2. QueueType'
    BY <1>1, <1>2, <2>1, QueuesAre, Enqueues DEF CalculatorInv
  <2> QED
    BY <1>2, <1>3, <1>5, <2>1, <2>2
<1>8. CASE CalculatorHalts(c)
  <2>1. /\ calculator[c].at = "halt" /\ Enqueue("responses", Stop)
        /\ calculator' = [calculator EXCEPT ![c].at = "done"]
    BY <1>8 DEF CalculatorHalts
  <2>2. QueueType'
    BY <1>1, <1>2, <2>1, QueuesAre, Enqueues
  <2>3. calculator[c].unit \notin Units
    BY <1>1, <2>1 DEF CalculatorInv
  <2> QED
    BY <1>2, <1>3, <1>5, <2>1, <2>2, <2>3
<1> QED
  BY <1>6, <1>7, <1>8

LEMMA ClientThreads ==
    ASSUME ThreadsInv, ClientTakes \/ ClientCountsStop \/ ClientSends \/ ClientSaysGoodbye
    PROVE  ThreadsInv'
<1>1. TypeOK /\ ServerInv /\ CalculatorInv /\ ClientInv
  BY DEF ThreadsInv
<1>2. /\ Cardinality(Calculators) \in Nat /\ Cardinality(Calculators) > 0
      /\ Nothing \notin Units /\ Stop \in Messages /\ Units \subseteq Messages
  BY Sizes
<1> DEFINE Type == [at : {"take", "send", "goodbye", "done"},
                    unit : Units \cup {Nothing}, stops : 0 .. Cardinality(Calculators)]
<1>3. client \in Type
  BY <1>1 DEF TypeOK
<1>4. UNCHANGED <<main, server, calculator, unsent, inbox>>
  BY DEF ClientTakes, ClientCountsStop, ClientSends, ClientSaysGoodbye
<1>5. ASSUME QueueType', client' \in Type, ClientInv', outbox' \in Seq(Messages)
      PROVE  ThreadsInv'
  BY <1>1, <1>4, <1>5 DEF ThreadsInv, TypeOK, QueueType, ServerInv, CalculatorInv
<1>6. QueueType /\ outbox \in Seq(Messages)
  BY <1>1 DEF TypeOK, QueueType
<1>7. CASE ClientTakes
  <2>1. PICK u \in Units :
           /\ Dequeue("responses", u) /\ client' = [client EXCEPT !.at = "send", !.unit = u]
    BY <1>7 DEF ClientTakes
  <2>2. QueueType' /\ outbox' = outbox /\ client.at = "take"
    BY <1>1, <1>7, <2>1, QueuesAre, Dequeues DEF ClientTakes
  <2>3. client' \in Type /\ ClientInv'
    BY <1>1, <1>2, <1>3, <2>1, <2>2 DEF ClientInv
  <2> QED
    BY <1>5, <1>6, <2>2, <2>3
<1>8. CASE ClientCountsStop
  <2>1. /\ Dequeue("responses", Stop) /\ client.at = "take"
        /\ client' = [client EXCEPT
              !.stops = client.stops + 1,
              !.at = IF client.stops + 1 = Cardinality(Calculators) THEN "goodbye" ELSE "take"]
    BY <1>8 DEF ClientCountsStop
  <2>2. QueueType' /\ outbox' = outbox
    BY <1>1, <1>8, <2>1, QueuesAre, Dequeues DEF ClientCountsStop
  <2>3. client.stops + 1 \in 0 .. Cardinality(Calculators)
    BY <1>1, <1>2, <1>3, <2>1 DEF ClientInv
  <2>4. client' \in Type /\ ClientInv'
    BY <1>1, <1>2, <1>3, <2>1, <2>3 DEF ClientInv
  <2> QED
    BY <1>5, <1>6, <2>2, <2>4
<1>9. CASE ClientSends
  <2>1. /\ client.at = "send" /\ queue' = queue /\ outbox' = Append(outbox, client.unit)
        /\ client' = [client EXCEPT !.at = "take", !.unit = Nothing]
    BY <1>9 DEF ClientSends
  <2>2. QueueType' /\ outbox' \in Seq(Messages)
    BY <1>1, <1>2, <1>6, <2>1 DEF QueueType, ClientInv
  <2>3. client' \in Type /\ ClientInv'
    BY <1>1, <1>2, <1>3, <2>1 DEF ClientInv
  <2> QED
    BY <1>5, <2>2, <2>3
<1>10. CASE ClientSaysGoodbye
  <2>1. /\ client.at = "goodbye" /\ queue' = queue /\ outbox' = Append(outbox, Stop)
        /\ client' = [client EXCEPT !.at = "done"]
    BY <1>10 DEF ClientSaysGoodbye
  <2>2. QueueType' /\ outbox' \in Seq(Messages)
    BY <1>2, <1>6, <2>1 DEF QueueType
  <2>3. client' \in Type /\ ClientInv'
    BY <1>1, <1>2, <1>3, <2>1 DEF ClientInv
  <2> QED
    BY <1>5, <2>2, <2>3
<1> QED
  BY <1>7, <1>8, <1>9, <1>10

LEMMA ThreadsStep == ThreadsInv /\ [Next]_vars => ThreadsInv'
<1> SUFFICES ASSUME ThreadsInv, [Next]_vars PROVE ThreadsInv'
  OBVIOUS
<1> USE DEF ThreadsInv, TypeOK, ServerInv, CalculatorInv, ClientInv
<1>1. CASE MainConnects \/ MainFailsToConnect \/ MainJoins
  BY <1>1 DEF MainConnects, MainFailsToConnect, MainJoins
<1>2. ASSUME NEW message \in Messages, MasterSends(message) PROVE ThreadsInv'
  <2>1. Append(inbox, message) \in Seq(Messages)
    BY DEF TypeOK
  <2>2. inbox' \in Seq(Messages) /\ unsent' \subseteq Messages
        /\ UNCHANGED <<main, server, calculator, client, queue, outbox>>
    BY <1>2, <2>1 DEF MasterSends
  <2> QED
    BY <2>2
<1>3. CASE UNCHANGED vars
  BY <1>3 DEF vars
<1> QED
  BY <1>1, <1>2, <1>3, NodeSteps, ServerThreads, CalculatorThreads, ClientThreads

(* Threads and messages are of their types, and no queue of the worker is  *)
(* overfull, whatever the master sends it.                                 *)
THEOREM NodeTypeCorrect == Spec => []TypeOK
<1>1. ThreadsInv => TypeOK
  BY DEF ThreadsInv
<1> QED
  BY <1>1, ThreadsInit, ThreadsStep, PTL DEF Spec

----
(* The stop conditions of the two queues, with what each step does to the  *)
(* threads that count them.                                                *)
LEMMA CountsType ==
    ASSUME ThreadsInv
    PROVE  /\ IsFiniteSet(DOMAIN calculator) /\ DOMAIN calculator = Calculators
           /\ server.stops \in Nat /\ client.stops \in Nat
           /\ server.stops <= Cardinality(Calculators)
           /\ client.stops <= Cardinality(Calculators)
           /\ Cardinality(Heeded(calculator)) \in Nat /\ Cardinality(Ended(calculator)) \in Nat
<1>1. /\ IsFiniteSet(DOMAIN calculator) /\ DOMAIN calculator = Calculators
      /\ Cardinality(Calculators) \in Nat
      /\ server.stops \in 0 .. Cardinality(Calculators)
      /\ client.stops \in 0 .. Cardinality(Calculators)
  BY Sizes DEF ThreadsInv, TypeOK
<1>2. Cardinality(Heeded(calculator)) \in Nat /\ Cardinality(Ended(calculator)) \in Nat
  BY <1>1, HeededType
<1> QED
  BY <1>1, <1>2

LEMMA UnitsQueueStep ==
    ASSUME ThreadsInv, QueuesInv, [Next]_vars
    PROVE  Passed(Stop, queue'["units"], server'.stops, Cardinality(Heeded(calculator')))
<1> DEFINE s == queue["units"]
           n == server.stops
           h == Cardinality(Heeded(calculator))
           Goal == Passed(Stop, s', server'.stops, Cardinality(Heeded(calculator')))
<1>1. /\ s \in Seq(Messages) /\ Stop \in Messages /\ n \in Nat /\ h \in Nat /\ Passed(Stop, s, n, h)
      /\ TypeOK /\ "units" \in QueueNames /\ "responses" \in QueueNames
  BY CountsType, QueuesAre, Sizes DEF QueuesInv, ThreadsInv
<1>2. IsFiniteSet(DOMAIN calculator)
  BY CountsType
<1>3. CASE s' = s /\ server'.stops = n /\ Heeded(calculator') = Heeded(calculator)
  BY <1>1, <1>3
<1>4. CASE UNCHANGED <<queue, server, calculator>>
  BY <1>3, <1>4
<1>5. CASE ServerReads
  <2>1. server'.stops = n
    BY <1>5 DEF ServerReads, ThreadsInv, TypeOK
  <2> QED
    BY <1>3, <1>5, <2>1 DEF ServerReads
<1>6. CASE ServerProduces
  <2>1. /\ Enqueue("units", server.unit) /\ server.unit \in Units /\ n = 0 /\ server'.stops = n
        /\ calculator' = calculator
    BY <1>6 DEF ServerProduces, ThreadsInv, ServerInv, TypeOK
  <2>2. s' = Append(s, server.unit) /\ server.unit \in Messages /\ server.unit # Stop
    BY <1>1, <2>1, Sizes, Enqueues
  <2>3. Passed(Stop, Append(s, server.unit), n, h)
    BY <1>1, <2>1, <2>2, PassedMore
  <2> QED
    BY <2>1, <2>2, <2>3
<1>7. CASE ServerHalts
  <2>1. Enqueue("units", Stop) /\ server'.stops = n + 1 /\ calculator' = calculator
    BY <1>7 DEF ServerHalts, ThreadsInv, TypeOK
  <2>2. s' = Append(s, Stop)
    BY <1>1, <2>1, Enqueues
  <2>3. Passed(Stop, Append(s, Stop), n + 1, h)
    BY <1>1, PassedStop
  <2> QED
    BY <2>1, <2>2, <2>3
<1>8. ASSUME NEW c \in Calculators, CalculatorTakes(c) PROVE Goal
  <2>1. server' = server
    BY <1>8 DEF CalculatorTakes
  <2>2. CASE Dequeue("units", Stop) /\ CalculatorMoves(c, "take", "halt")
    <3>1. s # << >> /\ Stop = Head(s) /\ s' = Tail(s)
      BY <1>1, <2>2, Dequeues
    <3>2. Cardinality(Heeded(calculator')) = h + Count(Head(s) = Stop)
      BY <1>2, <2>2, <3>1, MovedHeeded DEF CalculatorMoves, Count
    <3>3. Passed(Stop, Tail(s), n, h + Count(Head(s) = Stop))
      BY <1>1, <3>1, PassedTail
    <3> QED
      BY <2>1, <3>1, <3>2, <3>3
  <2>3. ASSUME NEW u \in Units, Dequeue("units", u), CalculatorMoves(c, "take", "produce")
         PROVE  Goal
    <3>1. s # << >> /\ u = Head(s) /\ s' = Tail(s) /\ u # Stop
      BY <1>1, <2>3, Dequeues, Sizes
    <3>2. Heeded(calculator') = Heeded(calculator)
      BY <1>2, <2>3, MovedHeeded DEF CalculatorMoves
    <3>3. h + Count(Head(s) = Stop) = h
      BY <1>1, <3>1 DEF Count
    <3>4. Passed(Stop, Tail(s), n, h + Count(Head(s) = Stop))
      BY <1>1, <3>1, PassedTail
    <3> QED
      BY <2>1, <3>1, <3>2, <3>3, <3>4
  <2> QED
    BY <1>8, <2>2, <2>3, CalculatorSteps
<1>9. ASSUME NEW c \in Calculators, CalculatorProduces(c) \/ CalculatorHalts(c) PROVE Goal
  <2>1. \E e \in Messages : Enqueue("responses", e)
    BY <1>9, CalculatorSteps, Sizes
  <2>2. s' = s
    BY <1>1, <2>1, Enqueues
  <2>3. CalculatorMoves(c, "produce", "take") \/ CalculatorMoves(c, "halt", "done")
    BY <1>9, CalculatorSteps
  <2>4. Heeded(calculator') = Heeded(calculator)
    BY <1>2, <2>3, MovedHeeded DEF CalculatorMoves
  <2> QED
    BY <1>3, <1>9, <2>2, <2>4 DEF CalculatorProduces, CalculatorHalts
<1>10. CASE ClientTakes \/ ClientCountsStop
  <2>1. \E e : Dequeue("responses", e)
    BY <1>10 DEF ClientTakes, ClientCountsStop
  <2>2. s' = s
    BY <1>1, <2>1, Dequeues
  <2> QED
    BY <1>3, <1>10, <2>2 DEF ClientTakes, ClientCountsStop
<1>11. CASE ClientSends \/ ClientSaysGoodbye
  BY <1>4, <1>11 DEF ClientSends, ClientSaysGoodbye
<1>12. CASE \/ MainConnects \/ MainFailsToConnect \/ MainJoins \/ UNCHANGED vars
            \/ \E message \in Messages : MasterSends(message)
  BY <1>4, <1>12 DEF MainConnects, MainFailsToConnect, MainJoins, MasterSends, vars
<1> QED
  BY <1>5, <1>6, <1>7, <1>8, <1>9, <1>10, <1>11, <1>12, NodeSteps

LEMMA ResponsesQueueStep ==
    ASSUME ThreadsInv, QueuesInv, [Next]_vars
    PROVE  Gathered(Stop, queue'["responses"], Cardinality(Ended(calculator')), client'.stops,
                    AllEnded(calculator'))
<1> DEFINE s == queue["responses"]
           n == Cardinality(Ended(calculator))
           h == client.stops
           over == AllEnded(calculator)
           Goal == Gathered(Stop, s', Cardinality(Ended(calculator')), client'.stops,
                            AllEnded(calculator'))
<1>1. /\ s \in Seq(Messages) /\ Stop \in Messages /\ n \in Nat /\ h \in Nat
      /\ Gathered(Stop, s, n, h, over)
      /\ TypeOK /\ "units" \in QueueNames /\ "responses" \in QueueNames
  BY CountsType, QueuesAre, Sizes DEF QueuesInv, ThreadsInv
<1>2. IsFiniteSet(DOMAIN calculator)
  BY CountsType
<1>3. CASE s' = s /\ client'.stops = h /\ calculator' = calculator
  BY <1>1, <1>3
<1>4. CASE UNCHANGED <<queue, client, calculator>>
  BY <1>3, <1>4
<1>5. CASE ServerProduces \/ ServerHalts
  <2>1. \E e \in Messages : Enqueue("units", e)
    BY <1>5, Sizes DEF ServerProduces, ServerHalts, ThreadsInv, ServerInv
  <2>2. s' = s
    BY <1>1, <2>1, Enqueues
  <2> QED
    BY <1>3, <1>5, <2>2 DEF ServerProduces, ServerHalts
<1>6. ASSUME NEW c \in Calculators, CalculatorTakes(c) PROVE Goal
  <2>1. \E e : Dequeue("units", e)
    BY <1>6, CalculatorSteps
  <2>2. s' = s /\ client' = client
    BY <1>1, <1>6, <2>1, Dequeues DEF CalculatorTakes
  <2>3. CalculatorMoves(c, "take", "halt") \/ CalculatorMoves(c, "take", "produce")
    BY <1>6, CalculatorSteps
  <2>4. Ended(calculator') = Ended(calculator) /\ ~AllEnded(calculator')
    BY <1>2, <2>3, MovedHeeded DEF CalculatorMoves
  <2> QED
    BY <1>1, <2>2, <2>4 DEF Gathered
<1>7. ASSUME NEW c \in Calculators, CalculatorProduces(c) PROVE Goal
  <2> DEFINE u == calculator[c].unit
  <2>1. u \in Units /\ Enqueue("responses", u) /\ CalculatorMoves(c, "produce", "take")
    BY <1>7, CalculatorSteps
  <2>2. s' = Append(s, u) /\ u \in Messages /\ u # Stop /\ client' = client
    BY <1>1, <1>7, <2>1, Sizes, Enqueues DEF CalculatorProduces
  <2>3. Ended(calculator') = Ended(calculator) /\ ~AllEnded(calculator')
    BY <1>2, <2>1, MovedHeeded DEF CalculatorMoves
  <2>4. Gathered(Stop, Append(s, u), n, h, AllEnded(calculator'))
    <3> HIDE DEF s, n, h, u, over
    <3> QED
      BY <1>1, <2>2, <2>3, GatheredMore
  <2> QED
    BY <2>2, <2>3, <2>4
<1>8. ASSUME NEW c \in Calculators, CalculatorHalts(c) PROVE Goal
  <2>1. Enqueue("responses", Stop) /\ CalculatorMoves(c, "halt", "done") /\ client' = client
    BY <1>8, CalculatorSteps DEF CalculatorHalts
  <2>2. s' = Append(s, Stop)
    BY <1>1, <2>1, Enqueues
  <2>3. Cardinality(Ended(calculator')) = n + 1
    BY <1>2, <2>1, MovedHeeded DEF CalculatorMoves
  <2>4. Gathered(Stop, Append(s, Stop), n + 1, h, AllEnded(calculator'))
    <3> HIDE DEF s, n, h, over
    <3> QED
      BY <1>1, GatheredStop
  <2> QED
    BY <2>1, <2>2, <2>3, <2>4
<1>9. CASE ClientTakes
  <2>1. PICK u \in Units : Dequeue("responses", u)
    BY <1>9 DEF ClientTakes
  <2>2. s # << >> /\ Head(s) = u /\ s' = Tail(s) /\ u # Stop
    BY <1>1, <2>1, Sizes, Dequeues
  <2>3. client'.stops = h /\ calculator' = calculator
    BY <1>9 DEF ClientTakes, ThreadsInv, TypeOK
  <2>4. Gathered(Stop, Tail(s), n, h + Count(Head(s) = Stop), over)
    BY <1>1, <2>2, GatheredTail
  <2>5. h + Count(Head(s) = Stop) = h
    BY <1>1, <2>2 DEF Count
  <2> QED
    BY <2>2, <2>3, <2>4, <2>5
<1>10. CASE ClientCountsStop
  <2>1. Dequeue("responses", Stop) /\ client'.stops = h + 1 /\ calculator' = calculator
    BY <1>10 DEF ClientCountsStop, ThreadsInv, TypeOK
  <2>2. s # << >> /\ Head(s) = Stop /\ s' = Tail(s)
    BY <1>1, <2>1, Dequeues
  <2>3. Gathered(Stop, Tail(s), n, h + Count(Head(s) = Stop), over)
    BY <1>1, <2>2, GatheredTail
  <2>4. h + Count(Head(s) = Stop) = h + 1
    BY <2>2 DEF Count
  <2> QED
    BY <2>1, <2>2, <2>3, <2>4
<1>11. CASE ClientSends \/ ClientSaysGoodbye
  <2>1. client'.stops = h
    BY <1>11 DEF ClientSends, ClientSaysGoodbye, ThreadsInv, TypeOK
  <2> QED
    BY <1>3, <1>11, <2>1 DEF ClientSends, ClientSaysGoodbye
<1>12. CASE \/ MainConnects \/ MainFailsToConnect \/ MainJoins \/ ServerReads \/ UNCHANGED vars
            \/ \E message \in Messages : MasterSends(message)
  BY <1>4, <1>12 DEF MainConnects, MainFailsToConnect, MainJoins, MasterSends, ServerReads, vars
<1> QED
  BY <1>5, <1>6, <1>7, <1>8, <1>9, <1>10, <1>11, <1>12, NodeSteps

(* Once ResponseClient has counted the stop condition of every calculator, *)
(* each thread before it has ended and no queue has anything left.         *)
LEMMA ClientIsLast ==
    ASSUME ThreadsInv, QueuesInv, client.at \in {"goodbye", "done"}
    PROVE  /\ server.at = "done" /\ AllEnded(calculator)
           /\ queue["units"] = << >> /\ queue["responses"] = << >>
<1> DEFINE n == Cardinality(Calculators)
           ended == Cardinality(Ended(calculator))
           heeded == Cardinality(Heeded(calculator))
<1>1. /\ queue["units"] \in Seq(Messages) /\ queue["responses"] \in Seq(Messages)
      /\ n \in Nat /\ n > 0 /\ server.stops \in Nat /\ server.stops <= n /\ client.stops = n
      /\ ended \in Nat /\ heeded \in Nat
  BY QueuesAre, CountsType, Sizes DEF ThreadsInv, ClientInv
<1>2. /\ ended <= n /\ (ended = n => AllEnded(calculator))
      /\ AllEnded(calculator) => heeded = n
  BY CountsType, HeededType
<1>3. queue["responses"] = << >> /\ AllEnded(calculator)
  <2>1. Gathered(Stop, queue["responses"], ended, n, AllEnded(calculator))
    BY <1>1 DEF QueuesInv
  <2>2. ended <= n /\ (ended = n => AllEnded(calculator))
    BY <1>2
  <2> HIDE DEF n, ended
  <2> QED
    BY <1>1, <2>1, <2>2, GatheredAll
<1>4. heeded = n /\ Passed(Stop, queue["units"], server.stops, heeded)
  BY <1>2, <1>3 DEF QueuesInv
<1>5. queue["units"] = << >>
  BY <1>1, <1>4, PassedAll
<1>6. server.stops = n
  <2>1. Stops(Stop, queue["units"]) \in Nat
    BY <1>1, StopsType
  <2> QED
    BY <1>1, <1>4, <2>1 DEF Passed
<1> QED
  BY <1>3, <1>5, <1>6 DEF ThreadsInv, ServerInv

----
(* The master's conversation with RequestServer, and main().               *)
LEMMA InboxStep == ThreadsInv /\ InboxInv /\ [Next]_vars => InboxInv'
<1> SUFFICES ASSUME ThreadsInv, InboxInv, [Next]_vars PROVE InboxInv'
  OBVIOUS
<1>1. inbox \in Seq(Messages) /\ Stop \in Messages /\ TypeOK
  BY QueuesAre, Sizes DEF ThreadsInv
<1>2. ASSUME UNCHANGED <<inbox, unsent>>,
             server'.at \in {"halt", "done"} => server.at \in {"halt", "done"}
      PROVE  InboxInv'
  BY <1>2 DEF InboxInv
<1>3. ASSUME NEW message \in Messages, MasterSends(message) PROVE InboxInv'
  <2>1. /\ Stop \notin Range(inbox) /\ server.at \notin {"halt", "done"} /\ server' = server
        /\ inbox' = Append(inbox, message) /\ (message = Stop => unsent' = {})
    BY <1>3 DEF MasterSends, InboxInv
  <2>2. /\ StopLast(Stop, Append(inbox, message))
        /\ Range(Append(inbox, message)) = Range(inbox) \cup {message}
    BY <1>1, <2>1, StopLastAppend
  <2> QED
    BY <2>1, <2>2 DEF InboxInv
<1>4. CASE ServerReads
  <2>1. /\ server.at = "read" /\ inbox # << >> /\ inbox' = Tail(inbox) /\ unsent' = unsent
        /\ server'.at = IF Head(inbox) = Stop THEN "halt" ELSE "produce"
    BY <1>1, <1>4 DEF ServerReads, TypeOK
  <2>2. /\ StopLast(Stop, Tail(inbox)) /\ Range(Tail(inbox)) \subseteq Range(inbox)
        /\ Head(inbox) \in Range(inbox) /\ (Head(inbox) = Stop => Tail(inbox) = << >>)
    BY <1>1, <2>1, StopLastTail DEF InboxInv
  <2> QED
    BY <2>1, <2>2 DEF InboxInv
<1>5. CASE ServerProduces \/ ServerHalts
  BY <1>1, <1>2, <1>5 DEF ServerProduces, ServerHalts, TypeOK
<1>6. ASSUME NEW c \in Calculators,
             CalculatorTakes(c) \/ CalculatorProduces(c) \/ CalculatorHalts(c)
      PROVE  InboxInv'
  BY <1>2, <1>6 DEF CalculatorTakes, CalculatorProduces, CalculatorHalts
<1>7. CASE ClientTakes \/ ClientCountsStop \/ ClientSends \/ ClientSaysGoodbye
  BY <1>2, <1>7 DEF ClientTakes, ClientCountsStop, ClientSends, ClientSaysGoodbye
<1>8. CASE MainConnects \/ MainFailsToConnect \/ MainJoins \/ UNCHANGED vars
  BY <1>2, <1>8 DEF MainConnects, MainFailsToConnect, MainJoins, vars
<1> QED
  BY <1>3, <1>4, <1>5, <1>6, <1>7, <1>8, NodeSteps

(* Before main() has started the threads no step is one of theirs.         *)
LEMMA StartedFirst ==
    ASSUME ThreadsInv, NotStarted
    PROVE  /\ ~ServerReads /\ ~ServerProduces /\ ~ServerHalts
           /\ \A c \in Calculators :
                 ~CalculatorTakes(c) /\ ~CalculatorProduces(c) /\ ~CalculatorHalts(c)
           /\ ~ClientTakes /\ ~ClientCountsStop /\ ~ClientSends /\ ~ClientSaysGoodbye
<1>1. "units" \in QueueNames /\ "responses" \in QueueNames
  BY DEF QueueNames
<1>2. \A e : ~Dequeue("units", e) /\ ~Dequeue("responses", e)
  BY <1>1 DEF NotStarted, Dequeue
<1> QED
  BY <1>2 DEF NotStarted, ServerReads, ServerProduces, ServerHalts, CalculatorTakes,
     CalculatorProduces, CalculatorHalts, ClientTakes, ClientCountsStop, ClientSends,
     ClientSaysGoodbye

LEMMA MainStep == ThreadsInv /\ MainInv /\ [Next]_vars => MainInv'
<1> SUFFICES ASSUME ThreadsInv, MainInv, [Next]_vars PROVE MainInv'
  OBVIOUS
<1>1. CASE MainConnects
  BY <1>1 DEF MainConnects, MainInv
<1>2. CASE MainFailsToConnect
  BY <1>2 DEF MainFailsToConnect, MainInv, NotStarted
<1>3. CASE MainJoins
  BY <1>3 DEF MainJoins, MainInv
<1>4. ASSUME NEW message \in Messages, MasterSends(message) PROVE MainInv'
  BY <1>4 DEF MasterSends, MainInv
<1>5. CASE UNCHANGED vars
  BY <1>5 DEF vars, MainInv, NotStarted
<1>6. ASSUME main' = main, client.at = "done" => client'.at = "done", ~NotStarted PROVE MainInv'
  BY <1>6 DEF MainInv
<1>7. CASE ServerReads \/ ServerProduces \/ ServerHalts
  BY <1>6, <1>7, StartedFirst DEF ServerReads, ServerProduces, ServerHalts
<1>8. ASSUME NEW c \in Calculators,
             CalculatorTakes(c) \/ CalculatorProduces(c) \/ CalculatorHalts(c)
      PROVE  MainInv'
  BY <1>6, <1>8, StartedFirst DEF CalculatorTakes, CalculatorProduces, CalculatorHalts
<1>9. CASE ClientTakes \/ ClientCountsStop \/ ClientSends \/ ClientSaysGoodbye
  BY <1>6, <1>9, StartedFirst DEF ClientTakes, ClientCountsStop, ClientSends, ClientSaysGoodbye
<1> QED
  BY <1>1, <1>2, <1>3, <1>4, <1>5, <1>7, <1>8, <1>9, NodeSteps

----
(* A unit goes from a stage to another, or is answered.                    *)
Moves(H, G, a, b, u) ==
    /\ u \in H[a] /\ G[a] = H[a] \ {u} /\ G[b] = H[b] \cup {u}
    /\ \A x \in Stages \ {a, b} : G[x] = H[x]

LEMMA MovesApart ==
    ASSUME NEW H, NEW G, NEW a \in Stages, NEW b \in Stages, a # b, NEW u,
           Apart(H), Moves(H, G, a, b, u)
    PROVE  Apart(G)
<1>1. \A x \in Stages \ {a} : u \notin H[x]
  BY DEF Apart, Moves
<1>2. \A x \in Stages : G[x] \ {u} = H[x] \ {u} /\ (x # b => u \notin G[x])
  BY <1>1 DEF Moves
<1> QED
  BY <1>2 DEF Apart

LEMMA DropsApart ==
    ASSUME NEW H, NEW G, Apart(H), \A x \in Stages : G[x] \subseteq H[x]
    PROVE  Apart(G)
  BY DEF Apart

LEMMA HoldsAre ==
    /\ holds["unsent"] = unsent \ {Stop}
    /\ holds["inbox"] = Range(inbox) \ {Stop}
    /\ holds["server"] = {server.unit} \ {Nothing}
    /\ holds["units"] = Range(queue["units"]) \ {Stop}
    /\ holds["calculators"] = {calculator[c].unit : c \in Calculators} \ {Nothing}
    /\ holds["responses"] = Range(queue["responses"]) \ {Stop}
    /\ holds["client"] = {client.unit} \ {Nothing}
  BY DEF holds

LEMMA HoldsAreNext ==
    /\ holds'["unsent"] = unsent' \ {Stop}
    /\ holds'["inbox"] = Range(inbox') \ {Stop}
    /\ holds'["server"] = {server'.unit} \ {Nothing}
    /\ holds'["units"] = Range(queue'["units"]) \ {Stop}
    /\ holds'["calculators"] = {calculator'[c].unit : c \in Calculators} \ {Nothing}
    /\ holds'["responses"] = Range(queue'["responses"]) \ {Stop}
    /\ holds'["client"] = {client'.unit} \ {Nothing}
  BY DEF holds

(* What each step does to the stages.                                      *)
SameHolds == \A x \in Stages : holds'[x] = holds[x]

SendsUnits(message) ==
    /\ message # Stop => Moves(holds, holds', "unsent", "inbox", message)
    /\ message = Stop => \A x \in Stages : holds'[x] \subseteq holds[x]

LEMMA MasterHolds ==
    ASSUME ThreadsInv, OnceInv, NEW message \in Messages, MasterSends(message)
    PROVE  SendsUnits(message) /\ Distinct(Stop, inbox')
           /\ \A x \in Stages \ {"unsent", "inbox"} : holds'[x] = holds[x]
<1>1. /\ message \in unsent /\ inbox' = Append(inbox, message) /\ inbox \in Seq(Messages)
      /\ unsent' = IF message = Stop THEN {} ELSE unsent \ {message}
      /\ UNCHANGED <<server, calculator, client, queue>>
  BY DEF MasterSends, ThreadsInv, TypeOK
<1>2. message \notin Range(inbox) \/ message = Stop
  BY <1>1, HoldsAre DEF OnceInv, Apart, Stages
<1>3. Distinct(Stop, inbox') /\ Range(inbox') = Range(inbox) \cup {message}
  BY <1>1, <1>2, DistinctAppend DEF OnceInv
<1>4. \A x \in Stages \ {"unsent", "inbox"} : holds'[x] = holds[x]
  <2>1. /\ holds'["server"] = holds["server"] /\ holds'["units"] = holds["units"]
        /\ holds'["calculators"] = holds["calculators"]
        /\ holds'["responses"] = holds["responses"] /\ holds'["client"] = holds["client"]
    BY <1>1, HoldsAre, HoldsAreNext
  <2> QED
    BY <2>1 DEF Stages
<1>5. CASE message = Stop
  <2>1. holds'["unsent"] = {} /\ holds'["inbox"] = holds["inbox"]
    BY <1>1, <1>3, <1>5, HoldsAre, HoldsAreNext
  <2> QED
    BY <1>3, <1>4, <1>5, <2>1 DEF SendsUnits
<1>6. CASE message # Stop
  <2>1. /\ message \in holds["unsent"] /\ holds'["unsent"] = holds["unsent"] \ {message}
        /\ holds'["inbox"] = holds["inbox"] \cup {message}
    BY <1>1, <1>3, <1>6, HoldsAre, HoldsAreNext
  <2> QED
    BY <1>3, <1>4, <1>6, <2>1 DEF SendsUnits, Moves
<1> QED
  BY <1>5, <1>6

LEMMA ServerReadsHolds ==
    ASSUME ThreadsInv, OnceInv, ServerReads
    PROVE  /\ Distinct(Stop, inbox')
           /\ Head(inbox) = Stop => SameHolds
           /\ Head(inbox) # Stop => Moves(holds, holds', "inbox", "server", Head(inbox))
<1>1. /\ server.at = "read" /\ inbox # << >> /\ inbox' = Tail(inbox) /\ inbox \in Seq(Messages)
      /\ server'.unit = IF Head(inbox) = Stop THEN server.unit ELSE Head(inbox)
      /\ UNCHANGED <<calculator, client, queue, unsent>>
  BY DEF ServerReads, ThreadsInv, TypeOK
<1>2. server.unit = Nothing /\ Head(inbox) \in Messages
  BY <1>1, HeadTailProperties DEF ThreadsInv, TypeOK, ServerInv
<1>3. /\ Distinct(Stop, inbox') /\ Head(inbox) \in Range(inbox)
      /\ Range(inbox') \ {Stop} = (Range(inbox) \ {Stop}) \ {Head(inbox)}
  BY <1>1, DistinctTail DEF OnceInv
<1>4. \A x \in Stages \ {"inbox", "server"} : holds'[x] = holds[x]
  <2>1. /\ holds'["unsent"] = holds["unsent"] /\ holds'["units"] = holds["units"]
        /\ holds'["calculators"] = holds["calculators"]
        /\ holds'["responses"] = holds["responses"] /\ holds'["client"] = holds["client"]
    BY <1>1, HoldsAre, HoldsAreNext
  <2> QED
    BY <2>1 DEF Stages
<1>5. ASSUME Head(inbox) = Stop PROVE SameHolds
  <2>1. holds'["inbox"] = holds["inbox"] /\ holds'["server"] = holds["server"]
    BY <1>1, <1>3, <1>5, HoldsAre, HoldsAreNext
  <2> QED
    BY <1>4, <2>1 DEF SameHolds
<1>6. ASSUME Head(inbox) # Stop PROVE Moves(holds, holds', "inbox", "server", Head(inbox))
  <2>1. Head(inbox) # Nothing
    BY <1>2, <1>6, Sizes DEF Messages
  <2>2. /\ Head(inbox) \in holds["inbox"] /\ holds'["inbox"] = holds["inbox"] \ {Head(inbox)}
        /\ holds["server"] = {} /\ holds'["server"] = {Head(inbox)}
    BY <1>1, <1>2, <1>3, <1>6, <2>1, HoldsAre, HoldsAreNext
  <2> QED
    BY <1>4, <2>2 DEF Moves
<1> QED
  BY <1>3, <1>5, <1>6

(* A queue that one element is put into, or taken out of.                  *)
LEMMA EnqueuesHolds ==
    ASSUME ThreadsInv, OnceInv, NEW q \in QueueNames, NEW e \in Messages, Enqueue(q, e),
           e = Stop \/ e \notin holds[q]
    PROVE  /\ \A x \in QueueNames : Distinct(Stop, queue'[x])
           /\ holds'[q] = holds[q] \cup ({e} \ {Stop})
           /\ \A x \in QueueNames \ {q} : holds'[x] = holds[x]
<1>1. /\ \A x \in QueueNames : /\ holds[x] = Range(queue[x]) \ {Stop}
                               /\ holds'[x] = Range(queue'[x]) \ {Stop}
                               /\ queue[x] \in Seq(Messages) /\ Distinct(Stop, queue[x])
      /\ TypeOK
  BY HoldsAre, HoldsAreNext DEF QueueNames, OnceInv, ThreadsInv, TypeOK
<1>2. /\ queue'[q] = Append(queue[q], e) /\ \A x \in QueueNames \ {q} : queue'[x] = queue[x]
  BY <1>1, Enqueues
<1>3. e = Stop \/ e \notin Range(queue[q])
  BY <1>1
<1>4. Distinct(Stop, queue'[q]) /\ Range(queue'[q]) = Range(queue[q]) \cup {e}
  BY <1>1, <1>2, <1>3, DistinctAppend
<1> QED
  BY <1>1, <1>2, <1>4

LEMMA DequeuesHolds ==
    ASSUME ThreadsInv, OnceInv, NEW q \in QueueNames, NEW e, Dequeue(q, e)
    PROVE  /\ \A x \in QueueNames : Distinct(Stop, queue'[x])
           /\ holds'[q] = holds[q] \ {e} /\ (e # Stop => e \in holds[q])
           /\ \A x \in QueueNames \ {q} : holds'[x] = holds[x]
<1>1. /\ \A x \in QueueNames : /\ holds[x] = Range(queue[x]) \ {Stop}
                               /\ holds'[x] = Range(queue'[x]) \ {Stop}
                               /\ queue[x] \in Seq(Messages) /\ Distinct(Stop, queue[x])
      /\ TypeOK
  BY HoldsAre, HoldsAreNext DEF QueueNames, OnceInv, ThreadsInv, TypeOK
<1>2. /\ queue[q] # << >> /\ e = Head(queue[q]) /\ queue'[q] = Tail(queue[q])
      /\ \A x \in QueueNames \ {q} : queue'[x] = queue[x]
  BY <1>1, Dequeues
<1>3. /\ Distinct(Stop, queue'[q]) /\ e \in Range(queue[q])
      /\ Range(queue'[q]) \ {Stop} = (Range(queue[q]) \ {Stop}) \ {e}
  <2>1. queue[q] \in Seq(Messages) /\ queue[q] # << >> /\ Distinct(Stop, queue[q])
    BY <1>1, <1>2
  <2>2. /\ Distinct(Stop, Tail(queue[q])) /\ Head(queue[q]) \in Range(queue[q])
        /\ Range(Tail(queue[q])) \ {Stop} = (Range(queue[q]) \ {Stop}) \ {Head(queue[q])}
    BY <2>1, DistinctTail
  <2> QED
    BY <1>2, <2>2
<1> QED
  BY <1>1, <1>2, <1>3

LEMMA ServerPassesHolds ==
    ASSUME ThreadsInv, OnceInv
    PROVE  /\ ServerProduces =>
                 /\ Moves(holds, holds', "server", "units", server.unit)
                 /\ \A x \in QueueNames : Distinct(Stop, queue'[x])
           /\ ServerHalts => SameHolds /\ \A x \in QueueNames : Distinct(Stop, queue'[x])
<1>1. /\ "units" \in QueueNames /\ "responses" \in QueueNames /\ "units" # "responses"
      /\ Stop \in Messages /\ Units \subseteq Messages /\ Stop \notin Units /\ Nothing \notin Units
  BY Sizes DEF QueueNames
<1>2. ASSUME ServerProduces
      PROVE  /\ Moves(holds, holds', "server", "units", server.unit)
             /\ \A x \in QueueNames : Distinct(Stop, queue'[x])
  <2>1. /\ server.unit \in Units /\ server'.unit = Nothing /\ Enqueue("units", server.unit)
        /\ UNCHANGED <<calculator, client, unsent, inbox>>
    BY <1>2 DEF ServerProduces, ThreadsInv, ServerInv, TypeOK
  <2>2. holds["server"] = {server.unit} /\ holds'["server"] = {} /\ server.unit # Stop
    BY <1>1, <2>1, HoldsAre, HoldsAreNext
  <2>3. server.unit \notin holds["units"]
    BY <2>2 DEF OnceInv, Apart, Stages
  <2>4. /\ \A x \in QueueNames : Distinct(Stop, queue'[x])
        /\ holds'["units"] = holds["units"] \cup ({server.unit} \ {Stop})
        /\ holds'["responses"] = holds["responses"]
    BY <1>1, <2>1, <2>3, EnqueuesHolds
  <2>5. /\ holds'["unsent"] = holds["unsent"] /\ holds'["inbox"] = holds["inbox"]
        /\ holds'["calculators"] = holds["calculators"] /\ holds'["client"] = holds["client"]
    BY <2>1, HoldsAre, HoldsAreNext
  <2> QED
    BY <2>2, <2>4, <2>5 DEF Moves, Stages
<1>3. ASSUME ServerHalts
      PROVE  SameHolds /\ \A x \in QueueNames : Distinct(Stop, queue'[x])
  <2>1. /\ server'.unit = server.unit /\ Enqueue("units", Stop)
        /\ UNCHANGED <<calculator, client, unsent, inbox>>
    BY <1>3 DEF ServerHalts, ThreadsInv, TypeOK
  <2>2. /\ \A x \in QueueNames : Distinct(Stop, queue'[x])
        /\ holds'["units"] = holds["units"] \cup ({Stop} \ {Stop})
        /\ holds'["responses"] = holds["responses"]
    BY <1>1, <2>1, EnqueuesHolds
  <2>3. /\ holds'["unsent"] = holds["unsent"] /\ holds'["inbox"] = holds["inbox"]
        /\ holds'["calculators"] = holds["calculators"] /\ holds'["client"] = holds["client"]
        /\ holds'["server"] = holds["server"]
    BY <2>1, HoldsAre, HoldsAreNext
  <2> QED
    BY <2>2, <2>3 DEF SameHolds, Stages
<1> QED
  BY <1>2, <1>3

(* Two calculators hold no unit in common.                                 *)
OneCalculator ==
    \A c, d \in Calculators :
        calculator[c].unit = calculator[d].unit /\ calculator[c].unit # Nothing => c = d

LEMMA CalculatorHolds ==
    ASSUME ThreadsInv, OnceInv, NEW c \in Calculators
    PROVE  /\ CalculatorTakes(c) =>
                 /\ SameHolds \/ \E u \in Units : Moves(holds, holds', "units", "calculators", u)
                 /\ OneCalculator' /\ \A x \in QueueNames : Distinct(Stop, queue'[x])
           /\ CalculatorProduces(c) =>
                 /\ \E u \in Units : Moves(holds, holds', "calculators", "responses", u)
                 /\ OneCalculator' /\ \A x \in QueueNames : Distinct(Stop, queue'[x])
           /\ CalculatorHalts(c) =>
                 SameHolds /\ OneCalculator' /\ \A x \in QueueNames : Distinct(Stop, queue'[x])
<1>1. /\ "units" \in QueueNames /\ "responses" \in QueueNames /\ "units" # "responses"
      /\ Stop \in Messages /\ Units \subseteq Messages /\ Stop \notin Units /\ Nothing \notin Units
  BY Sizes DEF QueueNames
<1>2. OneCalculator /\ Apart(holds)
  BY DEF OnceInv, OneCalculator
<1>3. ASSUME UNCHANGED <<server, client, unsent, inbox>>
      PROVE  /\ holds'["unsent"] = holds["unsent"] /\ holds'["inbox"] = holds["inbox"]
             /\ holds'["server"] = holds["server"] /\ holds'["client"] = holds["client"]
  BY <1>3, HoldsAre, HoldsAreNext
<1>4. CalculatorTakes(c) \/ CalculatorProduces(c) \/ CalculatorHalts(c) =>
         UNCHANGED <<server, client, unsent, inbox>>
  BY DEF CalculatorTakes, CalculatorProduces, CalculatorHalts
<1>5. ASSUME calculator'[c].unit = calculator[c].unit,
             \A d \in Calculators \ {c} : calculator'[d] = calculator[d]
      PROVE  holds'["calculators"] = holds["calculators"] /\ OneCalculator'
  <2>1. \A d \in Calculators : calculator'[d].unit = calculator[d].unit
    BY <1>5
  <2> QED
    BY <1>2, <2>1, HoldsAre, HoldsAreNext DEF OneCalculator
<1>6. ASSUME CalculatorTakes(c), Dequeue("units", Stop), CalculatorMoves(c, "take", "halt"),
             calculator[c].unit = Nothing, calculator'[c].unit = Nothing
      PROVE  SameHolds /\ OneCalculator' /\ \A x \in QueueNames : Distinct(Stop, queue'[x])
  <2>1. holds'["calculators"] = holds["calculators"] /\ OneCalculator'
    BY <1>5, <1>6 DEF CalculatorMoves
  <2>2. /\ \A x \in QueueNames : Distinct(Stop, queue'[x])
        /\ holds'["units"] = holds["units"] \ {Stop} /\ holds'["responses"] = holds["responses"]
    BY <1>1, <1>6, DequeuesHolds
  <2>3. holds'["units"] = holds["units"]
    BY <2>2, HoldsAre
  <2> QED
    BY <1>3, <1>4, <1>6, <2>1, <2>2, <2>3 DEF SameHolds, Stages
<1>7. ASSUME CalculatorTakes(c), NEW u \in Units, Dequeue("units", u),
             CalculatorMoves(c, "take", "produce"), calculator[c].unit = Nothing,
             calculator'[c].unit = u
      PROVE  /\ Moves(holds, holds', "units", "calculators", u)
             /\ OneCalculator' /\ \A x \in QueueNames : Distinct(Stop, queue'[x])
  <2>1. /\ \A x \in QueueNames : Distinct(Stop, queue'[x])
        /\ holds'["units"] = holds["units"] \ {u} /\ u \in holds["units"]
        /\ holds'["responses"] = holds["responses"]
    BY <1>1, <1>7, DequeuesHolds
  <2>2. u \notin holds["calculators"]
    BY <1>2, <2>1 DEF Apart, Stages
  <2>3. \A d \in Calculators \ {c} : calculator'[d] = calculator[d] /\ calculator[d].unit # u
    BY <1>1, <1>7, <2>2, HoldsAre DEF CalculatorMoves
  <2>4. OneCalculator'
    BY <1>2, <1>7, <2>3 DEF OneCalculator
  <2>5. holds'["calculators"] = holds["calculators"] \cup {u}
    <3>1. \A x : x \in holds'["calculators"] <=> x \in holds["calculators"] \/ x = u
      BY <1>1, <1>7, <2>3, HoldsAre, HoldsAreNext
    <3> QED
      BY <3>1
  <2> QED
    BY <1>3, <1>4, <1>7, <2>1, <2>4, <2>5 DEF Moves, Stages
<1>8. ASSUME CalculatorProduces(c), NEW u \in Units, u = calculator[c].unit,
             Enqueue("responses", u), CalculatorMoves(c, "produce", "take"),
             calculator'[c].unit = Nothing
      PROVE  /\ Moves(holds, holds', "calculators", "responses", u)
             /\ OneCalculator' /\ \A x \in QueueNames : Distinct(Stop, queue'[x])
  <2>1. u \in holds["calculators"] /\ u # Stop /\ u # Nothing /\ u \in Messages
    BY <1>1, <1>8, HoldsAre
  <2>2. u \notin holds["responses"]
    BY <1>2, <2>1 DEF Apart, Stages
  <2>3. /\ \A x \in QueueNames : Distinct(Stop, queue'[x])
        /\ holds'["responses"] = holds["responses"] \cup ({u} \ {Stop})
        /\ holds'["units"] = holds["units"]
    BY <1>1, <1>8, <2>1, <2>2, EnqueuesHolds
  <2>4. \A d \in Calculators \ {c} : calculator'[d] = calculator[d] /\ calculator[d].unit # u
    BY <1>2, <1>8, <2>1 DEF CalculatorMoves, OneCalculator
  <2>5. OneCalculator'
    BY <1>2, <1>8, <2>4 DEF OneCalculator
  <2>6. holds'["calculators"] = holds["calculators"] \ {u}
    <3>1. \A x : x \in holds'["calculators"] <=> x \in holds["calculators"] /\ x # u
      BY <1>8, <2>1, <2>4, HoldsAre, HoldsAreNext
    <3> QED
      BY <3>1
  <2> QED
    BY <1>3, <1>4, <1>8, <2>1, <2>3, <2>5, <2>6 DEF Moves, Stages
<1>9. ASSUME CalculatorHalts(c), Enqueue("responses", Stop), CalculatorMoves(c, "halt", "done"),
             calculator[c].unit = Nothing, calculator'[c].unit = Nothing
      PROVE  SameHolds /\ OneCalculator' /\ \A x \in QueueNames : Distinct(Stop, queue'[x])
  <2>1. holds'["calculators"] = holds["calculators"] /\ OneCalculator'
    BY <1>5, <1>9 DEF CalculatorMoves
  <2>2. /\ \A x \in QueueNames : Distinct(Stop, queue'[x])
        /\ holds'["responses"] = holds["responses"] \cup ({Stop} \ {Stop})
        /\ holds'["units"] = holds["units"]
    BY <1>1, <1>9, EnqueuesHolds
  <2> QED
    BY <1>3, <1>4, <1>9, <2>1, <2>2 DEF SameHolds, Stages
<1> QED
  BY <1>6, <1>7, <1>8, <1>9, CalculatorSteps

LEMMA ClientHolds ==
    ASSUME ThreadsInv, OnceInv
    PROVE  /\ ClientTakes =>
                 /\ \E u \in Units : Moves(holds, holds', "responses", "client", u)
                 /\ \A x \in QueueNames : Distinct(Stop, queue'[x])
           /\ ClientCountsStop => SameHolds /\ \A x \in QueueNames : Distinct(Stop, queue'[x])
           /\ ClientSends =>
                 /\ holds["client"] = {client.unit} /\ holds'["client"] = {}
                 /\ \A x \in Stages \ {"client"} : holds'[x] = holds[x]
           /\ ClientSaysGoodbye => SameHolds
<1>1. /\ "units" \in QueueNames /\ "responses" \in QueueNames /\ "units" # "responses"
      /\ Stop \notin Units /\ Nothing \notin Units
  BY Sizes DEF QueueNames
<1>2. ASSUME UNCHANGED <<server, calculator, unsent, inbox>>
      PROVE  /\ holds'["unsent"] = holds["unsent"] /\ holds'["inbox"] = holds["inbox"]
             /\ holds'["server"] = holds["server"] /\ holds'["calculators"] = holds["calculators"]
  BY <1>2, HoldsAre, HoldsAreNext
<1>3. client.at # "send" => client.unit = Nothing
  BY DEF ThreadsInv, TypeOK, ClientInv
<1>4. ASSUME ClientTakes
      PROVE  /\ \E u \in Units : Moves(holds, holds', "responses", "client", u)
             /\ \A x \in QueueNames : Distinct(Stop, queue'[x])
  <2>1. PICK u \in Units :
           /\ Dequeue("responses", u) /\ client' = [client EXCEPT !.at = "send", !.unit = u]
    BY <1>4 DEF ClientTakes
  <2>2. /\ client'.unit = u /\ client.unit = Nothing
        /\ UNCHANGED <<server, calculator, unsent, inbox>>
    BY <1>3, <1>4, <2>1 DEF ClientTakes, ThreadsInv, TypeOK
  <2>3. /\ \A x \in QueueNames : Distinct(Stop, queue'[x])
        /\ holds'["responses"] = holds["responses"] \ {u} /\ u \in holds["responses"]
        /\ holds'["units"] = holds["units"]
    BY <1>1, <2>1, DequeuesHolds
  <2>4. holds["client"] = {} /\ holds'["client"] = {u}
    BY <1>1, <2>2, HoldsAre, HoldsAreNext
  <2>5. Moves(holds, holds', "responses", "client", u)
    BY <1>2, <2>2, <2>3, <2>4 DEF Moves, Stages
  <2> QED
    BY <2>3, <2>5
<1>5. ASSUME ClientCountsStop
      PROVE  SameHolds /\ \A x \in QueueNames : Distinct(Stop, queue'[x])
  <2>1. /\ Dequeue("responses", Stop) /\ client'.unit = client.unit
        /\ UNCHANGED <<server, calculator, unsent, inbox>>
    BY <1>5 DEF ClientCountsStop, ThreadsInv, TypeOK
  <2>2. /\ \A x \in QueueNames : Distinct(Stop, queue'[x])
        /\ holds'["responses"] = holds["responses"] \ {Stop}
        /\ holds'["units"] = holds["units"]
    BY <1>1, <2>1, DequeuesHolds
  <2>3. holds'["responses"] = holds["responses"] /\ holds'["client"] = holds["client"]
    BY <2>1, <2>2, HoldsAre, HoldsAreNext
  <2> QED
    BY <1>2, <2>1, <2>2, <2>3 DEF SameHolds, Stages
<1>6. ASSUME ClientSends
      PROVE  /\ holds["client"] = {client.unit} /\ holds'["client"] = {}
             /\ \A x \in Stages \ {"client"} : holds'[x] = holds[x]
  <2>1. /\ client'.unit = Nothing /\ client.unit \in Units
        /\ UNCHANGED <<server, calculator, unsent, inbox, queue>>
    BY <1>6 DEF ClientSends, ThreadsInv, TypeOK, ClientInv
  <2>2. /\ holds'["units"] = holds["units"] /\ holds'["responses"] = holds["responses"]
        /\ holds["client"] = {client.unit} /\ holds'["client"] = {}
    BY <1>1, <2>1, HoldsAre, HoldsAreNext
  <2> QED
    BY <1>2, <2>1, <2>2 DEF Stages
<1>7. ASSUME ClientSaysGoodbye PROVE SameHolds
  <2>1. client'.unit = client.unit /\ UNCHANGED <<server, calculator, unsent, inbox, queue>>
    BY <1>7 DEF ClientSaysGoodbye, ThreadsInv, TypeOK
  <2>2. /\ holds'["units"] = holds["units"] /\ holds'["responses"] = holds["responses"]
        /\ holds'["client"] = holds["client"]
    BY <2>1, HoldsAre, HoldsAreNext
  <2> QED
    BY <1>2, <2>1, <2>2 DEF SameHolds, Stages
<1> QED
  BY <1>4, <1>5, <1>6, <1>7

LEMMA OnceStep == ThreadsInv /\ OnceInv /\ [Next]_vars => OnceInv'
<1> SUFFICES ASSUME ThreadsInv, OnceInv, [Next]_vars PROVE OnceInv'
  OBVIOUS
<1>1. /\ Apart(holds) /\ Distinct(Stop, inbox) /\ OneCalculator
      /\ \A x \in QueueNames : Distinct(Stop, queue[x])
      /\ "units" \in QueueNames /\ "responses" \in QueueNames
  BY DEF OnceInv, OneCalculator, QueueNames
<1>2. ASSUME Apart(holds'), Distinct(Stop, inbox'), OneCalculator',
             \A x \in QueueNames : Distinct(Stop, queue'[x])
      PROVE  OnceInv'
  BY <1>1, <1>2 DEF OnceInv, OneCalculator
<1>3. ASSUME SameHolds PROVE Apart(holds')
  BY <1>1, <1>3 DEF SameHolds, Apart
<1>4. ASSUME NEW a \in Stages, NEW b \in Stages, a # b, NEW u, Moves(holds, holds', a, b, u)
      PROVE  Apart(holds')
  BY <1>1, <1>4, MovesApart
<1>5. ASSUME \A x \in Stages : holds'[x] \subseteq holds[x] PROVE Apart(holds')
  BY <1>1, <1>5, DropsApart
<1>6. /\ "unsent" \in Stages /\ "inbox" \in Stages /\ "server" \in Stages /\ "units" \in Stages
      /\ "calculators" \in Stages /\ "responses" \in Stages /\ "client" \in Stages
  BY DEF Stages
<1>7. ASSUME NEW message \in Messages, MasterSends(message) PROVE OnceInv'
  <2>1. UNCHANGED <<calculator, queue>>
    BY <1>7 DEF MasterSends
  <2>2. SendsUnits(message) /\ Distinct(Stop, inbox')
    BY <1>7, MasterHolds
  <2>3. Apart(holds')
    BY <1>4, <1>5, <1>6, <2>2 DEF SendsUnits
  <2> QED
    BY <1>1, <1>2, <2>1, <2>2, <2>3 DEF OneCalculator
<1>8. CASE ServerReads
  <2>1. UNCHANGED <<calculator, queue>>
    BY <1>8 DEF ServerReads
  <2>2. Apart(holds') /\ Distinct(Stop, inbox')
    BY <1>3, <1>4, <1>6, <1>8, ServerReadsHolds
  <2> QED
    BY <1>1, <1>2, <2>1, <2>2 DEF OneCalculator
<1>9. CASE ServerProduces \/ ServerHalts
  <2>1. UNCHANGED <<calculator, inbox>>
    BY <1>9 DEF ServerProduces, ServerHalts
  <2>2. Apart(holds') /\ \A x \in QueueNames : Distinct(Stop, queue'[x])
    BY <1>3, <1>4, <1>6, <1>9, ServerPassesHolds
  <2> QED
    BY <1>1, <1>2, <2>1, <2>2 DEF OneCalculator
<1>10. ASSUME NEW c \in Calculators,
              CalculatorTakes(c) \/ CalculatorProduces(c) \/ CalculatorHalts(c)
       PROVE  OnceInv'
  <2>1. inbox' = inbox
    BY <1>10 DEF CalculatorTakes, CalculatorProduces, CalculatorHalts
  <2>2. /\ \/ SameHolds
           \/ \E u \in Units : \/ Moves(holds, holds', "units", "calculators", u)
                               \/ Moves(holds, holds', "calculators", "responses", u)
        /\ OneCalculator' /\ \A x \in QueueNames : Distinct(Stop, queue'[x])
    BY <1>10, CalculatorHolds
  <2>3. Apart(holds')
    BY <1>3, <1>4, <1>6, <2>2
  <2> QED
    BY <1>1, <1>2, <2>1, <2>2, <2>3
<1>11. CASE ClientTakes \/ ClientCountsStop
  <2>1. UNCHANGED <<calculator, inbox>>
    BY <1>11 DEF ClientTakes, ClientCountsStop
  <2>2. Apart(holds') /\ \A x \in QueueNames : Distinct(Stop, queue'[x])
    BY <1>3, <1>4, <1>6, <1>11, ClientHolds
  <2> QED
    BY <1>1, <1>2, <2>1, <2>2 DEF OneCalculator
<1>12. CASE ClientSends \/ ClientSaysGoodbye
  <2>1. UNCHANGED <<calculator, inbox, queue>>
    BY <1>12 DEF ClientSends, ClientSaysGoodbye
  <2>2. Apart(holds')
    BY <1>3, <1>5, <1>12, ClientHolds
  <2> QED
    BY <1>1, <1>2, <2>1, <2>2 DEF OneCalculator
<1>13. CASE MainConnects \/ MainFailsToConnect \/ MainJoins \/ UNCHANGED vars
  <2>1. UNCHANGED <<server, calculator, client, queue, unsent, inbox>>
    BY <1>13 DEF MainConnects, MainFailsToConnect, MainJoins, vars
  <2>2. holds' = holds
    BY <2>1 DEF holds
  <2> QED
    BY <1>1, <1>2, <2>1, <2>2 DEF OneCalculator
<1> QED
  BY <1>7, <1>8, <1>9, <1>10, <1>11, <1>12, <1>13, NodeSteps

----
(* The inductive invariant.                                                *)
LEMMA NodeInit == Init => NodeInv
<1> SUFFICES ASSUME Init PROVE NodeInv
  OBVIOUS
<1>1. ThreadsInv
  BY ThreadsInit
<1>2. /\ queue["units"] = << >> /\ queue["responses"] = << >> /\ inbox = << >>
      /\ \A q \in QueueNames : queue[q] = << >>
      /\ server.at = "read" /\ server.stops = 0 /\ server.unit = Nothing
      /\ client.at = "take" /\ client.stops = 0 /\ client.unit = Nothing
      /\ \A c \in Calculators : calculator[c].at = "take" /\ calculator[c].unit = Nothing
      /\ DOMAIN calculator = Calculators
  BY DEF Init, QueueNames
<1>3. Range(<< >>) = {} /\ Distinct(Stop, << >>) /\ StopLast(Stop, << >>)
  BY DistinctEmpty, StopLastEmpty
<1>4. QueuesInv
  <2>1. StopsAt(Stop, << >>) = {}
    BY DEF StopsAt
  <2>2. Stops(Stop, << >>) = 0 /\ Cardinality({}) = 0
    BY <2>1, FS_EmptySet DEF Stops
  <2>3. Heeded(calculator) = {} /\ Ended(calculator) = {}
    BY <1>2 DEF Heeded, Ended
  <2>4. Passed(Stop, << >>, 0, 0) /\ Gathered(Stop, << >>, 0, 0, AllEnded(calculator))
    BY <1>3, <2>2 DEF Passed, Gathered
  <2> QED
    BY <1>2, <2>2, <2>3, <2>4 DEF QueuesInv
<1>5. InboxInv
  BY <1>2, <1>3 DEF InboxInv
<1>6. MainInv
  BY <1>2 DEF Init, MainInv, NotStarted
<1>7. OnceInv
  <2>1. \A x \in Stages \ {"unsent"} : holds[x] = {}
    <3>1. /\ holds["inbox"] = {} /\ holds["server"] = {} /\ holds["units"] = {}
          /\ holds["calculators"] = {} /\ holds["responses"] = {} /\ holds["client"] = {}
      BY <1>2, <1>3, HoldsAre
    <3> QED
      BY <3>1 DEF Stages
  <2>2. Apart(holds)
    BY <2>1 DEF Apart
  <2> QED
    BY <1>2, <1>3, <2>2 DEF OnceInv
<1> QED
  BY <1>1, <1>4, <1>5, <1>6, <1>7 DEF NodeInv

LEMMA NodeStep == NodeInv /\ [Next]_vars => NodeInv'
<1> SUFFICES ASSUME NodeInv, [Next]_vars PROVE NodeInv'
  OBVIOUS
<1>1. ThreadsInv /\ QueuesInv /\ InboxInv /\ MainInv /\ OnceInv
  BY DEF NodeInv
<1>2. QueuesInv'
  BY <1>1, UnitsQueueStep, ResponsesQueueStep DEF QueuesInv
<1> QED
  BY <1>1, <1>2, ThreadsStep, InboxStep, MainStep, OnceStep DEF NodeInv

(* Each unit that the master sent is at one stage of the worker at most,   *)
(* each queue of its threads has the stop conditions that its consumers    *)
(* still need, the last of them after everything else, and no thread runs  *)
(* that main() has not started or has joined.                              *)
THEOREM NodeInvariant == Spec => []NodeInv
  BY NodeInit, NodeStep, PTL DEF Spec

----
(* The worker as the master sees it.                                       *)
Inside(H) == H["server"] \cup H["units"] \cup H["calculators"] \cup H["responses"] \cup H["client"]

LEMMA HeldIs == ThreadsInv => Held = Inside(holds)
<1> SUFFICES ASSUME ThreadsInv PROVE Held = Inside(holds)
  OBVIOUS
<1>1. /\ server.unit \in Units \cup {Nothing} /\ client.unit \in Units \cup {Nothing}
      /\ \A c \in Calculators : calculator[c].unit \in Units \cup {Nothing}
      /\ Nothing \notin Units /\ Stop \notin Units
  BY Sizes DEF ThreadsInv, TypeOK
<1>2. Range(queue["units"]) \subseteq Messages /\ Range(queue["responses"]) \subseteq Messages
  BY QueuesAre DEF ThreadsInv, Range
<1>3. /\ Range(queue["units"]) \cap Units = holds["units"]
      /\ Range(queue["responses"]) \cap Units = holds["responses"]
  BY <1>1, <1>2, HoldsAre DEF Messages
<1>4. {server.unit} \cap Units = holds["server"] /\ {client.unit} \cap Units = holds["client"]
  BY <1>1, HoldsAre
<1>5. {calculator[c].unit : c \in Calculators} \cap Units = holds["calculators"]
  BY <1>1, HoldsAre
<1> QED
  BY <1>3, <1>4, <1>5 DEF Held, Inside

LEMMA HeldIsNext == ThreadsInv /\ [Next]_vars => Held' = Inside(holds')
<1>1. ThreadsInv' => (Held = Inside(holds))'
  BY HeldIs, PTL
<1> QED
  BY <1>1, ThreadsStep DEF Inside

(* What the state of the worker's threads is to the master.                *)
StateOf ==
    IF client.at = "done" THEN "gone"
    ELSE IF main # "joining" THEN "absent"
    ELSE IF server.at \in {"read", "produce"} THEN "serving" ELSE "draining"

LEMMA StateIs == NodeInv => State = StateOf
<1> SUFFICES ASSUME NodeInv PROVE State = StateOf
  OBVIOUS
<1>1. client.at = "done" => server.at = "done"
  BY ClientIsLast DEF NodeInv
<1>2. server.at \in {"read", "produce", "halt", "done"}
  BY DEF NodeInv, ThreadsInv, TypeOK
<1>3. CASE client.at = "done"
  BY <1>1, <1>3 DEF State, StateOf
<1>4. CASE client.at # "done"
  BY <1>2, <1>4 DEF State, StateOf
<1> QED
  BY <1>3, <1>4

LEMMA StateIsNext == NodeInv /\ [Next]_vars => State' = StateOf'
<1>1. NodeInv' => (State = StateOf)'
  BY StateIs, PTL
<1> QED
  BY <1>1, NodeStep

(* The master's view is a function of one worker.                          *)
LEMMA ViewIs ==
    /\ DOMAIN remoteView = {Self}
    /\ remoteView[Self] = [state |-> State, inbox |-> inbox, held |-> Held, outbox |-> outbox]
    /\ remoteView' = [w \in {Self} |->
                         [state |-> State', inbox |-> inbox', held |-> Held', outbox |-> outbox']]
    /\ remoteView = [w \in {Self} |->
                         [state |-> State, inbox |-> inbox, held |-> Held, outbox |-> outbox]]
  BY DEF remoteView

LEMMA ViewStep ==
    ASSUME NEW f, NEW r, f = [w \in {Self} |-> r], NEW g
    PROVE  [f EXCEPT ![Self] = g] = [w \in {Self} |-> g]
  OBVIOUS

(* A step that the master does not see.                                    *)
LEMMA Unseen ==
    ASSUME State' = State, Held' = Held, UNCHANGED <<inbox, outbox>>
    PROVE  UNCHANGED remoteView
  BY ViewIs

LEMMA MainUnseen ==
    ASSUME NodeInv, [Next]_vars
    PROVE  /\ MainConnects => Remote!Connect(Self)
           /\ MainFailsToConnect \/ MainJoins \/ UNCHANGED vars => UNCHANGED remoteView
<1>1. State = StateOf /\ State' = StateOf'
  BY StateIs, StateIsNext
<1>2. ASSUME UNCHANGED <<server, calculator, client, queue, inbox, outbox>>
      PROVE  Held' = Held /\ UNCHANGED <<inbox, outbox>>
  BY <1>2 DEF Held
<1>3. ASSUME MainConnects PROVE Remote!Connect(Self)
  <2>1. /\ main = "connecting" /\ main' = "joining"
        /\ UNCHANGED <<server, calculator, client, queue, inbox, outbox>>
    BY <1>3 DEF MainConnects
  <2>2. client.at = "take" /\ server.at = "read"
    BY <2>1 DEF NodeInv, MainInv, NotStarted
  <2>3. State = "absent" /\ State' = "serving"
    BY <1>1, <2>1, <2>2 DEF StateOf
  <2>4. Held' = Held /\ inbox' = inbox /\ outbox' = outbox
    BY <1>2, <2>1
  <2> QED
    BY <2>3, <2>4, ViewIs DEF Remote!Connect
<1>4. ASSUME MainFailsToConnect PROVE UNCHANGED remoteView
  <2>1. /\ main = "connecting" /\ main' = "done"
        /\ UNCHANGED <<server, calculator, client, queue, inbox, outbox>>
    BY <1>4 DEF MainFailsToConnect
  <2>2. State' = State
    BY <1>1, <2>1 DEF StateOf
  <2> QED
    BY <1>2, <2>1, <2>2, Unseen
<1>5. ASSUME MainJoins PROVE UNCHANGED remoteView
  <2>1. /\ client.at = "done" /\ UNCHANGED <<server, calculator, client, queue, inbox, outbox>>
    BY <1>5 DEF MainJoins
  <2>2. State' = State
    BY <1>1, <2>1 DEF StateOf
  <2> QED
    BY <1>2, <2>1, <2>2, Unseen
<1>6. ASSUME UNCHANGED vars PROVE UNCHANGED remoteView
  <2>1. UNCHANGED <<main, server, calculator, client, queue, inbox, outbox>>
    BY <1>6 DEF vars
  <2>2. State' = State
    BY <1>1, <2>1 DEF StateOf
  <2> QED
    BY <1>2, <2>1, <2>2, Unseen
<1> QED
  BY <1>3, <1>4, <1>5, <1>6

(* What the master sends is what the worker is to read: it sends nothing   *)
(* that a worker which has stopped could lose.                             *)
LEMMA MasterSendsToWorker ==
    ASSUME NodeInv, [Next]_vars, NEW message \in Messages, MasterSends(message)
    PROVE  Remote!Send({Self}, message)
<1>1. /\ main = "joining" /\ unsent # {} /\ inbox' = Append(inbox, message)
      /\ UNCHANGED <<main, server, calculator, client, queue, outbox>>
  BY DEF MasterSends
<1>2. server.at \in {"read", "produce"} /\ client.at # "done"
  <2>1. server.at \notin {"halt", "done"}
    BY <1>1 DEF NodeInv, InboxInv
  <2> QED
    BY <2>1, ClientIsLast DEF NodeInv, ThreadsInv, TypeOK
<1>3. State = "serving" /\ State' = "serving"
  BY <1>1, <1>2, StateIs, StateIsNext DEF StateOf
<1>4. Held' = Held
  BY <1>1 DEF Held
<1>5. Remote!Listens(Self)
  BY <1>3, ViewIs DEF Remote!Listens
<1>6. remoteView' = [w \in {Self} |->
                        [remoteView[Self] EXCEPT !.inbox = Append(inbox, message)]]
  BY <1>1, <1>3, <1>4, ViewIs
<1> QED
  BY <1>5, <1>6, ViewIs DEF Remote!Send

(* A thread that can run is one that main() waits for.                     *)
LEMMA ServesOrDrains ==
    ASSUME NodeInv, ~NotStarted, client.at # "done"
    PROVE  /\ main = "joining"
           /\ State = IF server.at \in {"read", "produce"} THEN "serving" ELSE "draining"
<1>1. main = "joining"
  BY DEF NodeInv, MainInv, ThreadsInv, TypeOK
<1> QED
  BY <1>1, StateIs DEF StateOf

LEMMA ServerServes ==
    ASSUME NodeInv, [Next]_vars, ServerReads
    PROVE  Remote!TakeUnit(Self) \/ Remote!TakeStop(Self)
<1>1. /\ server.at = "read" /\ inbox # << >> /\ inbox' = Tail(inbox)
      /\ server'.at = IF Head(inbox) = Stop THEN "halt" ELSE "produce"
      /\ UNCHANGED <<main, calculator, client, queue, outbox>>
  BY DEF ServerReads, NodeInv, ThreadsInv, TypeOK
<1>2. client.at # "done"
  BY <1>1, ClientIsLast DEF NodeInv
<1>3. ~NotStarted
  BY <1>1 DEF NotStarted
<1>4. /\ State = "serving"
      /\ State' = IF Head(inbox) = Stop THEN "draining" ELSE "serving"
  BY <1>1, <1>2, <1>3, ServesOrDrains, StateIsNext DEF StateOf
<1>5. Held = Inside(holds) /\ Held' = Inside(holds')
  BY HeldIs, HeldIsNext DEF NodeInv
<1>6. CASE Head(inbox) = Stop
  <2>1. Held' = Held
    <3>1. SameHolds
      BY <1>6, ServerReadsHolds DEF NodeInv
    <3> QED
      BY <1>5, <3>1 DEF SameHolds, Inside, Stages
  <2>2. remoteView' = [w \in {Self} |->
                          [remoteView[Self] EXCEPT !.inbox = Tail(inbox), !.state = "draining"]]
    BY <1>1, <1>4, <1>6, <2>1, ViewIs
  <2> QED
    BY <1>1, <1>4, <1>6, <2>2, ViewIs DEF Remote!TakeStop
<1>7. CASE Head(inbox) # Stop
  <2>1. Held' = Held \cup {Head(inbox)}
    <3>1. Moves(holds, holds', "inbox", "server", Head(inbox))
      BY <1>7, ServerReadsHolds DEF NodeInv
    <3>2. /\ holds'["server"] = holds["server"] \cup {Head(inbox)}
          /\ holds'["units"] = holds["units"] /\ holds'["calculators"] = holds["calculators"]
          /\ holds'["responses"] = holds["responses"] /\ holds'["client"] = holds["client"]
      BY <3>1 DEF Moves, Stages
    <3> QED
      BY <1>5, <3>2 DEF Inside
  <2>2. remoteView' = [w \in {Self} |->
                          [remoteView[Self] EXCEPT
                              !.inbox = Tail(inbox), !.held = Held \cup {Head(inbox)}]]
    BY <1>1, <1>4, <1>7, <2>1, ViewIs
  <2> QED
    BY <1>1, <1>4, <1>7, <2>2, ViewIs DEF Remote!TakeUnit
<1> QED
  BY <1>6, <1>7

LEMMA WithinUnseen ==
    ASSUME NodeInv, [Next]_vars,
           \/ ServerProduces \/ ServerHalts \/ ClientTakes \/ ClientCountsStop
           \/ \E c \in Calculators : \/ CalculatorTakes(c)
                                     \/ CalculatorProduces(c)
                                     \/ CalculatorHalts(c)
    PROVE  UNCHANGED remoteView
<1>1. ThreadsInv /\ OnceInv
  BY DEF NodeInv
<1>2. UNCHANGED <<main, inbox, outbox>>
  BY DEF ServerProduces, ServerHalts, ClientTakes, ClientCountsStop, CalculatorTakes,
     CalculatorProduces, CalculatorHalts
<1>3. State' = State
  <2>1. /\ server'.at \in {"read", "produce"} <=> server.at \in {"read", "produce"}
        /\ client'.at = "done" <=> client.at = "done"
    BY <1>1 DEF ServerProduces, ServerHalts, ClientTakes, ClientCountsStop, CalculatorTakes,
       CalculatorProduces, CalculatorHalts, ThreadsInv, TypeOK
  <2> QED
    BY <1>2, <2>1, StateIs, StateIsNext DEF StateOf
<1>4. \/ SameHolds
      \/ \E u : \/ Moves(holds, holds', "server", "units", u)
                \/ Moves(holds, holds', "units", "calculators", u)
                \/ Moves(holds, holds', "calculators", "responses", u)
                \/ Moves(holds, holds', "responses", "client", u)
  BY <1>1, ServerPassesHolds, CalculatorHolds, ClientHolds
<1>5. Inside(holds') = Inside(holds)
  <2>1. CASE SameHolds
    BY <2>1 DEF SameHolds, Inside, Stages
  <2>2. ASSUME NEW u, \/ Moves(holds, holds', "server", "units", u)
                      \/ Moves(holds, holds', "units", "calculators", u)
                      \/ Moves(holds, holds', "calculators", "responses", u)
                      \/ Moves(holds, holds', "responses", "client", u)
        PROVE  Inside(holds') = Inside(holds)
    <3>1. CASE Moves(holds, holds', "server", "units", u)
      BY <3>1 DEF Moves, Inside, Stages
    <3>2. CASE Moves(holds, holds', "units", "calculators", u)
      BY <3>2 DEF Moves, Inside, Stages
    <3>3. CASE Moves(holds, holds', "calculators", "responses", u)
      BY <3>3 DEF Moves, Inside, Stages
    <3>4. CASE Moves(holds, holds', "responses", "client", u)
      BY <3>4 DEF Moves, Inside, Stages
    <3> QED
      BY <2>2, <3>1, <3>2, <3>3, <3>4
  <2> QED
    BY <1>4, <2>1, <2>2
<1>6. Held' = Held
  BY <1>1, <1>5, HeldIs, HeldIsNext
<1> QED
  BY <1>2, <1>3, <1>6, Unseen

LEMMA ClientAnswers ==
    ASSUME NodeInv, [Next]_vars, ClientSends
    PROVE  \E u \in Units : Remote!Answer(Self, u)
<1>1. /\ client.at = "send" /\ client'.at = "take" /\ client.unit \in Units
      /\ outbox' = Append(outbox, client.unit) /\ UNCHANGED <<main, server, inbox>>
  BY DEF ClientSends, NodeInv, ThreadsInv, TypeOK, ClientInv
<1>2. ~NotStarted
  BY <1>1 DEF NotStarted
<1>3. State \in {"serving", "draining"} /\ State' = State
  BY <1>1, <1>2, ServesOrDrains, StateIsNext DEF StateOf
<1>4. client.unit \in Held /\ Held' = Held \ {client.unit}
  <2>1. /\ holds["client"] = {client.unit} /\ holds'["client"] = {}
        /\ \A x \in Stages \ {"client"} : holds'[x] = holds[x]
    BY ClientHolds DEF NodeInv
  <2>2. \A x \in Stages \ {"client"} : client.unit \notin holds[x]
    BY <2>1 DEF NodeInv, OnceInv, Apart, Stages
  <2>3. Held = Inside(holds) /\ Held' = Inside(holds')
    BY HeldIs, HeldIsNext DEF NodeInv
  <2>4. /\ holds'["server"] = holds["server"] /\ client.unit \notin holds["server"]
        /\ holds'["units"] = holds["units"] /\ client.unit \notin holds["units"]
        /\ holds'["calculators"] = holds["calculators"] /\ client.unit \notin holds["calculators"]
        /\ holds'["responses"] = holds["responses"] /\ client.unit \notin holds["responses"]
    BY <2>1, <2>2 DEF Stages
  <2> QED
    BY <2>1, <2>3, <2>4 DEF Inside
<1>5. remoteView' = [w \in {Self} |->
                        [remoteView[Self] EXCEPT !.held = Held \ {client.unit},
                                                 !.outbox = Append(outbox, client.unit)]]
  BY <1>1, <1>3, <1>4, ViewIs
<1>6. Remote!Answer(Self, client.unit)
  BY <1>3, <1>4, <1>5, ViewIs DEF Remote!Answer, Remote!Listens
<1> QED
  BY <1>1, <1>6

LEMMA ClientLeaves ==
    ASSUME NodeInv, [Next]_vars, ClientSaysGoodbye
    PROVE  Remote!Leave(Self)
<1>1. /\ client.at = "goodbye" /\ client'.at = "done" /\ client.unit \notin Units
      /\ outbox' = Append(outbox, Stop) /\ UNCHANGED <<main, server, calculator, queue, inbox>>
  BY DEF ClientSaysGoodbye, NodeInv, ThreadsInv, TypeOK, ClientInv
<1>2. /\ server.at = "done" /\ AllEnded(calculator)
      /\ queue["units"] = << >> /\ queue["responses"] = << >>
  BY <1>1, ClientIsLast DEF NodeInv
<1>3. State = "draining" /\ State' = "gone"
  BY <1>1, <1>2, ServesOrDrains, StateIsNext DEF StateOf, NotStarted
<1>4. Held = {}
  <2>1. \A c \in Calculators : calculator[c].unit \notin Units
    BY <1>2 DEF NodeInv, ThreadsInv, TypeOK, CalculatorInv, AllEnded
  <2>2. server.unit \notin Units
    BY <1>2 DEF NodeInv, ThreadsInv, ServerInv
  <2>3. Range(<< >>) = {}
    BY DistinctEmpty
  <2> QED
    BY <1>1, <1>2, <2>1, <2>2, <2>3 DEF Held
<1>5. Held' = Held
  <2>1. SameHolds
    BY ClientHolds DEF NodeInv
  <2> QED
    BY <2>1, HeldIs, HeldIsNext DEF NodeInv, SameHolds, Inside, Stages
<1>6. remoteView' = [w \in {Self} |->
                        [remoteView[Self] EXCEPT !.outbox = Append(outbox, Stop),
                                                 !.state = "gone"]]
  BY <1>1, <1>3, <1>5, ViewIs
<1> QED
  BY <1>3, <1>4, <1>6, ViewIs DEF Remote!Leave

LEMMA RemoteSteps ==
    ASSUME NodeInv, [Next]_vars
    PROVE  [RemoteStep]_remoteView
<1>1. ASSUME NEW message \in Messages, MasterSends(message) PROVE RemoteStep
  BY <1>1, MasterSendsToWorker DEF RemoteStep
<1>2. ServerReads \/ ClientSends \/ ClientSaysGoodbye => Remote!Works(Self)
  BY ServerServes, ClientAnswers, ClientLeaves DEF Remote!Works
<1> QED
  BY <1>1, <1>2, NodeSteps, MainUnseen, WithinUnseen DEF RemoteStep

LEMMA RemoteStarts == Init => Remote!RemoteInit
<1> SUFFICES ASSUME Init PROVE Remote!RemoteInit
  OBVIOUS
<1>1. main = "connecting" /\ client.at = "take" /\ inbox = << >> /\ outbox = << >>
  BY DEF Init
<1>2. State = "absent"
  BY <1>1, NodeInit, StateIs DEF StateOf
<1>3. Held = {}
  <2>1. Nothing \notin Units /\ Range(<< >>) = {}
    BY Sizes, DistinctEmpty
  <2>2. /\ queue["units"] = << >> /\ queue["responses"] = << >>
        /\ server.unit = Nothing /\ client.unit = Nothing
        /\ \A c \in Calculators : calculator[c].unit = Nothing
    BY DEF Init, QueueNames
  <2> QED
    BY <2>1, <2>2 DEF Held
<1> QED
  BY <1>1, <1>2, <1>3, ViewIs DEF Remote!RemoteInit

(* A worker process of any number of calculators, with queues of any       *)
(* capacity, is the RemoteCalculator that ProductionLine counts on: it     *)
(* takes the units that it is sent in order, answers each of them once,    *)
(* and says "-1" when none is left in its threads or queues.               *)
THEOREM RemoteImplemented == Spec => ImplementsRemote
<1>1. Init => Remote!RemoteInit
  BY RemoteStarts
<1>2. NodeInv /\ [Next]_vars => [RemoteStep]_remoteView
  BY RemoteSteps
<1> QED
  BY <1>1, <1>2, NodeInvariant, PTL DEF Spec, ImplementsRemote

====
