---- MODULE BoundedQueue ----
(***************************************************************************)
(* prodcons/Queue.hpp: the queue through which every two threads of the    *)
(* server talk.  Two semaphores count the free places (canProduce) and the *)
(* available elements (canConsume), and a mutex protects the std::queue.   *)
(* Each action is one call that enqueue() or dequeue() makes on the        *)
(* semaphores, on the mutex or on the std::queue, so that the calls of any *)
(* number of threads interleave as they may in the program.                *)
(***************************************************************************)
EXTENDS Naturals, Sequences, FiniteSets

CONSTANTS
    Producers,  \* the threads that call enqueue()
    Consumers,  \* the threads that call dequeue()
    Data,       \* what may be enqueued
    Capacity,   \* queueCapacity, the constructor's argument; 0 is accepted
    Free,       \* the mutex's owner when it is unlocked
    NoData      \* the local variable of a thread outside of the queue

Threads == Producers \cup Consumers

ASSUME QueueAssumption ==
    /\ Capacity \in Nat
    /\ IsFiniteSet(Producers)
    /\ IsFiniteSet(Consumers)
    /\ Producers \cap Consumers = {}
    /\ Free \notin Producers \cup Consumers
    /\ NoData \notin Data

VARIABLES
    canProduce, \* value of the semaphore of free places
    canConsume, \* value of the semaphore of available elements
    mutex,      \* the thread that locked the mutex, or Free
    queue,      \* the std::queue
    pc,         \* the call each thread is about to make
    local       \* enqueue()'s parameter data, dequeue()'s variable result

vars == <<canProduce, canConsume, mutex, queue, pc, local>>

ProducerSteps == {"idle", "waitSpace", "lockToPush", "push", "unlockPushed", "signalItem"}
ConsumerSteps == {"idle", "waitItem", "lockToPop", "pop", "unlockPopped", "signalSpace"}

(* The semaphore values, the owner of the mutex, the stored elements and   *)
(* each thread's position in enqueue() or dequeue() are of their types.    *)
TypeOK ==
    /\ canProduce \in Nat
    /\ canConsume \in Nat
    /\ mutex \in Threads \cup {Free}
    /\ queue \in Seq(Data)
    /\ pc \in [Threads -> ProducerSteps \cup ConsumerSteps]
    /\ \A p \in Producers : pc[p] \in ProducerSteps
    /\ \A c \in Consumers : pc[c] \in ConsumerSteps
    /\ local \in [Threads -> Data \cup {NoData}]
    /\ \A p \in Producers : pc[p] # "idle" => local[p] \in Data

(* Faulty variant: the constructor exchanges the initial values.           *)
InitExchanged ==
    /\ canProduce = 0
    /\ canConsume = Capacity
    /\ mutex = Free
    /\ queue = << >>
    /\ pc = [t \in Threads |-> "idle"]
    /\ local = [t \in Threads |-> NoData]

Init ==
    /\ canProduce = Capacity
    /\ canConsume = 0
    /\ mutex = Free
    /\ queue = << >>
    /\ pc = [t \in Threads |-> "idle"]
    /\ local = [t \in Threads |-> NoData]

GoTo(t, step) == pc' = [pc EXCEPT ![t] = step]

----
(* Semaphore::wait() and Semaphore::signal() on the semaphore sem.  The    *)
(* value of sem_wait() is ignored; it fails only when a signal handler     *)
(* interrupts it, and the handlers that signal() installs restart it.      *)

(* Faulty variants: a wait that does not block, and one that returns to    *)
(* the caller, who does not look, when it is interrupted.                  *)
WaitWithoutBlocking(sem) == sem' = sem - 1
WaitInterrupted(sem) == sem' = IF sem > 0 THEN sem - 1 ELSE 0

Wait(sem) == sem > 0 /\ sem' = sem - 1

Signal(sem) == sem' = sem + 1

(* std::mutex.  Faulty variant: nothing is locked.                         *)
LockNothing(t) == mutex' = t

Lock(t) == mutex = Free /\ mutex' = t

Unlock(t) == mutex' = Free

----
(* enqueue(data), called by p.                                             *)

CallEnqueue(p, d) ==
    /\ pc[p] = "idle"
    /\ local' = [local EXCEPT ![p] = d]
    /\ GoTo(p, "waitSpace")
    /\ UNCHANGED <<canProduce, canConsume, mutex, queue>>

WaitSpace(p) ==
    /\ pc[p] = "waitSpace"
    /\ Wait(canProduce)
    /\ GoTo(p, "lockToPush")
    /\ UNCHANGED <<canConsume, mutex, queue, local>>

LockToPush(p) ==
    /\ pc[p] = "lockToPush"
    /\ Lock(p)
    /\ GoTo(p, "push")
    /\ UNCHANGED <<canProduce, canConsume, queue, local>>

(* Faulty variant: the last element to arrive is the first to leave.       *)
PushInFront(p) ==
    /\ pc[p] = "push"
    /\ queue' = <<local[p]>> \o queue
    /\ GoTo(p, "unlockPushed")
    /\ UNCHANGED <<canProduce, canConsume, mutex, local>>

Push(p) ==
    /\ pc[p] = "push"
    /\ queue' = Append(queue, local[p])
    /\ GoTo(p, "unlockPushed")
    /\ UNCHANGED <<canProduce, canConsume, mutex, local>>

UnlockPushed(p) ==
    /\ pc[p] = "unlockPushed"
    /\ Unlock(p)
    /\ GoTo(p, "signalItem")
    /\ UNCHANGED <<canProduce, canConsume, queue, local>>

(* Faulty variant: the consumers are not signalled.                        *)
SignalItemForgotten(p) ==
    /\ pc[p] = "signalItem"
    /\ GoTo(p, "idle")
    /\ local' = [local EXCEPT ![p] = NoData]
    /\ UNCHANGED <<canProduce, canConsume, mutex, queue>>

SignalItem(p) ==
    /\ pc[p] = "signalItem"
    /\ Signal(canConsume)
    /\ GoTo(p, "idle")
    /\ local' = [local EXCEPT ![p] = NoData]
    /\ UNCHANGED <<canProduce, mutex, queue>>

----
(* dequeue(), called by c.  front() and pop() are one step: the mutex is   *)
(* held from before the one to after the other.                            *)

CallDequeue(c) ==
    /\ pc[c] = "idle"
    /\ GoTo(c, "waitItem")
    /\ UNCHANGED <<canProduce, canConsume, mutex, queue, local>>

WaitItem(c) ==
    /\ pc[c] = "waitItem"
    /\ Wait(canConsume)
    /\ GoTo(c, "lockToPop")
    /\ UNCHANGED <<canProduce, mutex, queue, local>>

LockToPop(c) ==
    /\ pc[c] = "lockToPop"
    /\ Lock(c)
    /\ GoTo(c, "pop")
    /\ UNCHANGED <<canProduce, canConsume, queue, local>>

Pop(c) ==
    /\ pc[c] = "pop"
    /\ local' = [local EXCEPT ![c] = Head(queue)]
    /\ queue' = Tail(queue)
    /\ GoTo(c, "unlockPopped")
    /\ UNCHANGED <<canProduce, canConsume, mutex>>

UnlockPopped(c) ==
    /\ pc[c] = "unlockPopped"
    /\ Unlock(c)
    /\ GoTo(c, "signalSpace")
    /\ UNCHANGED <<canProduce, canConsume, queue, local>>

(* Faulty variant: the producers are not signalled.                        *)
SignalSpaceForgotten(c) ==
    /\ pc[c] = "signalSpace"
    /\ GoTo(c, "idle")
    /\ local' = [local EXCEPT ![c] = NoData]
    /\ UNCHANGED <<canProduce, canConsume, mutex, queue>>

SignalSpace(c) ==
    /\ pc[c] = "signalSpace"
    /\ Signal(canProduce)
    /\ GoTo(c, "idle")
    /\ local' = [local EXCEPT ![c] = NoData]
    /\ UNCHANGED <<canConsume, mutex, queue>>

----
InEnqueue(p) ==
    WaitSpace(p) \/ LockToPush(p) \/ Push(p) \/ UnlockPushed(p) \/ SignalItem(p)

InDequeue(c) ==
    WaitItem(c) \/ LockToPop(c) \/ Pop(c) \/ UnlockPopped(c) \/ SignalSpace(c)

Next ==
    \/ \E p \in Producers : InEnqueue(p) \/ \E d \in Data : CallEnqueue(p, d)
    \/ \E c \in Consumers : InDequeue(c) \/ CallDequeue(c)

Spec == Init /\ [][Next]_vars

(* A thread inside of an operation is scheduled as long as it can run, and *)
(* a consumer comes back for more: Consumer::consumeLoop() calls dequeue() *)
(* again once it has processed an element.  Nobody has to enqueue.         *)
FairSpec ==
    /\ Spec
    /\ \A p \in Producers : WF_vars(InEnqueue(p))
    /\ \A c \in Consumers : WF_vars(InDequeue(c) \/ CallDequeue(c))

----
(* The permits of the semaphores account for the elements: a place of the  *)
(* queue is free (canProduce), reserved by an enqueue() about to push,     *)
(* occupied, or just emptied by a dequeue() that has not signalled yet;    *)
(* and a stored element is announced (canConsume), claimed by a dequeue()  *)
(* about to pop, or just pushed by an enqueue() that has not signalled.    *)
Reserving == {p \in Producers : pc[p] \in {"lockToPush", "push"}}
Announcing == {p \in Producers : pc[p] \in {"unlockPushed", "signalItem"}}
Claiming == {c \in Consumers : pc[c] \in {"lockToPop", "pop"}}
Releasing == {c \in Consumers : pc[c] \in {"unlockPopped", "signalSpace"}}

PermitsAccountForElements ==
    /\ canProduce + Cardinality(Reserving) + Len(queue) + Cardinality(Releasing) = Capacity
    /\ canConsume + Cardinality(Claiming) + Cardinality(Announcing) = Len(queue)

(* The std::queue is touched by one thread at a time, whichever mix of     *)
(* producers and consumers runs: the comment of Queue.hpp:23.              *)
Critical(t) == pc[t] \in {"push", "unlockPushed", "pop", "unlockPopped"}

MutualExclusion ==
    \A t1, t2 \in Threads : Critical(t1) /\ Critical(t2) => t1 = t2

(* No thread reaches front() and pop() on an empty std::queue, which would *)
(* be undefined behaviour, and no element is pushed beyond the capacity:   *)
(* what the semaphores alone guarantee, since neither call checks.         *)
NeverPopsEmptyNorOverflows ==
    /\ \A c \in Consumers : pc[c] = "pop" => queue # << >>
    /\ \A p \in Producers : pc[p] = "push" => Len(queue) < Capacity

(* The queue is a bounded FIFO channel whose operations take effect        *)
(* atomically, at the push() and at the front()/pop().                     *)
StageAt(step) ==
    CASE step = "idle" -> "idle"
      [] step \in {"unlockPushed", "signalItem", "unlockPopped", "signalSpace"} -> "effected"
      [] OTHER -> "called"

Stage == [t \in Threads |-> StageAt(pc[t])]

Channel == INSTANCE FifoChannel WITH channel <- queue, stage <- Stage, value <- local

ImplementsChannel == Channel!Spec

(* No wake-up is lost: while a consumer waits and there is an element, an  *)
(* element is handed over, and while a producer waits (of a queue that can *)
(* hold something) some producer gets through.  Which of the waiting       *)
(* threads it is, sem_wait() and std::mutex do not promise.                *)
HandsOver ==
    (queue # << >> /\ \E c \in Consumers : pc[c] = "waitItem")
        ~> (\E c \in Consumers : pc[c] = "signalSpace")

LetsThrough ==
    (Capacity > 0 /\ \E p \in Producers : pc[p] = "waitSpace")
        ~> (\E p \in Producers : pc[p] = "signalItem")

====
