---- MODULE BoundedQueueProofs ----
(***************************************************************************)
(* What TLAPS proves of the queue, for any number of producers and         *)
(* consumers, any capacity and any data: the accounting of the permits,    *)
(* mutual exclusion, that no thread pops an empty std::queue nor overfills *)
(* it, and that the queue implements the bounded FIFO channel.             *)
(***************************************************************************)
EXTENDS BoundedQueue, FiniteSetTheorems, TLAPS

(* A thread in the critical section is the one the mutex names.            *)
OwnerIsCritical == \A t \in Threads : Critical(t) => mutex = t

(* The inductive invariant.  MutualExclusion is not inductive without      *)
(* OwnerIsCritical, and NeverPopsEmptyNorOverflows not without the exact   *)
(* accounting of the permits.                                              *)
IInv == TypeOK /\ OwnerIsCritical /\ PermitsAccountForElements

----
(* The four sets of threads between a wait() and a signal() are finite, so *)
(* their cardinalities are natural numbers.                                *)
LEMMA InFlightFinite ==
    /\ IsFiniteSet(Reserving) /\ Cardinality(Reserving) \in Nat
    /\ IsFiniteSet(Announcing) /\ Cardinality(Announcing) \in Nat
    /\ IsFiniteSet(Claiming) /\ Cardinality(Claiming) \in Nat
    /\ IsFiniteSet(Releasing) /\ Cardinality(Releasing) \in Nat
<1>1. /\ Reserving \subseteq Producers /\ Announcing \subseteq Producers
      /\ Claiming \subseteq Consumers /\ Releasing \subseteq Consumers
  BY DEF Reserving, Announcing, Claiming, Releasing
<1>2. IsFiniteSet(Producers) /\ IsFiniteSet(Consumers)
  BY QueueAssumption
<1>3. /\ IsFiniteSet(Reserving) /\ IsFiniteSet(Announcing)
      /\ IsFiniteSet(Claiming) /\ IsFiniteSet(Releasing)
  BY <1>1, <1>2, FS_Subset
<1> QED
  BY <1>3, FS_CardinalityType

(* One more member, or one less, changes the cardinality by one.           *)
LEMMA Joining ==
    ASSUME NEW S, IsFiniteSet(S), NEW x, x \notin S
    PROVE  Cardinality(S \cup {x}) = Cardinality(S) + 1
  BY FS_AddElement

LEMMA Leaving ==
    ASSUME NEW S, IsFiniteSet(S), NEW x \in S
    PROVE  Cardinality(S \ {x}) = Cardinality(S) - 1
  BY FS_RemoveElement

----
(* The accounting rules out the two ways to misuse the std::queue: a       *)
(* claimed element is stored, and a reserved place is free.                *)
LEMMA PermitsProtectQueue ==
    ASSUME TypeOK, PermitsAccountForElements
    PROVE  NeverPopsEmptyNorOverflows
<1> USE QueueAssumption DEF TypeOK
<1>1. ASSUME NEW c \in Consumers, pc[c] = "pop" PROVE queue # << >>
  <2>1. c \in Claiming
    BY <1>1 DEF Claiming
  <2>2. Cardinality(Claiming) # 0
    BY <2>1, InFlightFinite, FS_EmptySet
  <2>3. Len(queue) # 0
    BY <2>2, InFlightFinite, PermitsAccountForElements DEF
       PermitsAccountForElements
  <2> QED
    BY <2>3
<1>2. ASSUME NEW p \in Producers, pc[p] = "push" PROVE Len(queue) < Capacity
  <2>1. p \in Reserving
    BY <1>2 DEF Reserving
  <2>2. Cardinality(Reserving) # 0
    BY <2>1, InFlightFinite, FS_EmptySet
  <2>3. Len(queue) \in Nat
    OBVIOUS
  <2> QED
    BY <2>2, <2>3, InFlightFinite, PermitsAccountForElements DEF
       PermitsAccountForElements
<1> QED
  BY <1>1, <1>2 DEF NeverPopsEmptyNorOverflows

----
LEMMA TypeInit == Init => TypeOK
  BY QueueAssumption DEF Init, TypeOK, Threads, ProducerSteps, ConsumerSteps

LEMMA TypeStep ==
    ASSUME TypeOK, NeverPopsEmptyNorOverflows, [Next]_vars
    PROVE  TypeOK'
<1> USE QueueAssumption DEF TypeOK, Threads, ProducerSteps, ConsumerSteps, GoTo
<1>1. ASSUME NEW p \in Producers, NEW d \in Data, CallEnqueue(p, d) PROVE TypeOK'
  BY <1>1 DEF CallEnqueue
<1>2. ASSUME NEW p \in Producers, WaitSpace(p) PROVE TypeOK'
  BY <1>2 DEF WaitSpace, Wait
<1>3. ASSUME NEW p \in Producers, LockToPush(p) PROVE TypeOK'
  BY <1>3 DEF LockToPush, Lock
<1>4. ASSUME NEW p \in Producers, Push(p) PROVE TypeOK'
  BY <1>4 DEF Push
<1>5. ASSUME NEW p \in Producers, UnlockPushed(p) PROVE TypeOK'
  BY <1>5 DEF UnlockPushed, Unlock
<1>6. ASSUME NEW p \in Producers, SignalItem(p) PROVE TypeOK'
  BY <1>6 DEF SignalItem, Signal
<1>7. ASSUME NEW c \in Consumers, CallDequeue(c) PROVE TypeOK'
  BY <1>7 DEF CallDequeue
<1>8. ASSUME NEW c \in Consumers, WaitItem(c) PROVE TypeOK'
  BY <1>8 DEF WaitItem, Wait
<1>9. ASSUME NEW c \in Consumers, LockToPop(c) PROVE TypeOK'
  BY <1>9 DEF LockToPop, Lock
<1>10. ASSUME NEW c \in Consumers, Pop(c) PROVE TypeOK'
  <2>1. queue # << >>
    BY <1>10 DEF Pop, NeverPopsEmptyNorOverflows
  <2>2. Head(queue) \in Data /\ Tail(queue) \in Seq(Data)
    BY <2>1
  <2> QED
    BY <1>10, <2>2 DEF Pop
<1>11. ASSUME NEW c \in Consumers, UnlockPopped(c) PROVE TypeOK'
  BY <1>11 DEF UnlockPopped, Unlock
<1>12. ASSUME NEW c \in Consumers, SignalSpace(c) PROVE TypeOK'
  BY <1>12 DEF SignalSpace, Signal
<1>13. CASE UNCHANGED vars
  BY <1>13 DEF vars
<1> QED
  BY <1>1, <1>2, <1>3, <1>4, <1>5, <1>6, <1>7, <1>8, <1>9, <1>10, <1>11, <1>12,
     <1>13
  DEF Next, InEnqueue, InDequeue

----
(* Only the thread that locked the free mutex enters the critical section, *)
(* and the others keep out of it until it unlocks.                         *)
LEMMA OwnerStep ==
    ASSUME TypeOK, OwnerIsCritical, [Next]_vars
    PROVE  OwnerIsCritical'
<1> USE QueueAssumption DEF TypeOK, OwnerIsCritical, Critical, Threads, GoTo
<1>1. ASSUME NEW p \in Producers, NEW d \in Data, CallEnqueue(p, d) PROVE OwnerIsCritical'
  BY <1>1 DEF CallEnqueue
<1>2. ASSUME NEW p \in Producers, WaitSpace(p) PROVE OwnerIsCritical'
  BY <1>2 DEF WaitSpace, Wait
<1>3. ASSUME NEW p \in Producers, LockToPush(p) PROVE OwnerIsCritical'
  BY <1>3 DEF LockToPush, Lock
<1>4. ASSUME NEW p \in Producers, Push(p) PROVE OwnerIsCritical'
  BY <1>4 DEF Push
<1>5. ASSUME NEW p \in Producers, UnlockPushed(p) PROVE OwnerIsCritical'
  BY <1>5 DEF UnlockPushed, Unlock
<1>6. ASSUME NEW p \in Producers, SignalItem(p) PROVE OwnerIsCritical'
  BY <1>6 DEF SignalItem, Signal
<1>7. ASSUME NEW c \in Consumers, CallDequeue(c) PROVE OwnerIsCritical'
  BY <1>7 DEF CallDequeue
<1>8. ASSUME NEW c \in Consumers, WaitItem(c) PROVE OwnerIsCritical'
  BY <1>8 DEF WaitItem, Wait
<1>9. ASSUME NEW c \in Consumers, LockToPop(c) PROVE OwnerIsCritical'
  BY <1>9 DEF LockToPop, Lock
<1>10. ASSUME NEW c \in Consumers, Pop(c) PROVE OwnerIsCritical'
  BY <1>10 DEF Pop
<1>11. ASSUME NEW c \in Consumers, UnlockPopped(c) PROVE OwnerIsCritical'
  BY <1>11 DEF UnlockPopped, Unlock
<1>12. ASSUME NEW c \in Consumers, SignalSpace(c) PROVE OwnerIsCritical'
  BY <1>12 DEF SignalSpace, Signal
<1>13. CASE UNCHANGED vars
  BY <1>13 DEF vars
<1> QED
  BY <1>1, <1>2, <1>3, <1>4, <1>5, <1>6, <1>7, <1>8, <1>9, <1>10, <1>11, <1>12,
     <1>13
  DEF Next, InEnqueue, InDequeue

----
(* Every step moves a thread between the four sets as it moves a permit or *)
(* an element, so that both sums stay what they were.                      *)
LEMMA PermitsStep ==
    ASSUME TypeOK, NeverPopsEmptyNorOverflows, PermitsAccountForElements, [Next]_vars
    PROVE  PermitsAccountForElements'
<1>n. canProduce \in Nat /\ canConsume \in Nat /\ Len(queue) \in Nat
  BY DEF TypeOK
<1>1. ASSUME NEW p \in Producers, NEW d \in Data, CallEnqueue(p, d) PROVE PermitsAccountForElements'
  <2>1. Reserving' = Reserving /\ Announcing' = Announcing
        /\ Claiming' = Claiming /\ Releasing' = Releasing
    BY <1>1 DEF CallEnqueue, Reserving, Announcing, Claiming, Releasing, GoTo
  <2>2. canProduce' = canProduce /\ canConsume' = canConsume /\ Len(queue') = Len(queue)
    BY <1>1 DEF CallEnqueue
  <2> QED
    BY <1>n, <2>1, <2>2, InFlightFinite DEF PermitsAccountForElements
<1>2. ASSUME NEW p \in Producers, WaitSpace(p) PROVE PermitsAccountForElements'
  <2>1. p \notin Reserving /\ Reserving' = Reserving \cup {p}
    BY <1>2 DEF WaitSpace, Reserving, TypeOK, Threads, GoTo
  <2>2. Cardinality(Reserving') = Cardinality(Reserving) + 1
    BY <2>1, InFlightFinite, Joining
  <2>3. Announcing' = Announcing /\ Claiming' = Claiming /\ Releasing' = Releasing
    BY <1>2 DEF WaitSpace, Announcing, Claiming, Releasing, GoTo
  <2>4. canProduce' = canProduce - 1 /\ canConsume' = canConsume /\ Len(queue') = Len(queue)
    BY <1>2 DEF WaitSpace, Wait
  <2> QED
    BY <1>n, <2>2, <2>3, <2>4, InFlightFinite DEF PermitsAccountForElements
<1>3. ASSUME NEW p \in Producers, LockToPush(p) PROVE PermitsAccountForElements'
  <2>1. Reserving' = Reserving /\ Announcing' = Announcing
        /\ Claiming' = Claiming /\ Releasing' = Releasing
    BY <1>3 DEF LockToPush, Reserving, Announcing, Claiming, Releasing, GoTo
  <2>2. canProduce' = canProduce /\ canConsume' = canConsume /\ Len(queue') = Len(queue)
    BY <1>3 DEF LockToPush
  <2> QED
    BY <1>n, <2>1, <2>2, InFlightFinite DEF PermitsAccountForElements
<1>4. ASSUME NEW p \in Producers, Push(p) PROVE PermitsAccountForElements'
  <2>1. p \in Reserving /\ Reserving' = Reserving \ {p}
    BY <1>4 DEF Push, Reserving, TypeOK, Threads, GoTo
  <2>2. Cardinality(Reserving') = Cardinality(Reserving) - 1
    BY <2>1, InFlightFinite, Leaving
  <2>3. p \notin Announcing /\ Announcing' = Announcing \cup {p}
    BY <1>4 DEF Push, Announcing, TypeOK, Threads, GoTo
  <2>4. Cardinality(Announcing') = Cardinality(Announcing) + 1
    BY <2>3, InFlightFinite, Joining
  <2>5. Claiming' = Claiming /\ Releasing' = Releasing
    BY <1>4 DEF Push, Claiming, Releasing, GoTo
  <2>6. canProduce' = canProduce /\ canConsume' = canConsume /\ Len(queue') = Len(queue) + 1
    BY <1>4 DEF Push
  <2>7. canProduce + (Cardinality(Reserving) - 1) + (Len(queue) + 1) + Cardinality(Releasing)
          = Capacity
    <3> DEFINE r == Cardinality(Reserving)
               l == Len(queue)
               f == Cardinality(Releasing)
    <3>1. r \in Nat /\ l \in Nat /\ f \in Nat /\ canProduce + r + l + f = Capacity
      BY <1>n, InFlightFinite DEF PermitsAccountForElements
    <3> HIDE DEF r, l, f
    <3>2. canProduce + (r - 1) + (l + 1) + f = Capacity
      BY <1>n, <3>1
    <3> QED
      BY <3>2 DEF r, l, f
  <2>8. canConsume + Cardinality(Claiming) + (Cardinality(Announcing) + 1) = Len(queue) + 1
    <3> DEFINE k == Cardinality(Claiming)
               a == Cardinality(Announcing)
               l == Len(queue)
    <3>1. k \in Nat /\ a \in Nat /\ l \in Nat /\ canConsume + k + a = l
      BY <1>n, InFlightFinite DEF PermitsAccountForElements
    <3> HIDE DEF k, a, l
    <3>2. canConsume + k + (a + 1) = l + 1
      BY <1>n, <3>1
    <3> QED
      BY <3>2 DEF k, a, l
  <2> QED
    BY <2>2, <2>4, <2>5, <2>6, <2>7, <2>8, Zenon DEF PermitsAccountForElements
<1>5. ASSUME NEW p \in Producers, UnlockPushed(p) PROVE PermitsAccountForElements'
  <2>1. Reserving' = Reserving /\ Announcing' = Announcing
        /\ Claiming' = Claiming /\ Releasing' = Releasing
    BY <1>5 DEF UnlockPushed, Reserving, Announcing, Claiming, Releasing, GoTo
  <2>2. canProduce' = canProduce /\ canConsume' = canConsume /\ Len(queue') = Len(queue)
    BY <1>5 DEF UnlockPushed
  <2> QED
    BY <1>n, <2>1, <2>2, InFlightFinite DEF PermitsAccountForElements
<1>6. ASSUME NEW p \in Producers, SignalItem(p) PROVE PermitsAccountForElements'
  <2>1. p \in Announcing /\ Announcing' = Announcing \ {p}
    BY <1>6 DEF SignalItem, Announcing, TypeOK, Threads, GoTo
  <2>2. Cardinality(Announcing') = Cardinality(Announcing) - 1
    BY <2>1, InFlightFinite, Leaving
  <2>3. Reserving' = Reserving /\ Claiming' = Claiming /\ Releasing' = Releasing
    BY <1>6 DEF SignalItem, Reserving, Claiming, Releasing, GoTo
  <2>4. canProduce' = canProduce /\ canConsume' = canConsume + 1 /\ Len(queue') = Len(queue)
    BY <1>6 DEF SignalItem, Signal
  <2> QED
    BY <1>n, <2>2, <2>3, <2>4, InFlightFinite DEF PermitsAccountForElements
<1>7. ASSUME NEW c \in Consumers, CallDequeue(c) PROVE PermitsAccountForElements'
  <2>1. Reserving' = Reserving /\ Announcing' = Announcing
        /\ Claiming' = Claiming /\ Releasing' = Releasing
    BY <1>7 DEF CallDequeue, Reserving, Announcing, Claiming, Releasing, GoTo
  <2>2. canProduce' = canProduce /\ canConsume' = canConsume /\ Len(queue') = Len(queue)
    BY <1>7 DEF CallDequeue
  <2> QED
    BY <1>n, <2>1, <2>2, InFlightFinite DEF PermitsAccountForElements
<1>8. ASSUME NEW c \in Consumers, WaitItem(c) PROVE PermitsAccountForElements'
  <2>1. c \notin Claiming /\ Claiming' = Claiming \cup {c}
    BY <1>8 DEF WaitItem, Claiming, TypeOK, Threads, GoTo
  <2>2. Cardinality(Claiming') = Cardinality(Claiming) + 1
    BY <2>1, InFlightFinite, Joining
  <2>3. Reserving' = Reserving /\ Announcing' = Announcing /\ Releasing' = Releasing
    BY <1>8 DEF WaitItem, Reserving, Announcing, Releasing, GoTo
  <2>4. canProduce' = canProduce /\ canConsume' = canConsume - 1 /\ Len(queue') = Len(queue)
    BY <1>8 DEF WaitItem, Wait
  <2> QED
    BY <1>n, <2>2, <2>3, <2>4, InFlightFinite DEF PermitsAccountForElements
<1>9. ASSUME NEW c \in Consumers, LockToPop(c) PROVE PermitsAccountForElements'
  <2>1. Reserving' = Reserving /\ Announcing' = Announcing
        /\ Claiming' = Claiming /\ Releasing' = Releasing
    BY <1>9 DEF LockToPop, Reserving, Announcing, Claiming, Releasing, GoTo
  <2>2. canProduce' = canProduce /\ canConsume' = canConsume /\ Len(queue') = Len(queue)
    BY <1>9 DEF LockToPop
  <2> QED
    BY <1>n, <2>1, <2>2, InFlightFinite DEF PermitsAccountForElements
<1>10. ASSUME NEW c \in Consumers, Pop(c) PROVE PermitsAccountForElements'
  <2>1. c \in Claiming /\ Claiming' = Claiming \ {c}
    BY <1>10 DEF Pop, Claiming, TypeOK, Threads, GoTo
  <2>2. Cardinality(Claiming') = Cardinality(Claiming) - 1
    BY <2>1, InFlightFinite, Leaving
  <2>3. c \notin Releasing /\ Releasing' = Releasing \cup {c}
    BY <1>10 DEF Pop, Releasing, TypeOK, Threads, GoTo
  <2>4. Cardinality(Releasing') = Cardinality(Releasing) + 1
    BY <2>3, InFlightFinite, Joining
  <2>5. Reserving' = Reserving /\ Announcing' = Announcing
    BY <1>10 DEF Pop, Reserving, Announcing, GoTo
  <2>6. canProduce' = canProduce /\ canConsume' = canConsume /\ Len(queue') = Len(queue) - 1
    BY <1>10 DEF Pop, NeverPopsEmptyNorOverflows
  <2>7. canProduce + Cardinality(Reserving) + (Len(queue) - 1) + (Cardinality(Releasing) + 1)
          = Capacity
    <3> DEFINE r == Cardinality(Reserving)
               l == Len(queue)
               f == Cardinality(Releasing)
    <3>1. r \in Nat /\ l \in Nat /\ f \in Nat /\ canProduce + r + l + f = Capacity
      BY <1>n, InFlightFinite DEF PermitsAccountForElements
    <3> HIDE DEF r, l, f
    <3>2. canProduce + r + (l - 1) + (f + 1) = Capacity
      BY <1>n, <3>1
    <3> QED
      BY <3>2 DEF r, l, f
  <2>8. canConsume + (Cardinality(Claiming) - 1) + Cardinality(Announcing) = Len(queue) - 1
    <3> DEFINE k == Cardinality(Claiming)
               a == Cardinality(Announcing)
               l == Len(queue)
    <3>1. k \in Nat /\ a \in Nat /\ l \in Nat /\ canConsume + k + a = l
      BY <1>n, InFlightFinite DEF PermitsAccountForElements
    <3> HIDE DEF k, a, l
    <3>2. canConsume + (k - 1) + a = l - 1
      BY <1>n, <3>1
    <3> QED
      BY <3>2 DEF k, a, l
  <2> QED
    BY <2>2, <2>4, <2>5, <2>6, <2>7, <2>8, Zenon DEF PermitsAccountForElements
<1>11. ASSUME NEW c \in Consumers, UnlockPopped(c) PROVE PermitsAccountForElements'
  <2>1. Reserving' = Reserving /\ Announcing' = Announcing
        /\ Claiming' = Claiming /\ Releasing' = Releasing
    BY <1>11 DEF UnlockPopped, Reserving, Announcing, Claiming, Releasing, GoTo
  <2>2. canProduce' = canProduce /\ canConsume' = canConsume /\ Len(queue') = Len(queue)
    BY <1>11 DEF UnlockPopped
  <2> QED
    BY <1>n, <2>1, <2>2, InFlightFinite DEF PermitsAccountForElements
<1>12. ASSUME NEW c \in Consumers, SignalSpace(c) PROVE PermitsAccountForElements'
  <2>1. c \in Releasing /\ Releasing' = Releasing \ {c}
    BY <1>12 DEF SignalSpace, Releasing, TypeOK, Threads, GoTo
  <2>2. Cardinality(Releasing') = Cardinality(Releasing) - 1
    BY <2>1, InFlightFinite, Leaving
  <2>3. Reserving' = Reserving /\ Announcing' = Announcing /\ Claiming' = Claiming
    BY <1>12 DEF SignalSpace, Reserving, Announcing, Claiming, GoTo
  <2>4. canProduce' = canProduce + 1 /\ canConsume' = canConsume /\ Len(queue') = Len(queue)
    BY <1>12 DEF SignalSpace, Signal
  <2> QED
    BY <1>n, <2>2, <2>3, <2>4, InFlightFinite DEF PermitsAccountForElements
<1>13. CASE UNCHANGED vars
  BY <1>13 DEF vars, PermitsAccountForElements, Reserving, Announcing, Claiming,
     Releasing
<1> QED
  BY <1>1, <1>2, <1>3, <1>4, <1>5, <1>6, <1>7, <1>8, <1>9, <1>10, <1>11, <1>12,
     <1>13
  DEF Next, InEnqueue, InDequeue

----
LEMMA InvariantInit == Init => IInv
<1> SUFFICES ASSUME Init PROVE IInv
  OBVIOUS
<1>1. TypeOK
  BY TypeInit
<1>2. OwnerIsCritical
  BY DEF Init, OwnerIsCritical, Critical
<1>3. Reserving = {} /\ Announcing = {} /\ Claiming = {} /\ Releasing = {}
  BY DEF Init, Threads, Reserving, Announcing, Claiming, Releasing
<1>4. PermitsAccountForElements
  BY <1>3, FS_EmptySet, QueueAssumption DEF Init, PermitsAccountForElements
<1> QED
  BY <1>1, <1>2, <1>4 DEF IInv

LEMMA InvariantStep == IInv /\ [Next]_vars => IInv'
  BY PermitsProtectQueue, TypeStep, OwnerStep, PermitsStep DEF IInv

(* The inductive invariant holds in every state of every behaviour.        *)
THEOREM Invariant == Spec => []IInv
  BY InvariantInit, InvariantStep, PTL DEF Spec

(* Types are kept: in particular the semaphores never go below zero.       *)
THEOREM TypeCorrect == Spec => []TypeOK
  BY Invariant, PTL DEF IInv

(* The semaphores' values and the threads in flight account for every      *)
(* place and every element of the std::queue (Queue.hpp:46-65).            *)
THEOREM PermitsAccounted == Spec => []PermitsAccountForElements
  BY Invariant, PTL DEF IInv

(* At most one thread touches the std::queue (Queue.hpp:23).               *)
THEOREM Exclusive == Spec => []MutualExclusion
<1>1. IInv => MutualExclusion
  BY DEF IInv, OwnerIsCritical, MutualExclusion
<1> QED
  BY <1>1, Invariant, PTL

(* front() and pop() never meet an empty std::queue, and push() never      *)
(* exceeds queueCapacity (Queue.hpp:49, 60-61).                            *)
THEOREM QueueProtected == Spec => []NeverPopsEmptyNorOverflows
<1>1. IInv => NeverPopsEmptyNorOverflows
  BY PermitsProtectQueue DEF IInv
<1> QED
  BY <1>1, Invariant, PTL

----
(* The refinement.  A thread that moves within a stage leaves the abstract *)
(* state as it is, and one that moves to a step of another stage makes the *)
(* abstract thread do so.                                                  *)
LEMMA StageOfMover ==
    ASSUME TypeOK, NEW t \in Threads, NEW step, GoTo(t, step)
    PROVE  Stage' = [Stage EXCEPT ![t] = StageAt(step)]
  BY DEF TypeOK, GoTo, Stage

LEMMA StageOfStep ==
    /\ StageAt("idle") = "idle"
    /\ \A s \in {"waitSpace", "lockToPush", "push", "waitItem", "lockToPop", "pop"} :
          StageAt(s) = "called"
    /\ \A s \in {"unlockPushed", "signalItem", "unlockPopped", "signalSpace"} :
          StageAt(s) = "effected"
  BY DEF StageAt

LEMMA StageWithin ==
    ASSUME TypeOK, NEW t \in Threads, NEW step, GoTo(t, step), StageAt(step) = StageAt(pc[t])
    PROVE  Stage' = Stage
<1>1. Stage' = [Stage EXCEPT ![t] = StageAt(step)]
  BY StageOfMover
<1>2. Stage[t] = StageAt(step)
  BY DEF Stage
<1> QED
  BY <1>1, <1>2 DEF Stage

LEMMA ChannelStep ==
    ASSUME IInv, [Next]_vars
    PROVE  [Channel!Next]_(Channel!vars)
<1>a. TypeOK /\ NeverPopsEmptyNorOverflows
  BY PermitsProtectQueue DEF IInv
<1>b. \A t \in Threads : Stage[t] = StageAt(pc[t])
  BY DEF Stage
<1>c. Producers \subseteq Threads /\ Consumers \subseteq Threads /\ Channel!Threads = Threads
  BY DEF Threads, Channel!Threads
<1>1. ASSUME NEW p \in Producers, NEW d \in Data, CallEnqueue(p, d) PROVE Channel!Next
  <2>1. Stage[p] = "idle" /\ Stage' = [Stage EXCEPT ![p] = "called"]
    BY <1>1, <1>a, <1>b, <1>c, StageOfMover, StageOfStep DEF CallEnqueue
  <2>2. Channel!CallPut(p, d)
    BY <1>1, <2>1 DEF CallEnqueue, Channel!CallPut
  <2> QED
    BY <2>2 DEF Channel!Next
<1>2. ASSUME NEW p \in Producers, WaitSpace(p) PROVE UNCHANGED Channel!vars
  <2>1. Stage' = Stage
    BY <1>2, <1>a, <1>c, StageWithin, StageOfStep DEF WaitSpace
  <2> QED
    BY <1>2, <2>1 DEF WaitSpace, Channel!vars
<1>3. ASSUME NEW p \in Producers, LockToPush(p) PROVE UNCHANGED Channel!vars
  <2>1. Stage' = Stage
    BY <1>3, <1>a, <1>c, StageWithin, StageOfStep DEF LockToPush
  <2> QED
    BY <1>3, <2>1 DEF LockToPush, Channel!vars
<1>4. ASSUME NEW p \in Producers, Push(p) PROVE Channel!Next
  <2>1. Stage[p] = "called" /\ Stage' = [Stage EXCEPT ![p] = "effected"]
    BY <1>4, <1>a, <1>b, <1>c, StageOfMover, StageOfStep DEF Push
  <2>2. Len(queue) < Capacity
    BY <1>4, <1>a DEF Push, NeverPopsEmptyNorOverflows
  <2>3. Channel!Put(p)
    BY <1>4, <2>1, <2>2 DEF Push, Channel!Put
  <2> QED
    BY <2>3 DEF Channel!Next
<1>5. ASSUME NEW p \in Producers, UnlockPushed(p) PROVE UNCHANGED Channel!vars
  <2>1. Stage' = Stage
    BY <1>5, <1>a, <1>c, StageWithin, StageOfStep DEF UnlockPushed
  <2> QED
    BY <1>5, <2>1 DEF UnlockPushed, Channel!vars
<1>6. ASSUME NEW p \in Producers, SignalItem(p) PROVE Channel!Next
  <2>1. Stage[p] = "effected" /\ Stage' = [Stage EXCEPT ![p] = "idle"]
    BY <1>6, <1>a, <1>b, <1>c, StageOfMover, StageOfStep DEF SignalItem
  <2>2. Channel!Return(p)
    BY <1>6, <2>1 DEF SignalItem, Channel!Return
  <2> QED
    BY <2>2, <1>c DEF Channel!Next
<1>7. ASSUME NEW c \in Consumers, CallDequeue(c) PROVE Channel!Next
  <2>1. Stage[c] = "idle" /\ Stage' = [Stage EXCEPT ![c] = "called"]
    BY <1>7, <1>a, <1>b, <1>c, StageOfMover, StageOfStep DEF CallDequeue
  <2>2. Channel!CallGet(c)
    BY <1>7, <2>1 DEF CallDequeue, Channel!CallGet
  <2> QED
    BY <2>2 DEF Channel!Next
<1>8. ASSUME NEW c \in Consumers, WaitItem(c) PROVE UNCHANGED Channel!vars
  <2>1. Stage' = Stage
    BY <1>8, <1>a, <1>c, StageWithin, StageOfStep DEF WaitItem
  <2> QED
    BY <1>8, <2>1 DEF WaitItem, Channel!vars
<1>9. ASSUME NEW c \in Consumers, LockToPop(c) PROVE UNCHANGED Channel!vars
  <2>1. Stage' = Stage
    BY <1>9, <1>a, <1>c, StageWithin, StageOfStep DEF LockToPop
  <2> QED
    BY <1>9, <2>1 DEF LockToPop, Channel!vars
<1>10. ASSUME NEW c \in Consumers, Pop(c) PROVE Channel!Next
  <2>1. Stage[c] = "called" /\ Stage' = [Stage EXCEPT ![c] = "effected"]
    BY <1>10, <1>a, <1>b, <1>c, StageOfMover, StageOfStep DEF Pop
  <2>2. queue # << >>
    BY <1>10, <1>a DEF Pop, NeverPopsEmptyNorOverflows
  <2>3. Channel!Get(c)
    BY <1>10, <2>1, <2>2 DEF Pop, Channel!Get
  <2> QED
    BY <2>3 DEF Channel!Next
<1>11. ASSUME NEW c \in Consumers, UnlockPopped(c) PROVE UNCHANGED Channel!vars
  <2>1. Stage' = Stage
    BY <1>11, <1>a, <1>c, StageWithin, StageOfStep DEF UnlockPopped
  <2> QED
    BY <1>11, <2>1 DEF UnlockPopped, Channel!vars
<1>12. ASSUME NEW c \in Consumers, SignalSpace(c) PROVE Channel!Next
  <2>1. Stage[c] = "effected" /\ Stage' = [Stage EXCEPT ![c] = "idle"]
    BY <1>12, <1>a, <1>b, <1>c, StageOfMover, StageOfStep DEF SignalSpace
  <2>2. Channel!Return(c)
    BY <1>12, <2>1 DEF SignalSpace, Channel!Return
  <2> QED
    BY <2>2, <1>c DEF Channel!Next
<1>13. CASE UNCHANGED vars
  BY <1>13 DEF vars, Channel!vars, Stage
<1> QED
  BY <1>1, <1>2, <1>3, <1>4, <1>5, <1>6, <1>7, <1>8, <1>9, <1>10, <1>11, <1>12,
     <1>13
  DEF Next, InEnqueue, InDequeue

(* The queue of two semaphores and a mutex implements the bounded FIFO     *)
(* channel (Queue.hpp:12-66): each operation takes effect at one point     *)
(* between its call and its return, elements leave in the order in which   *)
(* they came, and none is lost or seen twice.                              *)
THEOREM Implementation == Spec => ImplementsChannel
<1>1. Init => Channel!Init
  BY StageOfStep DEF Init, Channel!Init, Channel!Threads, Threads, Stage
<1> QED
  BY <1>1, ChannelStep, Invariant, PTL DEF Spec, ImplementsChannel, Channel!Spec

====
