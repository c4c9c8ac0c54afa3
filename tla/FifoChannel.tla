---- MODULE FifoChannel ----
(***************************************************************************)
(* What Queue<DataType> promises the threads that share it, without a      *)
(* semaphore or a mutex: a FIFO channel of bounded capacity.  An operation *)
(* is called, takes effect in one atomic step between its call and its     *)
(* return, and returns; a put blocks while the channel is full and a get   *)
(* while it is empty.  BoundedQueue implements this module, and the        *)
(* production lines use its Put and Get as single steps.                   *)
(***************************************************************************)
EXTENDS Naturals, Sequences

CONSTANTS Producers, Consumers, Data, Capacity, NoData

VARIABLES
    channel,    \* the elements put and not yet got, oldest first
    stage,      \* of each thread's operation: "idle", "called" or "effected"
    value       \* the datum a thread is putting, or the one it got

vars == <<channel, stage, value>>

Threads == Producers \cup Consumers

Init ==
    /\ channel = << >>
    /\ stage = [t \in Threads |-> "idle"]
    /\ value = [t \in Threads |-> NoData]

CallPut(p, d) ==
    /\ stage[p] = "idle"
    /\ stage' = [stage EXCEPT ![p] = "called"]
    /\ value' = [value EXCEPT ![p] = d]
    /\ UNCHANGED channel

Put(p) ==
    /\ stage[p] = "called"
    /\ Len(channel) < Capacity
    /\ channel' = Append(channel, value[p])
    /\ stage' = [stage EXCEPT ![p] = "effected"]
    /\ UNCHANGED value

CallGet(c) ==
    /\ stage[c] = "idle"
    /\ stage' = [stage EXCEPT ![c] = "called"]
    /\ UNCHANGED <<channel, value>>

Get(c) ==
    /\ stage[c] = "called"
    /\ channel # << >>
    /\ value' = [value EXCEPT ![c] = Head(channel)]
    /\ channel' = Tail(channel)
    /\ stage' = [stage EXCEPT ![c] = "effected"]

Return(t) ==
    /\ stage[t] = "effected"
    /\ stage' = [stage EXCEPT ![t] = "idle"]
    /\ value' = [value EXCEPT ![t] = NoData]
    /\ UNCHANGED channel

Next ==
    \/ \E p \in Producers : Put(p) \/ \E d \in Data : CallPut(p, d)
    \/ \E c \in Consumers : CallGet(c) \/ Get(c)
    \/ \E t \in Threads : Return(t)

Spec == Init /\ [][Next]_vars

====
