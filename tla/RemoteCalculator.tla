---- MODULE RemoteCalculator ----
(***************************************************************************)
(* What the master counts on from the worker processes, each at the other  *)
(* end of a TCP connection: a worker takes the units that it is sent in    *)
(* order, answers each of them once, in any order, and once it has been    *)
(* told to stop answers what it holds, says so, and ends.  A worker that   *)
(* is not reliable may end at any point; TCP then loses what it had not    *)
(* read, and any end of what it had written.                               *)
(*                                                                         *)
(* This is a component of ProductionLine, which calls the first three      *)
(* operators from the master's threads.                                    *)
(***************************************************************************)
EXTENDS Naturals, Sequences

CONSTANTS
    Workers,    \* the processes started as "worker <ip> <port>"
    Unreliable, \* those that may crash
    Units,      \* the data units: queries to compute
    Stop        \* the line "-1", sent in either direction

VARIABLE remote \* state of each worker and of the two ends of its connection

WorkerStates == {"absent", "serving", "draining", "gone", "crashed"}

RemoteWorker ==
    [state  : WorkerStates,
     inbox  : Seq(Units \cup {Stop}),
     held   : SUBSET Units,
     outbox : Seq(Units \cup {Stop})]

RemoteType == remote \in [Workers -> RemoteWorker]

RemoteInit ==
    remote = [w \in Workers |->
                 [state |-> "absent", inbox |-> << >>, held |-> {}, outbox |-> << >>]]

Listens(w) == remote[w].state \in {"serving", "draining"}

----
(* The master's side of the connection.                                    *)

(* accept(), of a process that has called connectToMaster().               *)
Connect(w) ==
    /\ remote[w].state = "absent"
    /\ remote' = [remote EXCEPT ![w].state = "serving"]

(* Socket::send() of a message to each worker of W.  What a process that   *)
(* has ended is sent is lost, and Socket::send() says that it was sent: it *)
(* returns the -1 of ::send() as a bool.                                   *)
Send(W, message) ==
    remote' = [w \in Workers |->
                  IF w \in W /\ Listens(w)
                  THEN [remote[w] EXCEPT !.inbox = Append(@, message)]
                  ELSE remote[w]]

(* Socket::readLine() takes the oldest message.                            *)
Receive(w) == remote' = [remote EXCEPT ![w].outbox = Tail(@)]

----
(* The worker's own steps.                                                 *)

TakeUnit(w) ==
    /\ remote[w].state = "serving"
    /\ remote[w].inbox # << >>
    /\ Head(remote[w].inbox) # Stop
    /\ remote' = [remote EXCEPT ![w] =
           [remote[w] EXCEPT !.inbox = Tail(@), !.held = @ \cup {Head(remote[w].inbox)}]]

TakeStop(w) ==
    /\ remote[w].state = "serving"
    /\ remote[w].inbox # << >>
    /\ Head(remote[w].inbox) = Stop
    /\ remote' = [remote EXCEPT ![w] =
           [remote[w] EXCEPT !.inbox = Tail(@), !.state = "draining"]]

Answer(w, u) ==
    /\ Listens(w)
    /\ u \in remote[w].held
    /\ remote' = [remote EXCEPT ![w] =
           [remote[w] EXCEPT !.held = @ \ {u}, !.outbox = Append(@, u)]]

Leave(w) ==
    /\ remote[w].state = "draining"
    /\ remote[w].held = {}
    /\ remote' = [remote EXCEPT ![w] =
           [remote[w] EXCEPT !.outbox = Append(@, Stop), !.state = "gone"]]

Crash(w) ==
    /\ w \in Unreliable
    /\ Listens(w)
    /\ \E n \in 0 .. Len(remote[w].outbox) :
          remote' = [remote EXCEPT ![w] =
              [state |-> "crashed", inbox |-> << >>, held |-> {},
               outbox |-> SubSeq(remote[w].outbox, 1, n)]]

Works(w) == TakeUnit(w) \/ TakeStop(w) \/ Leave(w) \/ \E u \in Units : Answer(w, u)

====
