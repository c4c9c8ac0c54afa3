---- MODULE RequestService ----
(***************************************************************************)
(* What the server promises its clients, threads and queues aside: each    *)
(* request it accepts is answered once, with the result of every one of    *)
(* its queries, and the server does not end before that ("pending HTTP     *)
(* requests that are enqueued will be allowed to finish",                  *)
(* HttpServer.hpp:171-172).  ProductionLine implements this module when no *)
(* worker crashes.                                                         *)
(***************************************************************************)
EXTENDS Naturals

CONSTANTS Requests, Queries

VARIABLES
    phase,      \* of each request: "unseen", "live" (accepted), "answered"
    results,    \* the queries of each request that have been computed
    running     \* whether the server has not ended

vars == <<phase, results, running>>

Init ==
    /\ phase = [r \in Requests |-> "unseen"]
    /\ results = [r \in Requests |-> {}]
    /\ running = TRUE

Accept(r) ==
    /\ running /\ phase[r] = "unseen"
    /\ phase' = [phase EXCEPT ![r] = "live"]
    /\ UNCHANGED <<results, running>>

Compute(r, i) ==
    /\ phase[r] = "live"
    /\ i \notin results[r]
    /\ results' = [results EXCEPT ![r] = @ \cup {i}]
    /\ UNCHANGED <<phase, running>>

Answer(r) ==
    /\ running
    /\ \/ phase[r] = "live" /\ results[r] = 1 .. Queries[r]
       \/ phase[r] = "unseen" /\ Queries[r] = 0
    /\ phase' = [phase EXCEPT ![r] = "answered"]
    /\ UNCHANGED <<results, running>>

End ==
    /\ running
    /\ \A r \in Requests : phase[r] # "live"
    /\ running' = FALSE
    /\ UNCHANGED <<phase, results>>

Next ==
    \/ \E r \in Requests :
          Accept(r) \/ Answer(r) \/ \E i \in 1 .. Queries[r] : Compute(r, i)
    \/ End

Spec == Init /\ [][Next]_vars

====
