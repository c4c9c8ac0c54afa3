---- MODULE MCBoundedQueue ----
(***************************************************************************)
(* BoundedQueue for TLC: two threads on each side, so that producers race  *)
(* producers, consumers race consumers, and each side the other, over a    *)
(* queue of two places that can be empty, partly filled and full.          *)
(***************************************************************************)
EXTENDS BoundedQueue

CONSTANTS p1, p2, c1, c2, d1, d2

MCProducers == {p1, p2}
MCConsumers == {c1, c2}
MCData == {d1, d2}

====
