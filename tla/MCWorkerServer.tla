--------------------------- MODULE MCWorkerServer ---------------------------
(* TLC instance of WorkerServer: two workers facing arbitrary clients.     *)
EXTENDS WorkerServer
CONSTANTS p1, p2

\* Bound: p1 is the first worker, and while there is a second one at most one
\* client connects, to either.
OneClientOfTwo ==
  proc[p2] # "unused" =>
    proc[p1] # "unused" /\ Cardinality({c \in Conns : clientEnd[c] # "unused"}) <= 1
=============================================================================
