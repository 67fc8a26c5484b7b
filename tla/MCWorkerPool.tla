---------------------------- MODULE MCWorkerPool ----------------------------
(* A small instance of WorkerPool: a pool of two workers, one of which a   *)
(* stream may hold.                                                        *)
EXTENDS WorkerPool

CONSTANTS p1, a1, a2, s1, w1, w2

=============================================================================
