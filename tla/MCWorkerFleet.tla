--------------------------- MODULE MCWorkerFleet ---------------------------
(* Instances of WorkerFleet for TLC.                                       *)
EXTENDS WorkerFleet
CONSTANTS w1, w2, d1, d2
=============================================================================
