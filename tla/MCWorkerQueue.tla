---------------------------- MODULE MCWorkerQueue ----------------------------
(* Instances of WorkerQueue for TLC. *)
EXTENDS WorkerQueue, TLC

CONSTANTS r1, r2, h1, h2

(* Run ids and payload hashes are only compared for equality. *)
Interchangeable == Permutations({r1, r2}) \cup Permutations({h1, h2})
=============================================================================
