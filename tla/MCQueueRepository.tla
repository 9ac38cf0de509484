-------------------------- MODULE MCQueueRepository --------------------------
(* Instances of QueueRepository for TLC. *)
EXTENDS QueueRepository, TLC

CONSTANTS k1, a, b

Symmetric == Permutations(Workers)
=============================================================================
