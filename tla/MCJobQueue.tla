---------------------------- MODULE MCJobQueue ----------------------------
(* JobQueue for TLC: worker processes and their tokens are interchangeable. *)
EXTENDS JobQueue, TLC

WorkerSymmetry == Permutations(Worker) \cup Permutations(Token)
=============================================================================
