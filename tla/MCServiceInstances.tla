------------------------- MODULE MCServiceInstances -------------------------
(* Instances of ServiceInstances for TLC. *)
EXTENDS ServiceInstances, TLC

CONSTANTS t1, t2

(* Requests are interchangeable: a thread has no state while it is idle. *)
ThreadSymmetry == Permutations(Threads)
=============================================================================
