----------------------------- MODULE MCRulesAPI -----------------------------
(* Instances of RulesAPI for TLC. *)
EXTENDS RulesAPI, TLC

CONSTANTS t1, t2

ThreadSymmetry == Permutations(Threads)
=============================================================================
