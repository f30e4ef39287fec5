-------------------------- MODULE MCOperatorEngine --------------------------
(* Instances of OperatorEngine for TLC. *)
EXTENDS OperatorEngine

CONSTANTS w1, w2, r1

NoSkew == [w \in Workers |-> 0]

(* w2 runs where the clock is almost a minute fast. *)
AlmostMinuteSkew == [w \in Workers |-> IF w = w2 THEN Minute - 1 ELSE 0]
=============================================================================
