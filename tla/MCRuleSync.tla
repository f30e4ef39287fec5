----------------------------- MODULE MCRuleSync -----------------------------
(* Instances of RuleSync for TLC. *)
EXTENDS RuleSync

CONSTANTS w1, w2, w3, p1, p2

TwoProcesses == [w \in Workers |-> IF w = w2 THEN p2 ELSE p1]
OneProcess == [w \in Workers |-> p1]

(* Any caller may pass a rule that is removed: the force handlers read back
   what is stored, and addRule leaves the Removed of its request as it is. *)
AnyCall == [force : BOOLEAN, removed : BOOLEAN]
LiveRules == [force : BOOLEAN, removed : {FALSE}]

(* The lease itself tells nothing of the Removed of a rule. *)
UnforcedLive == [force : {FALSE}, removed : {FALSE}]
=============================================================================
