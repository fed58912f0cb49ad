----------------------------- MODULE MCAutodeploy -----------------------------
(* Instances of Autodeploy for TLC. *)
EXTENDS Autodeploy, TLC

Symmetry == Permutations(Jobs)

EachOnce  == [k \in Chances |-> IF k = "xx" THEN 0 ELSE 1]
NoChances == [k \in Chances |-> 0]
=============================================================================
