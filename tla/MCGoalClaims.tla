---------------------------- MODULE MCGoalClaims ----------------------------
(* Instances of GoalClaims for TLC. *)
EXTENDS GoalClaims, TLC

Symmetry == Permutations(Goal) \cup Permutations(Pid)
=============================================================================
