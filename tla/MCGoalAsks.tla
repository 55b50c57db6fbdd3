----------------------------- MODULE MCGoalAsks -----------------------------
(* An instance of GoalAsks for TLC. *)
EXTENDS GoalAsks, TLC

Interchangeable == Permutations(Goal) \cup Permutations(Ask) \cup Permutations(Caller)
=============================================================================
