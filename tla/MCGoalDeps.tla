----------------------------- MODULE MCGoalDeps -----------------------------
(* Instances of GoalDeps for TLC. *)
EXTENDS GoalDeps, TLC

CONSTANTS g1, g2, g3

(* g3 needs two goals that do not know each other. *)
Join == g1 :> {} @@ g2 :> {} @@ g3 :> {g1, g2}

(* One goal that needs another. *)
Chain == g1 :> {} @@ g2 :> {g1}

Symmetry == Permutations(Call)
=============================================================================
