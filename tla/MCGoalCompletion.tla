--------------------------- MODULE MCGoalCompletion ---------------------------
(* Instances of GoalCompletion for TLC. *)
EXTENDS GoalCompletion, TLC

(* Source identities are only compared with each other. *)
SourceSymmetry == Permutations(Sources)
=============================================================================
