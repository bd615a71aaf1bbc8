--------------------------- MODULE MCGoalOwnership ---------------------------
(* Instances of GoalOwnership for TLC. *)
EXTENDS GoalOwnership

\* Worktrees of one repository, which are known by the names of their
\* directories.
OneIdentity == [r \in GoRepos |-> "host/owner/app"]
BaseNames == [r \in GoRepos |-> r]
=============================================================================
