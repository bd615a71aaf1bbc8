---------------------------- MODULE MCTaskClaims ----------------------------
(* Instances of TaskClaims for TLC. *)
EXTENDS TaskClaims

\* Every task depends on the ones created before it.
Chain == [t \in Tasks |-> {u \in Tasks : u < t}]
=============================================================================
