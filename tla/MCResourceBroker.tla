-------------------------- MODULE MCResourceBroker --------------------------
(* Small instances of ResourceBroker for TLC. *)
EXTENDS ResourceBroker, TLC

\* One megabyte of headroom per percent above the floor: 26 percent gives one
\* slot of each kind, 27 percent two workers.
MCEstimate == [k \in Kinds |-> IF k = "worker" THEN 1 ELSE 2]
WorkerOnly == {[kind |-> "worker", fenced |-> TRUE]}
TwoKinds == {[kind |-> "worker", fenced |-> TRUE], [kind |-> "build", fenced |-> FALSE]}
OwnersSymmetry == Permutations(Owners)
=============================================================================
