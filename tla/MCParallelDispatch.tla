------------------------- MODULE MCParallelDispatch -------------------------
(* Instances of ParallelDispatch for TLC. *)
EXTENDS ParallelDispatch

NoDependencies == [t \in Tasks |-> {}]
OneTwo == {<<1, 2>>}

\* The owner puts drafts and parked or failed tasks in the queue.
Enqueue == {"ready", "queued"}
=============================================================================
