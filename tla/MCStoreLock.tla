----------------------------- MODULE MCStoreLock -----------------------------
(* Small instances of StoreLock for TLC. *)
EXTENDS StoreLock, TLC

ProcsSymmetry == Permutations(LockProcs)
=============================================================================
