---------------------------- MODULE AtomicSwitch ----------------------------
(***************************************************************************)
(* What a transaction over installed files promises: it ends once, and what *)
(* it leaves behind is either everything as it was or everything replaced.  *)
(* The activation of user state is shown to implement it.                   *)
(***************************************************************************)
VARIABLES
  swState,  \* "old" or "new": what a reader finds once the transaction ended
  swOpen    \* the transaction has not ended

swVars == <<swState, swOpen>>

SwInit == swState = "old" /\ swOpen = TRUE

SwCommit == swOpen /\ swState' = "new" /\ swOpen' = FALSE
SwAbort == swOpen /\ swState' = swState /\ swOpen' = FALSE

SwSpec == SwInit /\ [][SwCommit \/ SwAbort]_swVars
=============================================================================
