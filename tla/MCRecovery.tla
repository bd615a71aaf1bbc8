----------------------------- MODULE MCRecovery -----------------------------
(***************************************************************************)
(* A goal's completion, the execution gateway and the store lock side by    *)
(* side, with their fairness. A behaviour is one of a single part, chosen   *)
(* at the start, while the others stay where they began.                    *)
(***************************************************************************)
EXTENDS MCGoalCompletion, ExecutionGateway, MCStoreLock

VARIABLE part

\* A part that is not chosen, and has several initial states, is given one.
RecoveryInit ==
  /\ part \in {"goal", "gateway", "lock"}
  /\ Init /\ GwInit /\ LockInit
  /\ part # "goal" => task = "none" /\ source = CHOOSE s \in Sources : TRUE
  /\ part # "gateway" => gwActivated = FALSE

RecoveryNext ==
  \/ part = "goal" /\ Next /\ UNCHANGED <<part, gwVars, lockVars>>
  \/ part = "gateway" /\ GwNext /\ UNCHANGED <<part, vars, lockVars>>
  \/ part = "lock" /\ LockNext /\ UNCHANGED <<part, vars, gwVars>>

\* A process that has started a cycle or a grade runs on unless it crashes, the
\* daemon keeps starting cycles, the watcher of an execution looks again and
\* again, and a provider it cancels ends.
RecoveryFairness ==
  /\ \A p \in Procs : WF_vars(part = "goal" /\ Run(p))
  /\ \A p \in Daemons : WF_vars(part = "goal" /\ StartCycle(p))
  /\ \A e \in GwExecs : /\ WF_gwVars(part = "gateway" /\ GwWatch(e))
                        /\ WF_gwVars(part = "gateway" /\ gwExec[e].cancelled /\ GwExit(e))

RecoverySpec == /\ RecoveryInit
                /\ [][RecoveryNext]_<<part, vars, gwVars, lockVars>>
                /\ RecoveryFairness
=============================================================================
