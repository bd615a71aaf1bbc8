------------------------------ MODULE MCGoals ------------------------------
(***************************************************************************)
(* What goals rest on, side by side: completion, cycles, ownership, the     *)
(* claims of their tasks, the writer fence, the learning queue and stores,  *)
(* capabilities, providers and routes, user state and skill bundles. They   *)
(* share no state here, so a behaviour is one of a single part, chosen at   *)
(* the start, while the others stay where they began: the run costs the sum *)
(* of their states, not the product.                                        *)
(***************************************************************************)
EXTENDS MCGoalCompletion, MCTaskClaims, MCGoalOwnership, GoalCycles, WriterFence,
        LearningQueue, LearningStores, CapabilityRegistry, ProviderStore, RouteLadder,
        UserStateActivation, SkillBundles

\* One Claude account and two Codex accounts, the first of them the default.
AccountProvider == [a \in RtAccounts |-> IF a = "claude" THEN "claude" ELSE "codex"]
AccountClass == [a \in RtAccounts |-> IF a = "claude" THEN "opus" ELSE "codex"]
AccountName == [a \in RtAccounts |-> CASE a = "claude" -> 1 [] a = "codex" -> 2 [] OTHER -> 3]
DefaultAccount == [p \in {"claude", "codex"} |-> p]

VARIABLE part

goalVars == <<vars, cyVars, goVars>>
workVars == <<dbvars, wfVars, cpVars>>
learningVars == <<lqVars, lsVars>>
providerVars == <<pvVars, rtVars>>
fileVars == <<acVars, skVars>>

\* A part that is not chosen, and has several initial states, is given one;
\* the bundles are interchangeable, so the first one is given too.
GoalsInit ==
  /\ part \in {"goal", "claims", "ownership", "cycles", "fence", "queue", "stores",
               "capability", "provider", "route", "activation",
               "skills"}
  /\ part # "route" => rtIn = CHOOSE i \in RtInputs : TRUE
  /\ part # "activation" => /\ acHad = [i \in 1..AcEntries |-> TRUE]
                            /\ acAbsent = [i \in 1..AcEntries |-> FALSE]
  /\ Init /\ DbInit /\ GoInit /\ CyInit /\ WfInit /\ LqInit /\ LsInit /\ CpInit
  /\ PvInit /\ RtInit /\ AcInit /\ SkInit
  /\ skCurrent = CHOOSE b \in SkBundles : TRUE
  /\ part # "goal" => task = "none" /\ source = CHOOSE s \in Sources : TRUE
  /\ part # "cycles" => cyGoal.auto = FALSE /\ cyGoal.text = CHOOSE t \in CyTexts : TRUE
  /\ part # "stores" => lsLegacy = FALSE

GoalPart ==
  \/ part = "goal" /\ Next /\ UNCHANGED <<cyVars, goVars>>
  \/ part = "cycles" /\ CyNext /\ UNCHANGED <<vars, goVars>>
  \/ part = "ownership" /\ GoNext /\ UNCHANGED <<vars, cyVars>>

WorkPart ==
  \/ part = "claims" /\ ClaimsNext /\ UNCHANGED <<wfVars, cpVars>>
  \/ part = "fence" /\ WfNext /\ UNCHANGED <<dbvars, cpVars>>
  \/ part = "capability" /\ CpNext /\ UNCHANGED <<dbvars, wfVars>>

LearningPart ==
  \/ part = "queue" /\ LqNext /\ UNCHANGED lsVars
  \/ part = "stores" /\ LsNext /\ UNCHANGED lqVars

ProviderPart ==
  \/ part = "provider" /\ PvNext /\ UNCHANGED rtVars
  \/ part = "route" /\ RtSelect /\ UNCHANGED pvVars

FilePart ==
  \/ part = "activation" /\ AcNext /\ UNCHANGED skVars
  \/ part = "skills" /\ SkNext /\ UNCHANGED acVars

GoalsNext ==
  /\ UNCHANGED part
  /\ \/ GoalPart /\ UNCHANGED <<workVars, learningVars, providerVars, fileVars>>
     \/ WorkPart /\ UNCHANGED <<goalVars, learningVars, providerVars, fileVars>>
     \/ LearningPart /\ UNCHANGED <<goalVars, workVars, providerVars, fileVars>>
     \/ ProviderPart /\ UNCHANGED <<goalVars, workVars, learningVars, fileVars>>
     \/ FilePart /\ UNCHANGED <<goalVars, workVars, learningVars, providerVars>>

\* In the configuration the two processes of every part are the same two model
\* values, which every part treats alike; sources are only compared.
GoalsSymmetry == Permutations(WfProcs) \cup SourceSymmetry

GoalsSpec ==
  GoalsInit /\ [][GoalsNext]_<<part, goalVars, workVars, learningVars, providerVars, fileVars>>
=============================================================================
