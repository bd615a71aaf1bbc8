------------------------------ MODULE MCUpkeep -------------------------------
(***************************************************************************)
(* What keeps an installation going, part beside part: releases, cleanup,   *)
(* the harness pin, staged fields, roadmap proposals, generated skills and  *)
(* the workstation bundle.                                                  *)
(* They share no state here, so a behaviour is one of a single part, chosen *)
(* at the start, while the others stay where they began.                    *)
(***************************************************************************)
EXTENDS ReleaseInstall, MachineCleanup, HarnessPin, StagedFields, RoadmapProposals,
        SkillLifecycle, MajorKernel, TLC

VARIABLE part

\* A part that is not chosen, and has several initial states, is given one.
UpkeepInit ==
  /\ part \in {"install", "cleanup", "pin", "fields", "roadmap", "skills", "kernel"}
  /\ InInit /\ McInit /\ PnInit /\ SfInit /\ RpInit /\ SlInit /\ KnInit
  /\ part # "install" => inLegacy = "gone"
  /\ part # "pin" => pnApp = 0
  /\ part # "kernel" => knRoute = "bad" /\ \A s \in KnSessions : knGoal[s] = InFirst

UpkeepNext ==
  /\ UNCHANGED part
  /\ \/ part = "install" /\ InNext /\ UNCHANGED <<mcVars, pnVars, sfVars, rpVars, slVars, knVars>>
     \/ part = "cleanup" /\ McNext /\ UNCHANGED <<inVars, pnVars, sfVars, rpVars, slVars, knVars>>
     \/ part = "pin" /\ PnNext /\ UNCHANGED <<inVars, mcVars, sfVars, rpVars, slVars, knVars>>
     \/ part = "fields" /\ SfNext /\ UNCHANGED <<inVars, mcVars, pnVars, rpVars, slVars, knVars>>
     \/ part = "roadmap" /\ RpNext /\ UNCHANGED <<inVars, mcVars, pnVars, sfVars, slVars, knVars>>
     \/ part = "skills" /\ SlNext /\ UNCHANGED <<inVars, mcVars, pnVars, sfVars, rpVars, knVars>>
     \/ part = "kernel" /\ KnNext /\ UNCHANGED <<inVars, mcVars, pnVars, sfVars, rpVars, slVars>>

\* In the configuration the two installers, cleaners, callers and loaders are the
\* same two model values, which every part treats alike.
UpkeepSymmetry == Permutations(SlProcs)

UpkeepSpec ==
  UpkeepInit /\ [][UpkeepNext]_<<part, inVars, mcVars, pnVars, sfVars, rpVars, slVars, knVars>>
=============================================================================
