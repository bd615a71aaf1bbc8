------------------------- MODULE CapabilityRegistry -------------------------
(***************************************************************************)
(* The capability registry (src/src/capabilities/registry.ts) and the       *)
(* Toolsmith that resolves the operations a goal needs (runtime.ts,         *)
(* resolveGoalCapabilities): a record of one capability key, its source     *)
(* revision, its verification artifact, and resolvers in several processes. *)
(* Every registry call is one database transaction; a resolver is not.      *)
(***************************************************************************)
EXTENDS Naturals

CONSTANTS CpProcs,        \* processes that resolve capabilities
          CpMaxRevision,  \* bound: revisions of the adapter's source
          CpMaxUses,      \* bound: recorded outcomes of each kind
          CpMaxCrashes    \* bound: resolvers that die

ASSUME CpAssumption == /\ CpMaxRevision \in Nat \ {0} /\ CpMaxUses \in Nat
                       /\ CpMaxCrashes \in Nat

VARIABLES
  cpRevision,  \* the revision of the source that is installed
  cpRec,       \* the row of capability_records
  cpProof,     \* the verification artifact the row names: source and outcome
  cpProc,      \* per resolver: where it is, the revision when it began, and
               \* (history) whether a reviewer's validation came in meanwhile
  cpHanded,    \* per resolver: the revision of the capability it returned
  cpCrashes

cpVars == <<cpRevision, cpRec, cpProof, cpProc, cpHanded, cpCrashes>>

CpStatuses == {"none", "provisional", "validated", "preferred", "degraded", "blocked",
               "deprecated"}
CpUsable == {"validated", "preferred"}
CpWithdrawn == {"degraded", "blocked", "deprecated"}
CpNoProof == [source |-> 0, passed |-> FALSE]
CpNoUse == [pc |-> "idle", began |-> 0, raced |-> FALSE]

CpInit == /\ cpRevision = 1
          /\ cpRec = [st |-> "none", source |-> 0, good |-> 0, bad |-> 0]
          /\ cpProof = CpNoProof
          /\ cpProc = [p \in CpProcs |-> CpNoUse]
          /\ cpHanded = [p \in CpProcs |-> 0]
          /\ cpCrashes = 0

CpGo(p, pc) == cpProc' = [cpProc EXCEPT ![p].pc = pc]
\* planCapabilityAcquisition finds a usable row whose artifact passed for the
\* row's own source.
CpReusable == cpRec.st \in CpUsable /\ cpProof = [source |-> cpRec.source, passed |-> TRUE]

\* The installed runtime, and with it the adapter's source, is replaced.
CpNewRevision ==
  /\ cpRevision < CpMaxRevision
  /\ cpRevision' = cpRevision + 1
  /\ UNCHANGED <<cpRec, cpProof, cpProc, cpHanded, cpCrashes>>

\* Slip: a changed source does not withdraw the row.
CpWithdraw_Trusts(p) ==
  /\ cpProc[p].pc = "idle"
  /\ IF cpRec.st \in CpUsable /\ cpRec.source > cpRevision
     THEN cpRec' = [cpRec EXCEPT !.st = "degraded"] /\ cpProof' = CpNoProof
     ELSE UNCHANGED <<cpRec, cpProof>>
  /\ cpProc' = [cpProc EXCEPT ![p] = [pc |-> "plan", began |-> cpRevision, raced |-> FALSE]]
  /\ cpHanded' = [cpHanded EXCEPT ![p] = 0]
  /\ UNCHANGED <<cpRevision, cpCrashes>>

\* A resolver starts: invalidateCapabilitySource withdraws a usable row whose
\* source is no longer the installed one.
CpWithdraw(p) ==
  /\ cpProc[p].pc = "idle"
  /\ IF cpRec.st \in CpUsable /\ cpRec.source # cpRevision
     THEN cpRec' = [cpRec EXCEPT !.st = "degraded"] /\ cpProof' = CpNoProof
     ELSE UNCHANGED <<cpRec, cpProof>>
  /\ cpProc' = [cpProc EXCEPT ![p] = [pc |-> "plan", began |-> cpRevision, raced |-> FALSE]]
  /\ cpHanded' = [cpHanded EXCEPT ![p] = 0]
  /\ UNCHANGED <<cpRevision, cpCrashes>>

\* The plan: reuse; or provision the discovered candidate, unless its key is
\* registered and active; or a checkpoint.
CpPlan(p) ==
  /\ cpProc[p].pc = "plan"
  /\ \/ /\ CpReusable
        /\ cpHanded' = [cpHanded EXCEPT ![p] = cpRec.source]
        /\ CpGo(p, "idle")
     \/ /\ ~CpReusable /\ cpRec.st \in CpWithdrawn \cup {"none"}
        /\ CpGo(p, "provision")
        /\ UNCHANGED cpHanded
     \/ /\ ~CpReusable /\ cpRec.st \notin CpWithdrawn \cup {"none"}
        /\ CpGo(p, "idle")
        /\ UNCHANGED cpHanded
  /\ UNCHANGED <<cpRevision, cpRec, cpProof, cpCrashes>>

\* provisionCapability: a new row, or a withdrawn row with a new source; the
\* counters of a replaced source stay. The same source is refused.
CpProvision(p) ==
  /\ cpProc[p].pc = "provision"
  /\ \/ /\ cpRec.st = "none" \/ (cpRec.st \in CpWithdrawn /\ cpRec.source # cpRevision)
        /\ cpRec' = [cpRec EXCEPT !.st = "provisional", !.source = cpRevision]
        /\ cpProof' = CpNoProof
        /\ CpGo(p, "verify")
     \/ /\ cpRec.st # "none" /\ (cpRec.st \notin CpWithdrawn \/ cpRec.source = cpRevision)
        /\ CpGo(p, "idle")
        /\ UNCHANGED <<cpRec, cpProof>>
  /\ UNCHANGED <<cpRevision, cpHanded, cpCrashes>>

\* validateDiscoveredCapability: the row must still be provisional and its
\* source the installed one; the verifier writes its artifact either way.
CpVerify(p) ==
  /\ cpProc[p].pc = "verify" /\ cpRec.st = "provisional" /\ cpRec.source = cpRevision
  /\ \E passed \in BOOLEAN :
       /\ cpProof' = [source |-> cpRec.source, passed |-> passed]
       /\ cpRec' = [cpRec EXCEPT !.st = IF passed THEN "validated" ELSE "blocked"]
       /\ cpHanded' = IF passed THEN [cpHanded EXCEPT ![p] = cpRec.source] ELSE cpHanded
  /\ CpGo(p, "idle")
  /\ UNCHANGED <<cpRevision, cpCrashes>>

\* An error of the verification: blockCapabilityVerification, if the row is
\* still provisional; otherwise the resolution fails.
CpVerifyFails(p) ==
  /\ cpProc[p].pc = "verify"
  /\ cpRec' = IF cpRec.st = "provisional" THEN [cpRec EXCEPT !.st = "blocked"] ELSE cpRec
  /\ CpGo(p, "idle")
  /\ UNCHANGED <<cpRevision, cpProof, cpHanded, cpCrashes>>

\* validateCapability: an independent reviewer with a passed verification run.
CpValidate ==
  /\ cpRec.st = "provisional"
  /\ \E passed \in BOOLEAN :
       /\ cpProof' = [source |-> cpRec.source, passed |-> passed]
       /\ cpRec' = [cpRec EXCEPT !.st = IF passed THEN "validated" ELSE "blocked"]
  /\ cpProc' = [p \in CpProcs |-> [cpProc[p] EXCEPT !.raced = @ \/ cpProc[p].pc # "idle"]]
  /\ UNCHANGED <<cpRevision, cpHanded, cpCrashes>>

\* recordCapabilityOutcome: the second failure degrades the row.
CpOutcome(good) ==
  /\ cpRec.st \in CpUsable \cup {"degraded"}
  /\ IF good THEN cpRec.good < CpMaxUses ELSE cpRec.bad < CpMaxUses
  /\ cpRec' = IF good THEN [cpRec EXCEPT !.good = @ + 1]
              ELSE [cpRec EXCEPT !.bad = @ + 1,
                                 !.st = IF cpRec.bad + 1 >= 2 THEN "degraded" ELSE @]
  /\ UNCHANGED <<cpRevision, cpProof, cpProc, cpHanded, cpCrashes>>

CpPrefer ==
  /\ cpRec.st = "validated" /\ cpRec.good >= 2 /\ cpRec.bad = 0
  /\ cpRec' = [cpRec EXCEPT !.st = "preferred"]
  /\ UNCHANGED <<cpRevision, cpProof, cpProc, cpHanded, cpCrashes>>

\* deprecateCapability: by hand, or the retention of old provisional rows.
CpDeprecate ==
  /\ cpRec.st # "none"
  /\ cpRec' = [cpRec EXCEPT !.st = "deprecated"]
  /\ UNCHANGED <<cpRevision, cpProof, cpProc, cpHanded, cpCrashes>>

CpCrash(p) ==
  /\ cpProc[p].pc # "idle" /\ cpCrashes < CpMaxCrashes
  /\ cpCrashes' = cpCrashes + 1
  /\ CpGo(p, "idle")
  /\ UNCHANGED <<cpRevision, cpRec, cpProof, cpHanded>>

CpNext == \/ CpNewRevision \/ CpValidate \/ CpPrefer \/ CpDeprecate
          \/ \E good \in BOOLEAN : CpOutcome(good)
          \/ \E p \in CpProcs : \/ CpWithdraw(p) \/ CpPlan(p) \/ CpProvision(p) \/ CpVerify(p)
                                \/ CpVerifyFails(p) \/ CpCrash(p)

CpSpec == CpInit /\ [][CpNext]_cpVars
-----------------------------------------------------------------------------
\* Row, artifact and resolvers have their types; only a row has a source.
CpTypeOK ==
  /\ cpRevision \in 1..CpMaxRevision /\ cpCrashes \in 0..CpMaxCrashes
  /\ cpRec \in [st : CpStatuses, source : 0..CpMaxRevision, good : 0..CpMaxUses, bad : 0..CpMaxUses]
  /\ (cpRec.st = "none") = (cpRec.source = 0)
  /\ cpProof \in [source : 0..CpMaxRevision, passed : BOOLEAN]
  /\ cpHanded \in [CpProcs -> 0..CpMaxRevision]

\* A capability is usable only with a verification that passed for the very
\* source the row names: replacing the source, withdrawing it and racing
\* verifiers never leave an old proof in force (registry.ts:225).
CpUsableIsProved ==
  cpRec.st \in CpUsable => cpProof = [source |-> cpRec.source, passed |-> TRUE]

\* "Source-content drift withdraws reuse before a new revision is provisioned"
\* (registry.ts:565): a resolver never returns a capability of an older source
\* than the one installed when it began, whatever other resolvers do meanwhile;
\* only a reviewer who validates an outdated provisional row at that moment
\* (registry.ts:371 does not look at the installed source) gets in between.
CpHandedIsCurrent ==
  \A p \in CpProcs : cpHanded[p] # 0 /\ ~cpProc[p].raced => cpHanded[p] >= cpProc[p].began

\* A capability is used only on a proof of its present source: the parts above.
CpSafe == CpTypeOK /\ CpUsableIsProved /\ CpHandedIsCurrent

-----------------------------------------------------------------------------
(* The inductive invariant of the proofs *)

CpUse == [pc : {"idle", "plan", "provision", "verify"}, began : 0..CpMaxRevision, raced : BOOLEAN]

\* A resolver began at a revision that was installed then.
CpBegan == cpProc \in [CpProcs -> CpUse] /\ \A p \in CpProcs : cpProc[p].began <= cpRevision

\* From the withdrawal to the plan nothing but a reviewer makes an older source
\* usable again.
CpPlanned == \A p \in CpProcs :
  cpProc[p].pc = "plan" /\ ~cpProc[p].raced /\ cpRec.st \in CpUsable => cpRec.source >= cpProc[p].began

CpInv == CpSafe /\ CpBegan /\ CpPlanned
=============================================================================
