--------------------------- MODULE ExecutionGateway ---------------------------
(***************************************************************************)
(* Who may execute, and until when (security/major-gateway.ts, gateway.ts, *)
(* staged-validation.ts, supervised-workshop.ts, the gateway call of       *)
(* supervisor/worker.ts, domain/decision-service.ts, the kill switch of    *)
(* supervisor/policy.ts).  An execution is admitted under one of three     *)
(* authorities: plain supervision, an expiring Workshop session, or a      *)
(* one-use staged-validation lease; watchers cancel it when its authority  *)
(* goes away.  Checks and starts are separate steps, so every authority    *)
(* can change in between.  Every name carries the prefix Gw.               *)
(***************************************************************************)
EXTENDS Naturals, FiniteSets

CONSTANTS
  GwExecs,      \* executions, one call of executeMajorCommand each
  GwLeases,     \* staged-validation leases
  GwDecisions,  \* one-use owner approvals of provider actions
  GwSessions,   \* Workshop sessions, numbered in the order they are opened
  GwExpiry,     \* when leases, sessions and approvals expire
  GwMaxTime,    \* bound on the clock
  GwActivated,  \* builds to consider: is live-agent-execution available?
  GwExpects,    \* endings a staged field may ask of its run
  GwNone

ASSUME GwAssumption ==
  /\ GwExpiry \in Nat /\ GwMaxTime \in Nat
  /\ GwSessions \subseteq Nat \ {0}
  /\ GwActivated \subseteq BOOLEAN
  /\ GwExpects \subseteq {"succeeded", "cancelled"}
  /\ GwNone \notin GwExecs \cup GwLeases \cup GwDecisions

VARIABLES
  gwActivated, \* the build's capability constant
  gwExpect,    \* lease -> expectedExecutionStatus
  gwNow,       \* the clock
  gwStop,      \* the kill switch file exists
  gwSession,   \* the latest active Workshop session, 0 for none
  gwOpened,    \* how many sessions were opened
  gwLease,     \* lease -> status
  gwDecision,  \* approval -> status
  gwExec,      \* execution -> where its call is
  gwStarted,   \* history: lease -> executions that started under it
  gwWitness,   \* history: leases whose execution ended as expected before they expired
  gwUses       \* history: approval -> executions it was consumed for

gwVars == <<gwActivated, gwExpect, gwNow, gwStop, gwSession, gwOpened, gwLease, gwDecision,
            gwExec, gwStarted, gwWitness, gwUses>>

gwWorld == <<gwActivated, gwNow, gwStop, gwSession, gwOpened>>

gwHistory == <<gwStarted, gwWitness, gwUses>>

GwLive == {"issued", "admitted", "running", "validating"}

GwLeaseStates == {"none"} \cup GwLive \cup {"succeeded", "failed", "cancelled", "expired"}

GwIdleExec ==
  [pc |-> "idle", kind |-> "plain", lease |-> GwNone, session |-> 0, host |-> FALSE,
   needs |-> GwNone, fenced |-> FALSE, cancelled |-> FALSE, outcome |-> "none"]

GwAt(e, step) == gwExec[e].pc = step

GwGoto(e, step) == gwExec' = [gwExec EXCEPT ![e].pc = step]

\* runGatewayCommand returns what the call returned or threw; nothing else is left of it.
GwEnd(e) == gwExec' = [gwExec EXCEPT ![e] = [GwIdleExec EXCEPT !.pc = "done"]]

GwInit ==
  /\ gwActivated \in GwActivated
  /\ gwNow = 0 /\ gwStop = FALSE /\ gwSession = 0 /\ gwOpened = 0
  /\ gwLease = [l \in GwLeases |-> "none"]
  /\ gwExpect = [l \in GwLeases |-> "none"]
  /\ gwDecision = [d \in GwDecisions |-> "open"]
  /\ gwExec = [e \in GwExecs |-> GwIdleExec]
  /\ gwStarted = [l \in GwLeases |-> {}]
  /\ gwWitness = {}
  /\ gwUses = [d \in GwDecisions |-> {}]

(***************************************************************************)
(* The leases' own operations.                                             *)
(***************************************************************************)

\* recoverStaleValidationLeases: live leases strictly past their expiry.
GwRecovered(leases) ==
  [l \in GwLeases |-> IF leases[l] \in GwLive /\ GwExpiry < gwNow THEN "expired" ELSE leases[l]]

\* issueStagedValidationLease, in a build without live-agent-execution; the table has room for
\* one live lease.
GwIssue(l) ==
  /\ ~gwActivated
  /\ \A k \in GwLeases : GwRecovered(gwLease)[k] \notin GwLive
  /\ gwLease[l] = "none" /\ gwNow < GwExpiry
  /\ gwLease' = [GwRecovered(gwLease) EXCEPT ![l] = "issued"]
  /\ \E status \in GwExpects : gwExpect' = [gwExpect EXCEPT ![l] = status]
  /\ UNCHANGED <<gwWorld, gwDecision, gwExec, gwHistory>>

GwRecover ==
  /\ GwRecovered(gwLease) # gwLease
  /\ gwLease' = GwRecovered(gwLease)
  /\ UNCHANGED <<gwWorld, gwExpect, gwDecision, gwExec, gwHistory>>

\* revokeStagedValidationLease by the owner.
GwRevoke(l) ==
  /\ gwLease[l] \in GwLive
  /\ gwLease' = [gwLease EXCEPT ![l] = "cancelled"]
  /\ UNCHANGED <<gwWorld, gwExpect, gwDecision, gwExec, gwHistory>>

\* completeStaged...Field and terminalizeStagedValidationEvidence.
GwTerminalize(l) ==
  /\ gwLease[l] = "validating" /\ gwNow < GwExpiry
  /\ gwLease' = [gwLease EXCEPT ![l] = "succeeded"]
  /\ UNCHANGED <<gwWorld, gwExpect, gwDecision, gwExec, gwHistory>>

(***************************************************************************)
(* The owner: approvals, Workshop sessions, kill switch.                   *)
(***************************************************************************)

\* resolveDecision; approvals past their expiry do not authorise.
GwResolveDecision(d, status) ==
  /\ gwDecision[d] = "open"
  /\ gwDecision' = [gwDecision EXCEPT ![d] = status]
  /\ UNCHANGED <<gwWorld, gwExpect, gwLease, gwExec, gwHistory>>

\* expireStaleDecisions: open decisions at or past their expiry.
GwExpireDecision(d) ==
  /\ gwDecision[d] = "open" /\ GwExpiry <= gwNow
  /\ gwDecision' = [gwDecision EXCEPT ![d] = "expired"]
  /\ UNCHANGED <<gwWorld, gwExpect, gwLease, gwExec, gwHistory>>

\* A session of a project whose policy is build, owner-approved and without background.
GwOpenSession ==
  /\ gwOpened + 1 \in GwSessions
  /\ gwOpened' = gwOpened + 1 /\ gwSession' = gwOpened + 1
  /\ UNCHANGED <<gwActivated, gwExpect, gwNow, gwStop, gwLease, gwDecision, gwExec, gwHistory>>

\* The session is revoked, or the project's policy stops allowing it.
GwEndSession ==
  /\ gwSession # 0
  /\ gwSession' = 0
  /\ UNCHANGED <<gwActivated, gwExpect, gwNow, gwStop, gwOpened, gwLease, gwDecision, gwExec, gwHistory>>

GwToggleStop ==
  /\ gwStop' = ~gwStop
  /\ UNCHANGED <<gwActivated, gwExpect, gwNow, gwSession, gwOpened, gwLease, gwDecision, gwExec, gwHistory>>

GwTick ==
  /\ gwNow < GwMaxTime
  /\ gwNow' = gwNow + 1
  /\ UNCHANGED <<gwActivated, gwExpect, gwStop, gwSession, gwOpened, gwLease, gwDecision, gwExec, gwHistory>>

\* The broker takes the worker lease of a running call away (expiry, reclaim).
GwLoseFence(e) ==
  /\ gwExec[e].fenced
  /\ gwExec' = [gwExec EXCEPT ![e].fenced = FALSE]
  /\ UNCHANGED <<gwWorld, gwExpect, gwLease, gwDecision, gwHistory>>

(***************************************************************************)
(* One execution.                                                          *)
(***************************************************************************)

\* runGatewayCommand looks at the kill switch before it calls the gateway.
GwAsk(e, host, needs) ==
  /\ GwAt(e, "idle") /\ ~gwStop
  /\ host => needs = GwNone  \* only the backend path looks at approvals
  /\ gwExec' = [gwExec EXCEPT ![e] = [GwIdleExec EXCEPT !.pc = "asked", !.host = host,
                                                        !.needs = needs, !.fenced = TRUE]]
  /\ UNCHANGED <<gwWorld, gwExpect, gwLease, gwDecision, gwHistory>>

\* resolveSupervisedWorkshopAuthority: what the current session authorises.
GwSessionValid == ~gwStop /\ gwSession # 0 /\ gwNow < GwExpiry

\* executeMajorCommand without a staged authority: the Workshop session if there is one,
\* otherwise plain supervision if the build has it; either way a fenced worker lease.
GwResolve(e) ==
  /\ GwAt(e, "asked")
  /\ IF gwExec[e].fenced /\ (GwSessionValid \/ gwActivated)
       THEN gwExec' = [gwExec EXCEPT ![e].pc = "checked",
                         ![e].kind = IF GwSessionValid THEN "workshop" ELSE "plain",
                         ![e].session = IF GwSessionValid THEN gwSession ELSE 0]
       ELSE GwEnd(e)
  /\ UNCHANGED <<gwWorld, gwExpect, gwLease, gwDecision, gwHistory>>

\* admitStagedValidationLease takes an issued lease, once and before it expires.
GwAdmissible(l) == gwLease[l] = "issued" /\ gwNow < GwExpiry

\* executeMajorCommand with a staged authority that matches its lease, release and enclave.
GwAdmit(e, l) ==
  /\ GwAt(e, "asked") /\ ~gwExec[e].host
  /\ IF ~gwStop /\ gwExec[e].fenced /\ GwAdmissible(l)
       THEN /\ gwExec' = [gwExec EXCEPT ![e].pc = "checked", ![e].kind = "staged", ![e].lease = l]
            /\ gwLease' = [gwLease EXCEPT ![l] = "admitted"]
       ELSE GwEnd(e) /\ UNCHANGED gwLease
  /\ UNCHANGED <<gwWorld, gwExpect, gwDecision, gwHistory>>

\* The gateway or the backend refused: an admitted lease is revoked, which itself throws
\* when somebody else has closed it.
GwRevokeAdmitted(e) ==
  gwLease' = IF gwExec[e].lease # GwNone /\ gwLease[gwExec[e].lease] \in GwLive
               THEN [gwLease EXCEPT ![gwExec[e].lease] = "cancelled"] ELSE gwLease

\* consumeApprovedDecision: an approved, unexpired decision nobody has consumed.
GwUsable(d) == gwDecision[d] = "approved" /\ gwNow < GwExpiry

\* ExecutionGateway.execute on the host path: containment is applied, approvals play no part.
GwPassHost(e) ==
  /\ GwAt(e, "checked") /\ gwExec[e].host
  /\ GwGoto(e, "passed")
  /\ UNCHANGED <<gwWorld, gwExpect, gwLease, gwDecision, gwHistory>>

\* ExecutionGateway.execute up to the backend: roots, command policy, guest mutation policy,
\* environment, and the approval the request needs, if it needs one.
GwPassBackend(e) ==
  /\ GwAt(e, "checked") /\ ~gwExec[e].host
  /\ IF gwExec[e].needs = GwNone
       THEN UNCHANGED <<gwDecision, gwUses>>
       ELSE /\ GwUsable(gwExec[e].needs)
            /\ gwDecision' = [gwDecision EXCEPT ![gwExec[e].needs] = "consumed"]
            /\ gwUses' = [gwUses EXCEPT ![gwExec[e].needs] = @ \cup {e}]
  /\ gwExec' = [gwExec EXCEPT ![e].pc = "passed", ![e].needs = GwNone]
  /\ UNCHANGED <<gwWorld, gwExpect, gwLease, gwStarted, gwWitness>>

\* One of the static checks refuses: roots, paths in the arguments, the environment's
\* authorisation, policy, a missing approval.
GwRefuse(e) ==
  /\ GwAt(e, "checked")
  /\ GwRevokeAdmitted(e)
  /\ GwEnd(e)
  /\ UNCHANGED <<gwWorld, gwExpect, gwDecision, gwHistory>>

\* assertSupervisedWorkshopAuthority: still the very session the call resolved.
GwSameSession(e) == GwSessionValid /\ gwSession = gwExec[e].session

\* consumeStagedValidationExecution: admitted and unexpired.
GwConsumable(l) == gwLease[l] = "admitted" /\ gwNow < GwExpiry

\* What LimaBackend.execute checks again before it runs anything; the host path checks
\* nothing again.
GwStartable(e) ==
  \/ gwExec[e].host
  \/ gwExec[e].kind = "plain" /\ gwActivated
  \/ gwExec[e].kind = "workshop" /\ GwSameSession(e) /\ gwExec[e].fenced
  \/ gwExec[e].kind = "staged" /\ ~gwStop /\ GwConsumable(gwExec[e].lease)

\* A lease is consumed before its resource lease is looked at: losing the fence by then
\* throws with the lease already running, and the revocation closes it.
GwStart(e) ==
  /\ GwAt(e, "passed")
  /\ IF GwStartable(e) /\ (gwExec[e].kind = "staged" => gwExec[e].fenced)
       THEN /\ GwGoto(e, "running")
            /\ gwLease' = IF gwExec[e].kind = "staged"
                            THEN [gwLease EXCEPT ![gwExec[e].lease] = "running"] ELSE gwLease
            /\ gwStarted' = IF gwExec[e].kind = "staged"
                            THEN [gwStarted EXCEPT ![gwExec[e].lease] = @ \cup {e}] ELSE gwStarted
       ELSE GwEnd(e) /\ GwRevokeAdmitted(e) /\ UNCHANGED gwStarted
  /\ UNCHANGED <<gwWorld, gwExpect, gwDecision, gwWitness, gwUses>>

\* What the backend's authority watcher looks for: the Workshop session, the staged lease and
\* its expiry.
GwAuthorityLost(e) ==
  \/ gwExec[e].kind = "workshop" /\ ~GwSameSession(e)
  \/ gwExec[e].kind = "staged" /\ (gwLease[gwExec[e].lease] # "running" \/ GwExpiry <= gwNow)

\* Slip: the watchers do not look at the kill switch.
GwMustCancel_NoKillSwitch(e) == GwAuthorityLost(e) \/ ~gwExec[e].fenced

\* All of the watchers: every call through runGatewayCommand is ended by the kill switch and
\* by a heartbeat of the worker lease that fails.
GwMustCancel(e) == gwStop \/ GwAuthorityLost(e) \/ ~gwExec[e].fenced

GwWatch(e) ==
  /\ GwAt(e, "running") /\ ~gwExec[e].cancelled /\ GwMustCancel(e)
  /\ gwExec' = [gwExec EXCEPT ![e].cancelled = TRUE]
  /\ UNCHANGED <<gwWorld, gwExpect, gwLease, gwDecision, gwHistory>>

\* The provider exits by itself, runs out of time, or is cancelled by a watcher or the caller.
\* The gateway itself looks at the outcome of a staged execution only.
GwExit(e) ==
  /\ GwAt(e, "running")
  /\ \E outcome \in IF gwExec[e].kind # "staged" THEN {"none"}
                    ELSE IF gwExec[e].cancelled THEN {"cancelled"}
                    ELSE {"succeeded", "failed", "cancelled", "timed_out"} :
       gwExec' = [gwExec EXCEPT ![e] = [GwIdleExec EXCEPT !.pc = "ended", !.kind = gwExec[e].kind,
                                          !.lease = gwExec[e].lease, !.outcome = outcome]]
  /\ UNCHANGED <<gwWorld, gwExpect, gwLease, gwDecision, gwHistory>>

\* Slip: the expiry is not looked at.
GwSettleable_Late(l, status) == gwLease[l] = "running"

\* settleStagedValidationLease: a running lease takes the outcome, after its expiry only a
\* cancellation; when it cannot, stale leases are recovered and the lease is revoked.
GwSettleable(l, status) ==
  gwLease[l] = "running" /\ (status = "cancelled" \/ gwNow < GwExpiry)

\* The ending the lease expects, with its cleanup complete, is what is to be validated.
GwSettled(l, outcome, clean) ==
  IF outcome = gwExpect[l] /\ clean THEN "validating"
  ELSE IF outcome \in {"cancelled", "timed_out"} THEN "cancelled" ELSE "failed"

GwSettle(e, clean) ==
  /\ GwAt(e, "ended")
  /\ IF gwExec[e].kind # "staged" THEN UNCHANGED <<gwLease, gwWitness>>
     ELSE LET l == gwExec[e].lease
              status == GwSettled(l, gwExec[e].outcome, clean)
          IN IF GwSettleable(l, status)
               THEN /\ gwLease' = [gwLease EXCEPT ![l] = status]
                    /\ gwWitness' = IF gwExec[e].outcome = gwExpect[l] /\ clean /\ gwNow < GwExpiry
                                      THEN gwWitness \cup {l} ELSE gwWitness
               ELSE /\ gwLease' = [GwRecovered(gwLease) EXCEPT ![l] = IF @ \in GwLive THEN "cancelled" ELSE @]
                    /\ UNCHANGED gwWitness
  /\ GwEnd(e)
  /\ UNCHANGED <<gwWorld, gwExpect, gwDecision, gwStarted, gwUses>>

\* The process that made the call dies; its provider is killed with it.
GwCrash(e) ==
  /\ gwExec[e].pc \in {"asked", "checked", "passed", "running", "ended"}
  /\ GwEnd(e)
  /\ UNCHANGED <<gwWorld, gwExpect, gwLease, gwDecision, gwHistory>>

GwNext ==
  \/ \E l \in GwLeases : GwIssue(l) \/ GwRevoke(l) \/ GwTerminalize(l)
  \/ GwRecover
  \/ \E d \in GwDecisions : \/ \E status \in {"approved", "rejected"} : GwResolveDecision(d, status)
                            \/ GwExpireDecision(d)
  \/ GwOpenSession \/ GwEndSession \/ GwToggleStop \/ GwTick
  \/ \E e \in GwExecs :
       \/ \E host \in BOOLEAN, needs \in GwDecisions \cup {GwNone} : GwAsk(e, host, needs)
       \/ \E l \in GwLeases : GwAdmit(e, l)
       \/ GwResolve(e) \/ GwPassHost(e) \/ GwPassBackend(e) \/ GwRefuse(e) \/ GwStart(e)
       \/ \E clean \in BOOLEAN : GwSettle(e, clean)
       \/ GwWatch(e) \/ GwExit(e) \/ GwLoseFence(e) \/ GwCrash(e)

GwSpec == GwInit /\ [][GwNext]_gwVars

(* Clock, leases, approvals and executions have their types; an execution has a lease exactly
   when it is staged. *)
GwTypeOK ==
  /\ gwActivated \in BOOLEAN /\ gwStop \in BOOLEAN
  /\ gwNow \in 0 .. GwMaxTime
  /\ gwSession \in GwSessions \cup {0} /\ gwOpened \in GwSessions \cup {0}
  /\ gwLease \in [GwLeases -> GwLeaseStates]
  /\ gwExpect \in [GwLeases -> GwExpects \cup {"none"}]
  /\ gwDecision \in [GwDecisions -> {"open", "approved", "rejected", "expired", "consumed"}]
  /\ \A e \in GwExecs :
       /\ gwExec[e].pc \in {"idle", "asked", "checked", "passed", "running", "ended", "done"}
       /\ gwExec[e].kind \in {"plain", "workshop", "staged"}
       /\ gwExec[e].lease \in IF gwExec[e].kind = "staged" THEN GwLeases ELSE {GwNone}
       /\ gwExec[e].needs \in GwDecisions \cup {GwNone}
       /\ gwExec[e].outcome \in {"none", "succeeded", "failed", "cancelled", "timed_out"}
  /\ gwWitness \subseteq GwLeases

(* A staged-validation lease is one-use: however admissions, revocations, expiry and crashes
   interleave, at most one execution ever runs under it. *)
GwLeaseRunsOnce == \A l \in GwLeases : Cardinality(gwStarted[l]) <= 1

(* A lease that counts as validated had an execution that ended the way its field expects, was
   cleaned up after and settled before the expiry; a time-out, an unexpected cancellation, a
   late settlement or a recovery never produces one. *)
GwValidatedIsWitnessed ==
  \A l \in GwLeases : gwLease[l] \in {"validating", "succeeded"} => l \in gwWitness

(* An owner's approval is consumed for at most one execution. *)
GwApprovalOnce == \A d \in GwDecisions : Cardinality(gwUses[d]) <= 1

(* Expired or terminal leases remain closed: settlement, recovery and revocation, which race
   for the same row, never revive or rewrite one. *)
GwClosedStaysClosed ==
  [][\A l \in GwLeases : gwLease[l] \in {"succeeded", "failed", "cancelled", "expired"}
                           => gwLease'[l] = gwLease[l]]_gwVars

(* The kill switch, once set for good, ends every execution, also one that was admitted just
   before and started after it. *)
GwStopDrains == (<>[]gwStop) => <>[](\A e \in GwExecs : ~GwAt(e, "running"))

\* Authority is used once and never comes back: the parts above.
GwSafe ==
  /\ [](GwTypeOK /\ GwLeaseRunsOnce /\ GwValidatedIsWitnessed /\ GwApprovalOnce)
  /\ GwClosedStaysClosed

(***************************************************************************)
(* The inductive invariant behind GwSafe.                                  *)
(***************************************************************************)

GwWorldOK ==
  /\ gwActivated \in BOOLEAN /\ gwStop \in BOOLEAN
  /\ gwNow \in 0 .. GwMaxTime
  /\ gwSession \in GwSessions \cup {0} /\ gwOpened \in GwSessions \cup {0}
  /\ gwExpect \in [GwLeases -> GwExpects \cup {"none"}]

GwExecution ==
  [pc : {"idle", "asked", "checked", "passed", "running", "ended", "done"},
   kind : {"plain", "workshop", "staged"}, lease : GwLeases \cup {GwNone},
   session : GwSessions \cup {0}, host : BOOLEAN, needs : GwDecisions \cup {GwNone},
   fenced : BOOLEAN, cancelled : BOOLEAN,
   outcome : {"none", "succeeded", "failed", "cancelled", "timed_out"}]

\* Only a staged execution, never one on the host, has a lease, and none before it was admitted.
GwHasItsLease(x) ==
  /\ x.lease # GwNone <=> x.kind = "staged"
  /\ x.kind = "staged" => ~x.host
  /\ x.pc \in {"idle", "asked"} => x.lease = GwNone

GwExecOK ==
  /\ gwExec \in [GwExecs -> GwExecution]
  /\ \A e \in GwExecs : GwHasItsLease(gwExec[e])

GwAtMostOne(S) == S = {} \/ \E e \in GwExecs : S = {e}

\* Nothing has started under a lease that may still be taken for a start.
GwLeaseOK ==
  /\ gwLease \in [GwLeases -> GwLeaseStates]
  /\ gwStarted \in [GwLeases -> SUBSET GwExecs]
  /\ gwWitness \subseteq GwLeases
  /\ \A l \in GwLeases :
       /\ gwLease[l] \in {"none", "issued", "admitted"} => gwStarted[l] = {}
       /\ GwAtMostOne(gwStarted[l])
       /\ gwLease[l] \in {"validating", "succeeded"} => l \in gwWitness

\* Only a consumed approval has been used.
GwDecisionOK ==
  /\ gwDecision \in [GwDecisions -> {"open", "approved", "rejected", "expired", "consumed"}]
  /\ gwUses \in [GwDecisions -> SUBSET GwExecs]
  /\ \A d \in GwDecisions :
       /\ gwDecision[d] # "consumed" => gwUses[d] = {}
       /\ GwAtMostOne(gwUses[d])

GwInv == GwWorldOK /\ GwExecOK /\ GwLeaseOK /\ GwDecisionOK
=============================================================================
