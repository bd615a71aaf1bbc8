---------------------------- MODULE ProviderStore ----------------------------
(***************************************************************************)
(* The persisted provider accounts (src/providers/discovery-store.ts) and   *)
(* who writes them: dispatches that route on a snapshot, spend an expired   *)
(* backoff and record what their worker met (src/supervisor/runtime.ts),    *)
(* routine discovery, the owner's probe and attestations                    *)
(* (src/providers/lifecycle-cli.ts) and the profile sync that follows the   *)
(* owner's account policy (src/providers/codex-profile-sync.ts).  Each      *)
(* store operation is one immediate SQLite transaction.                     *)
(* An account stands for its one model; rate_limited and exhausted are one  *)
(* value, "limited"; nextProbeAt is "none", "wait" (in the future) or "due".*)
(***************************************************************************)
EXTENDS Naturals, FiniteSets

CONSTANTS PvNamed,        \* named Codex accounts, governed by the owner's policy
          PvDefault,      \* the default account, which the owner probes
          PvDispatchers,  \* goal cycles that route and dispatch
          PvNone          \* nothing

ASSUME PvAssumption == PvDefault \notin PvNamed /\ PvNone \notin PvNamed \cup {PvDefault}

PvAccounts == PvNamed \cup {PvDefault}

VARIABLES
  pvRow,      \* agent_models: the row of each account
  pvPolicy,   \* named accounts active in codex-account-policy.json
  pvDisp,     \* per dispatcher: where it is, its account, whether it is a retry
  pvSync,     \* the profile sync: the accounts it read, those it imported
  pvRetries,  \* history: dispatches started on the current expired backoff
  pvGone      \* history: accounts revoked since the policy dropped them

pvVars == <<pvRow, pvPolicy, pvDisp, pvSync, pvRetries, pvGone>>

PvRow == [visible : BOOLEAN, authenticated : BOOLEAN, prohibited : BOOLEAN,
          availability : {"available", "limited", "unknown"},
          nextProbe : {"none", "wait", "due"},
          billing : {"unknown", "included", "paid"}]

\* A new row: discovery asserts nothing about availability or billing.
PvFresh == [visible |-> FALSE, authenticated |-> FALSE, prohibited |-> FALSE,
            availability |-> "unknown", nextProbe |-> "none", billing |-> "unknown"]
PvResting == [pc |-> "idle", account |-> PvNone, retry |-> FALSE]
PvNoSync == [pc |-> "idle", read |-> {}, imported |-> {}]

PvInit == /\ pvRow = [a \in PvAccounts |-> PvFresh]
          /\ pvPolicy = PvNamed
          /\ pvDisp = [d \in PvDispatchers |-> PvResting]
          /\ pvSync = PvNoSync
          /\ pvRetries = [a \in PvAccounts |-> 0]
          /\ pvGone = {}

PvBackingOff(a) == pvRow[a].availability = "limited" /\ pvRow[a].nextProbe = "wait"

\* loadPersistedProviderInfos: a limited model whose time has come.
PvRetryEligible(a) == pvRow[a].availability = "limited" /\ pvRow[a].nextProbe = "due"

\* usable() in router.ts; only capacity a subscription includes is routed to.
PvUsable(a) == /\ pvRow[a].visible /\ pvRow[a].authenticated /\ ~pvRow[a].prohibited
               /\ pvRow[a].availability = "available" \/ PvRetryEligible(a)
PvRoutable(a) == PvUsable(a) /\ pvRow[a].billing = "included"

-----------------------------------------------------------------------------
(* Dispatches.                                                              *)

\* routeGoalExecution reads the store and picks one routable account; the
\* smart variant waits for a classification before it goes on.
PvRoute(d) ==
  /\ pvDisp[d].pc = "idle"
  /\ \E a \in PvAccounts :
       /\ PvRoutable(a)
       /\ pvDisp' = [pvDisp EXCEPT ![d] = [pc |-> "routed", account |-> a,
                                           retry |-> PvRetryEligible(a)]]
  /\ UNCHANGED <<pvRow, pvPolicy, pvSync, pvRetries, pvGone>>

\* Slip: the row is not compared with what was read.
PvConsumable_Unchecked(a) == TRUE

\* consumeModelRetry: the row must still be an expired backoff.
PvConsumable(a) == PvRetryEligible(a)

\* A retry turns the model unknown before its worker starts; a retry that was
\* already consumed is a checkpoint.
PvConsume(d) ==
  LET a == pvDisp[d].account IN
  /\ pvDisp[d].pc = "routed" /\ pvDisp[d].retry
  /\ \/ /\ PvConsumable(a)
        /\ pvRow' = [pvRow EXCEPT ![a].availability = "unknown", ![a].nextProbe = "none"]
        /\ pvRetries' = [pvRetries EXCEPT ![a] = @ + 1]
        /\ pvDisp' = [pvDisp EXCEPT ![d].pc = "running"]
     \/ /\ ~PvConsumable(a)
        /\ pvDisp' = [pvDisp EXCEPT ![d] = PvResting]
        /\ UNCHANGED <<pvRow, pvRetries>>
  /\ UNCHANGED <<pvPolicy, pvSync, pvGone>>

PvStart(d) ==
  /\ pvDisp[d].pc = "routed" /\ ~pvDisp[d].retry
  /\ pvDisp' = [pvDisp EXCEPT ![d].pc = "running"]
  /\ UNCHANGED <<pvRow, pvPolicy, pvSync, pvRetries, pvGone>>

\* recordModelOutcome, whatever the row holds by now.
PvRecorded(a, outcome) ==
  /\ pvRow' = [pvRow EXCEPT ![a].availability = outcome,
                            ![a].nextProbe = IF outcome = "limited" THEN "wait" ELSE "none"]
  /\ pvRetries' = [pvRetries EXCEPT ![a] = 0]

\* modelOutcomeForWorker: a quota answer, a success, an account or executable
\* that is not usable; any other end of the worker, or its death, says nothing.
PvOutcome(d) ==
  /\ pvDisp[d].pc = "running"
  /\ \/ \E outcome \in {"available", "limited", "unknown"} : PvRecorded(pvDisp[d].account, outcome)
     \/ UNCHANGED <<pvRow, pvRetries>>
  /\ pvDisp' = [pvDisp EXCEPT ![d] = PvResting]
  /\ UNCHANGED <<pvPolicy, pvSync, pvGone>>

\* Time passes: a backoff window ends.
PvDue(a) ==
  /\ pvRow[a].nextProbe = "wait"
  /\ pvRow' = [pvRow EXCEPT ![a].nextProbe = "due"]
  /\ UNCHANGED <<pvPolicy, pvDisp, pvSync, pvRetries, pvGone>>

-----------------------------------------------------------------------------
(* Discovery: persistProviderDiscovery.                                     *)

\* seen: what the discovery says of the model; bypass: it overrides a backoff.
PvPersist(a, seen, bypass) ==
  LET keep == ~bypass /\ PvBackingOff(a) IN
  [seen EXCEPT !.availability = IF keep THEN pvRow[a].availability ELSE seen.availability,
               !.nextProbe = IF keep THEN pvRow[a].nextProbe ELSE "none",
               !.billing = pvRow[a].billing]

\* major doctor and setup look for executables only: they add what is unknown
\* and preserve everything that was ever observed.
PvDiscover ==
  LET row == pvRow[PvDefault] IN
  /\ ~(row.visible \/ row.authenticated \/ row.availability # "unknown")
  /\ pvRow' = [pvRow EXCEPT ![PvDefault] =
                 PvPersist(PvDefault, [PvFresh EXCEPT !.visible = TRUE], FALSE)]
  /\ UNCHANGED <<pvPolicy, pvDisp, pvSync, pvRetries, pvGone>>

\* probeAndPersist, from probe, connect and import-token: a login that works
\* makes the model available over any backoff; one that does not leaves the
\* availability it loaded.
PvProbe(authenticated) ==
  LET row == pvRow[PvDefault]
      seen == [row EXCEPT !.visible = TRUE, !.authenticated = authenticated,
                          !.availability = IF authenticated THEN "available" ELSE row.availability]
  IN /\ pvRow' = [pvRow EXCEPT ![PvDefault] = PvPersist(PvDefault, seen, authenticated)]
     /\ pvRetries' = [pvRetries EXCEPT ![PvDefault] = 0]
     /\ UNCHANGED <<pvPolicy, pvDisp, pvSync, pvGone>>

\* attest-availability: the owner's word, which respects a backoff.
PvAttest ==
  /\ pvRow' = [pvRow EXCEPT ![PvDefault] =
                 PvPersist(PvDefault, [PvFresh EXCEPT !.visible = TRUE, !.authenticated = TRUE,
                                                      !.availability = "available"], FALSE)]
  /\ UNCHANGED <<pvPolicy, pvDisp, pvSync, pvRetries, pvGone>>

\* attest-billing and the question connect asks.
PvBill(mode) ==
  /\ pvRow' = [pvRow EXCEPT ![PvDefault].billing = mode]
  /\ UNCHANGED <<pvPolicy, pvDisp, pvSync, pvRetries, pvGone>>

-----------------------------------------------------------------------------
(* The profile sync: syncApprovedCodexProfiles.                             *)

\* revokeProviderAccountRouting.
PvRevoked(row) == [row EXCEPT !.visible = FALSE, !.authenticated = FALSE, !.prohibited = TRUE,
                              !.availability = "unknown", !.nextProbe = "none"]

\* The owner edits the policy.
PvEditPolicy(a) ==
  /\ pvPolicy' = IF a \in pvPolicy THEN pvPolicy \ {a} ELSE pvPolicy \cup {a}
  /\ pvGone' = pvGone \ {a}
  /\ UNCHANGED <<pvRow, pvDisp, pvSync, pvRetries>>

\* The policy is read once; named accounts it does not list are revoked.
PvSyncStarts ==
  /\ pvSync.pc = "idle"
  /\ pvRow' = [a \in PvAccounts |-> IF a \in PvNamed \ pvPolicy THEN PvRevoked(pvRow[a])
                                    ELSE pvRow[a]]
  /\ pvGone' = PvNamed \ pvPolicy
  /\ pvSync' = [pc |-> "import", read |-> pvPolicy, imported |-> {}]
  /\ UNCHANGED <<pvPolicy, pvDisp, pvRetries>>

\* One profile after the other is imported; one without a credential, or whose
\* import fails, is revoked.
PvSyncImport ==
  /\ pvSync.pc = "import"
  /\ \E a \in pvSync.read \ pvSync.imported :
       \/ /\ pvSync' = [pvSync EXCEPT !.imported = @ \cup {a}]
          /\ UNCHANGED pvRow
       \/ /\ pvSync' = [pvSync EXCEPT !.read = @ \ {a}]
          /\ pvRow' = [pvRow EXCEPT ![a] = PvRevoked(@)]
  /\ UNCHANGED <<pvPolicy, pvDisp, pvRetries, pvGone>>

\* The usage of an imported account is persisted over any backoff: healthy,
\* exhausted or not readable; a readable subscription plan attests its billing.
PvSyncPersist ==
  /\ pvSync.pc = "import" /\ pvSync.read = pvSync.imported
  /\ \E a \in pvSync.read, usage \in {"available", "limited", "unknown"} :
       LET login == usage # "unknown"
           row == PvPersist(a, [PvFresh EXCEPT !.visible = login, !.authenticated = login,
                                               !.availability = usage], TRUE)
       IN /\ pvRow' = [pvRow EXCEPT ![a] = IF login THEN [row EXCEPT !.billing = "included"]
                                           ELSE row]
          /\ pvRetries' = [pvRetries EXCEPT ![a] = 0]
          /\ pvSync' = [pvSync EXCEPT !.read = @ \ {a}, !.imported = @ \ {a}]
  /\ UNCHANGED <<pvPolicy, pvDisp, pvGone>>

PvSyncEnds ==
  /\ pvSync.pc = "import"
  /\ pvSync' = PvNoSync
  /\ UNCHANGED <<pvRow, pvPolicy, pvDisp, pvRetries, pvGone>>

PvNext == \/ \E d \in PvDispatchers : PvRoute(d) \/ PvConsume(d) \/ PvStart(d) \/ PvOutcome(d)
          \/ \E a \in PvAccounts : PvDue(a)
          \/ PvDiscover \/ PvAttest
          \/ \E authenticated \in BOOLEAN : PvProbe(authenticated)
          \/ \E mode \in {"included", "paid"} : PvBill(mode)
          \/ \E a \in PvNamed : PvEditPolicy(a)
          \/ PvSyncStarts \/ PvSyncImport \/ PvSyncPersist \/ PvSyncEnds

PvSpec == PvInit /\ [][PvNext]_pvVars

-----------------------------------------------------------------------------
\* Rows, policy, dispatchers and sync have their types; a sync imports only
\* accounts it has read and not yet dealt with.
PvTypeOK == /\ pvRow \in [PvAccounts -> PvRow]
            /\ pvPolicy \subseteq PvNamed /\ pvGone \subseteq PvNamed
            /\ \A d \in PvDispatchers : /\ pvDisp[d].pc \in {"idle", "routed", "running"}
                                        /\ pvDisp[d].account \in PvAccounts \cup {PvNone}
            /\ pvSync.imported \subseteq pvSync.read /\ pvSync.read \subseteq PvNamed
            /\ pvRetries \in [PvAccounts -> Nat]

\* One expired backoff lets one dispatch through, however many goal cycles read
\* the account as eligible at the same time (discovery-store.ts:358-360).
PvOneRetry == \A a \in PvAccounts : pvRetries[a] <= 1

\* An account the owner's policy dropped and a sync revoked stays out of routing
\* until the policy lists it again, whatever the workers still running on it
\* report (codex-profile-sync.ts:131-143, discovery-store.ts:190-238).
PvRevokedStays == \A a \in pvGone : ~PvUsable(a)

\* What dispatches, probes and syncs that race leave in the store: the parts above.
PvSafe == PvTypeOK /\ PvOneRetry /\ PvRevokedStays

-----------------------------------------------------------------------------
(* The inductive invariant of the proofs *)

PvDispOK == pvDisp \in [PvDispatchers -> [pc : {"idle", "routed", "running"},
                                          account : PvAccounts \cup {PvNone}, retry : BOOLEAN]]
\* Who has an account uses it; who rests has none.
PvAtWork == \A d \in PvDispatchers : pvDisp[d].pc # "idle" => pvDisp[d].account \in PvAccounts

PvSyncOK == pvSync \in [pc : {"idle", "import"}, read : SUBSET PvNamed, imported : SUBSET PvNamed]

\* A backoff that is still to be spent was not spent before.
PvUnspent == \A a \in PvAccounts : pvRow[a].nextProbe # "none" => pvRetries[a] = 0

\* What a sync revoked is prohibited, and not among what it goes on to import.
PvKeptOut == pvGone \cap pvSync.read = {} /\ \A a \in pvGone : pvRow[a].prohibited

PvInv == PvSafe /\ PvDispOK /\ PvAtWork /\ PvSyncOK /\ PvUnspent /\ PvKeptOut
=============================================================================
