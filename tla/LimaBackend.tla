----------------------------- MODULE LimaBackend -----------------------------
(***************************************************************************)
(* The isolated execution backend (execution/lima-backend.ts, run-         *)
(* manifest.ts, workspace-transfer.ts): several host processes share one   *)
(* virtual machine behind a lock directory.  A run snapshots the owner's   *)
(* workspace, runs a provider on the copy in the guest and applies the     *)
(* returned delta only to a workspace that is still the baseline.          *)
(* Manifests on disk are what a later process has to clean up after a      *)
(* process that died.  Every name carries the prefix Lima.                 *)
(***************************************************************************)
EXTENDS Naturals, FiniteSets

CONSTANTS
  LimaProcs,      \* host processes that use the backend
  LimaRuns,       \* run identifiers (randomUUID), each used once
  LimaFiles,      \* files of the owner's workspace
  LimaMaxEdits,   \* bound: edits the owner makes meanwhile
  LimaMaxCrashes, \* bound: processes that die
  LimaPastTheft,  \* bound: whether to go on after a living process lost its lock
  LimaNone        \* no run, no manifest, no credential

ASSUME LimaAssumption ==
  /\ LimaMaxEdits \in Nat /\ LimaMaxCrashes \in Nat /\ LimaPastTheft \in BOOLEAN
  /\ LimaNone \notin LimaRuns \cup LimaProcs
  /\ LimaProcs \cap {"absent", "unowned"} = {}

VARIABLES
  limaLock,      \* backend.lock: "absent", "unowned" (no owner.json yet) or its owner
  limaVm,        \* the instance is "stopped" or "running"
  limaWs,        \* the owner's workspace: file -> an edit number or the run that wrote it
  limaDir,       \* run -> its directory on the host and the manifest in it
  limaGuest,     \* runs that have a directory in the guest
  limaTransfer,  \* runs that have a transfer directory in the guest
  limaStaged,    \* /tmp/major-credential-import/staged: whose credential
  limaProc,      \* process -> what its call holds in memory
  limaApplied,   \* history: runs whose delta reached the workspace, less those the JSS
                 \* field check refused afterwards
  limaStolen,    \* history: a reclaim removed the lock of a living process
  limaEdits,     \* owner edits so far
  limaCrashes    \* crashes so far

limaVars == <<limaLock, limaVm, limaWs, limaDir, limaGuest, limaTransfer, limaStaged,
              limaProc, limaApplied, limaStolen, limaEdits,
              limaCrashes>>

limaGuestSide == <<limaVm, limaGuest, limaTransfer, limaStaged>>

limaOutside == <<limaApplied, limaStolen, limaEdits, limaCrashes>>

\* What a caller asks for.  An execution takes the fencing token of its lease along, as
\* every one through the Major gateway does, or not; jss is the staged case "jss-field".
\* The other calls bring a credential into the guest or ask a provider about itself.
LimaRequests ==
  {[kind |-> "execute", fenced |-> FALSE, mutate |-> TRUE,  jss |-> FALSE],
   [kind |-> "execute", fenced |-> FALSE, mutate |-> TRUE,  jss |-> TRUE],
   [kind |-> "execute", fenced |-> FALSE, mutate |-> FALSE, jss |-> FALSE],
   [kind |-> "execute", fenced |-> TRUE,  mutate |-> TRUE,  jss |-> FALSE],
   [kind |-> "native",  fenced |-> FALSE, mutate |-> TRUE,  jss |-> FALSE],
   [kind |-> "import",  fenced |-> FALSE, mutate |-> FALSE, jss |-> FALSE],
   [kind |-> "profile", fenced |-> FALSE, mutate |-> FALSE, jss |-> FALSE],
   [kind |-> "login",   fenced |-> FALSE, mutate |-> FALSE, jss |-> FALSE],
   [kind |-> "probe",   fenced |-> FALSE, mutate |-> FALSE, jss |-> FALSE],
   [kind |-> "usage",   fenced |-> FALSE, mutate |-> FALSE, jss |-> FALSE]}

LimaRunKinds == {"execute", "native"}
LimaImportKinds == {"import", "profile", "login"}

\* A run's directory and manifest: none, a bare directory, or a manifest's fields.
LimaManifest ==
  [state   : {"none", "bare", "preparing", "running", "copying_back", "applying", "terminal"},
   cleanup : {"pending", "complete", "failed"},
   result  : {"none", "succeeded", "failed", "cancelled"}]

LimaNoDir == [state |-> "none", cleanup |-> "pending", result |-> "none"]

\* What a call remembers of a manifest an earlier one left.
LimaStale == [run : LimaRuns, result : {"none", "succeeded", "failed", "cancelled"}]

LimaIdleProc ==
  [pc |-> "idle", req |-> LimaNone, run |-> LimaNone, stale |-> {}, prepared |-> FALSE,
   written |-> FALSE, result |-> "none", cancelled |-> FALSE, base |-> LimaNone,
   delta |-> {}]

LimaSteps == {"idle", "lock", "reclaim", "remake", "own", "list", "reconcile",
              "manifest", "prepare", "provider", "copyback", "check", "apply", "jss", "tests",
              "stage", "place", "clean", "record", "stop", "dead"}

LimaAt(p, step) == limaProc[p].pc = step

\* The process moves to another step and leaves everything else it holds alone; the
\* finally block no longer needs the baseline and the delta.
LimaGoto(p, step) ==
  limaProc' = [limaProc EXCEPT ![p].pc = step,
                 ![p].base  = IF step = "clean" THEN LimaNone ELSE @,
                 ![p].delta = IF step = "clean" THEN {} ELSE @]

\* The call is over: its result is the caller's, its locals are gone.
LimaReturn(p) == limaProc' = [limaProc EXCEPT ![p] = LimaIdleProc]

\* The run's outcome is known; the finally block comes next.
LimaFinish(p, result) ==
  limaProc' = [limaProc EXCEPT ![p].pc = "clean", ![p].result = result,
                               ![p].base = LimaNone, ![p].delta = {}]

LimaAlive(p) == ~LimaAt(p, "dead")

\* pendingRunManifests: every run directory must hold a readable manifest.
LimaReadable == \A r \in LimaRuns : limaDir[r].state # "bare"

LimaPending == {r \in LimaRuns : limaDir[r].state \notin {"none", "bare"} /\ limaDir[r].cleanup # "complete"}

LimaInit ==
  /\ limaLock = "absent" /\ limaVm = "stopped"
  /\ limaWs = [f \in LimaFiles |-> 0]
  /\ limaDir = [r \in LimaRuns |-> LimaNoDir]
  /\ limaGuest = {} /\ limaTransfer = {}
  /\ limaStaged = LimaNone
  /\ limaProc = [p \in LimaProcs |-> LimaIdleProc]
  /\ limaApplied = {} /\ limaStolen = FALSE
  /\ limaEdits = 0 /\ limaCrashes = 0

\* A call of the backend begins; which one it is matters once it holds the lock.
LimaCall(p) ==
  /\ LimaAt(p, "idle")
  /\ LimaGoto(p, "lock")
  /\ UNCHANGED <<limaLock, limaWs, limaDir, limaGuestSide, limaOutside>>

\* acquireLock: mkdir succeeds, or the owner is alive and the call throws, or the lock
\* has no readable living owner and is reclaimed.
LimaTryLock(p) ==
  /\ LimaAt(p, "lock")
  /\ \/ /\ limaLock = "absent"
        /\ limaLock' = "unowned" /\ LimaGoto(p, "own")
     \/ /\ limaLock \in LimaProcs /\ LimaAlive(limaLock)
        /\ LimaReturn(p) /\ UNCHANGED limaLock
     \/ /\ \/ limaLock = "unowned"
           \/ limaLock \in LimaProcs /\ ~LimaAlive(limaLock)
        /\ LimaGoto(p, "reclaim") /\ UNCHANGED limaLock
  /\ UNCHANGED <<limaWs, limaDir, limaGuestSide, limaOutside>>

\* Somebody other than p believes to hold the lock, or is about to write its owner.json.
LimaOthersInside(p) ==
  {q \in LimaProcs \ {p} : limaProc[q].pc \notin {"idle", "dead", "lock", "reclaim", "remake"}}

\* The reclaim: stop(true), which may fail and then leaves the lock alone, and the removal
\* of whatever lock directory is there by then.
LimaReclaim(p) ==
  /\ LimaAt(p, "reclaim")
  /\ \/ /\ limaVm' = "stopped" /\ limaLock' = "absent"
        /\ limaStolen' = (limaStolen \/ LimaOthersInside(p) # {})
        /\ LimaGoto(p, "remake")
     \/ LimaReturn(p) /\ UNCHANGED <<limaVm, limaLock, limaStolen>>
  /\ UNCHANGED <<limaWs, limaDir, limaGuest, limaTransfer, limaStaged, limaApplied, limaEdits,
                 limaCrashes>>

\* The second mkdir throws when another process was quicker.
LimaRemake(p) ==
  /\ LimaAt(p, "remake")
  /\ IF limaLock = "absent"
       THEN limaLock' = "unowned" /\ LimaGoto(p, "own")
       ELSE LimaReturn(p) /\ UNCHANGED limaLock
  /\ UNCHANGED <<limaWs, limaDir, limaGuestSide, limaOutside>>

\* owner.json is written into whatever lock directory is there, and cannot be without one.
LimaWriteOwner(p, req) ==
  /\ LimaAt(p, "own")
  /\ req.kind \in LimaRunKinds => \E r \in LimaRuns : limaDir[r].state = "none"
  /\ IF limaLock = "absent"
       THEN LimaReturn(p) /\ UNCHANGED limaLock
       ELSE /\ limaLock' = p
            /\ limaProc' = [limaProc EXCEPT ![p].pc = IF req.kind \in LimaRunKinds THEN "list" ELSE "stage",
                                            ![p].req = req]
  /\ UNCHANGED <<limaWs, limaDir, limaGuestSide, limaOutside>>

\* reconcileStaleRuns reads the manifests once; a directory without one throws.
LimaListPending(p) ==
  /\ LimaAt(p, "list")
  /\ IF LimaReadable
       THEN limaProc' = [limaProc EXCEPT ![p].pc = "reconcile",
              ![p].stale = {m \in LimaStale : m.run \in LimaPending /\ m.result = limaDir[m.run].result}]
       ELSE LimaGoto(p, "clean")
  /\ UNCHANGED <<limaLock, limaWs, limaDir, limaGuestSide, limaOutside>>

\* removeGuestRun (which starts the instance), removeGuestTransfer and the manifest, as it was
\* read.
LimaReconcileOne(p, m) ==
  /\ LimaAt(p, "reconcile") /\ m \in limaProc[p].stale
  /\ limaVm' = "running"
  /\ limaGuest' = limaGuest \ {m.run} /\ limaTransfer' = limaTransfer \ {m.run}
  /\ limaDir' = [limaDir EXCEPT ![m.run] = [state |-> "terminal", cleanup |-> "complete",
                   result |-> IF m.result = "none" THEN "failed" ELSE m.result]]
  /\ limaProc' = [limaProc EXCEPT ![p].stale = @ \ {m}]
  /\ UNCHANGED <<limaLock, limaWs, limaStaged, limaOutside>>

LimaMakeRunRoot(p) ==
  /\ LimaAt(p, "reconcile") /\ limaProc[p].stale = {}
  /\ \E r \in LimaRuns :
       /\ limaDir[r].state = "none"
       /\ limaDir' = [limaDir EXCEPT ![r].state = "bare"]
       /\ limaProc' = [limaProc EXCEPT ![p].pc = "manifest", ![p].run = r]
  /\ UNCHANGED <<limaLock, limaWs, limaGuestSide, limaOutside>>

\* writeRunManifest validates against a strict schema that has no field for the fencing
\* token executeRun puts in; then the workspace is snapshotted and hashed.
LimaWriteManifest(p) ==
  /\ LimaAt(p, "manifest")
  /\ IF limaProc[p].req.fenced
       THEN LimaGoto(p, "clean") /\ UNCHANGED limaDir
       ELSE /\ limaDir' = [limaDir EXCEPT ![limaProc[p].run] =
                 [state |-> "preparing", cleanup |-> "pending", result |-> "none"]]
            /\ limaProc' = [limaProc EXCEPT ![p].pc = "prepare", ![p].written = TRUE,
                                            ![p].base = limaWs]
  /\ UNCHANGED <<limaLock, limaWs, limaGuestSide, limaOutside>>

\* start, the guest directory, the provider state, the transfer directory, the copy-in,
\* the guest repository; the manifest says running.
LimaPrepared(p, kind) ==
  /\ LimaAt(p, "prepare") /\ limaProc[p].req.kind = kind
  /\ limaVm' = "running"
  /\ limaGuest' = limaGuest \cup {limaProc[p].run}
  /\ limaTransfer' = limaTransfer \cup {limaProc[p].run}
  /\ limaDir' = [limaDir EXCEPT ![limaProc[p].run] =
                   [state |-> "running", cleanup |-> "pending", result |-> "none"]]
  /\ limaProc' = [limaProc EXCEPT ![p].pc = "provider", ![p].prepared = TRUE]
  /\ UNCHANGED <<limaLock, limaWs, limaStaged, limaOutside>>

LimaPrepare(p) == LimaPrepared(p, "execute")
LimaPrepareNative(p) == LimaPrepared(p, "native")

\* A preparation that fails half way: the directory may or may not be there.
LimaPrepareFails(p) ==
  /\ LimaAt(p, "prepare")
  /\ limaVm' \in {"running", limaVm}
  /\ \E made \in BOOLEAN :
       /\ limaGuest' = IF made THEN limaGuest \cup {limaProc[p].run} ELSE limaGuest
       /\ limaProc' = [limaProc EXCEPT ![p].pc = "clean", ![p].prepared = made,
                                       ![p].base = LimaNone]
  /\ UNCHANGED <<limaLock, limaWs, limaDir, limaTransfer, limaStaged, limaOutside>>

\* The provider has ended and left a set of changed files behind.
LimaLeft(p, kind, files) ==
  /\ LimaAt(p, "provider") /\ limaProc[p].req.kind = kind /\ limaVm = "running"
  /\ limaProc' = [limaProc EXCEPT ![p].pc = "copyback", ![p].delta = files]
  /\ UNCHANGED <<limaLock, limaWs, limaDir, limaGuestSide, limaOutside>>

\* A provider that answered; executeRun restarts the instance before the copy-back.
LimaProviderDone(p, files) == ~limaProc[p].cancelled /\ LimaLeft(p, "execute", files)

\* The App Server exits by itself or because its caller disposes of it.
LimaNativeDone(p, files) == LimaLeft(p, "native", files)

\* The provider fails, answers nothing, was cancelled or lost its instance, which is
\* stopped by force.
LimaProviderFails(p) ==
  /\ LimaAt(p, "provider") /\ limaProc[p].req.kind = "execute"
  /\ limaVm' = "stopped"
  /\ LimaFinish(p, IF limaProc[p].cancelled THEN "none" ELSE "failed")
  /\ UNCHANGED <<limaLock, limaWs, limaDir, limaGuest, limaTransfer, limaStaged,
                 limaOutside>>

\* The App Server ends in an error: the call throws.
LimaNativeFails(p) ==
  /\ LimaAt(p, "provider") /\ limaProc[p].req.kind = "native"
  /\ LimaFinish(p, "failed")
  /\ UNCHANGED <<limaLock, limaWs, limaDir, limaGuestSide, limaOutside>>

\* Copy-back, the tree validation and the comparison of the live workspace with the
\* baseline: a workspace that changed quarantines the result.  The manifest is written whole,
\* from memory.
LimaCopyBack(p) ==
  /\ LimaAt(p, "copyback") /\ limaVm = "running"
  /\ IF limaWs = limaProc[p].base
       THEN /\ limaDir' = [limaDir EXCEPT ![limaProc[p].run] =
                 [state |-> "applying", cleanup |-> "pending", result |-> "none"]]
            /\ LimaGoto(p, "check")
       ELSE /\ limaDir' = [limaDir EXCEPT ![limaProc[p].run] =
                 [state |-> "copying_back", cleanup |-> "pending", result |-> "none"]]
            /\ LimaGoto(p, "clean")
  /\ UNCHANGED <<limaLock, limaWs, limaGuestSide, limaOutside>>

\* git apply refuses a file that is not what the delta was made from.
LimaDeltaFits(p) == \A f \in limaProc[p].delta : limaWs[f] = limaProc[p].base[f]

\* The diff, the mutation policy and git apply --check.
LimaCheckDelta(p) ==
  /\ LimaAt(p, "check") /\ limaProc[p].req.kind = "execute"
  /\ \/ /\ limaProc[p].delta = {} /\ ~limaProc[p].req.jss
        /\ LimaFinish(p, "succeeded")
     \/ /\ limaProc[p].delta = {} /\ limaProc[p].req.jss  \* no project delta
        /\ LimaGoto(p, "clean")
     \/ /\ limaProc[p].delta # {} /\ limaProc[p].req.mutate
        /\ LimaDeltaFits(p)
        /\ LimaGoto(p, "apply")
     \/ /\ limaProc[p].delta # {}
        /\ ~limaProc[p].req.mutate \/ ~LimaDeltaFits(p)
        /\ LimaFinish(p, "failed")
  /\ UNCHANGED <<limaLock, limaWs, limaDir, limaGuestSide, limaOutside>>

\* The native path looks at its lease and its Workshop authority again, which may be gone.
LimaCheckNative(p) ==
  /\ LimaAt(p, "check") /\ limaProc[p].req.kind = "native"
  /\ \/ limaProc[p].delta = {} /\ LimaFinish(p, "succeeded")
     \/ limaProc[p].delta # {} /\ LimaDeltaFits(p) /\ LimaGoto(p, "apply")
     \/ limaProc[p].delta # {} /\ LimaFinish(p, "failed")
  /\ UNCHANGED <<limaLock, limaWs, limaDir, limaGuestSide, limaOutside>>

\* git apply, all files or none.
LimaApplyAnyway(p) ==
  /\ LimaAt(p, "apply")
  /\ limaWs' = [f \in LimaFiles |-> IF f \in limaProc[p].delta THEN limaProc[p].run ELSE limaWs[f]]
  /\ limaApplied' = limaApplied \cup {limaProc[p].run}
  /\ IF limaProc[p].req.jss THEN LimaGoto(p, "jss") ELSE LimaFinish(p, "succeeded")
  /\ UNCHANGED <<limaLock, limaDir, limaGuestSide, limaStolen, limaEdits,
                 limaCrashes>>

LimaApply(p) == LimaDeltaFits(p) /\ LimaApplyAnyway(p)

\* A look at the delta that is applied already, which lets it pass (`ok`) or refuses it: then
\* the run is recorded as failed and the workspace keeps the delta.
LimaJssLook(p, step, ok) ==
  /\ LimaAt(p, step)
  /\ \/ ok /\ UNCHANGED limaApplied
     \/ LimaGoto(p, "clean") /\ limaApplied' = limaApplied \ {limaProc[p].run}
  /\ UNCHANGED <<limaLock, limaWs, limaDir, limaGuestSide, limaStolen, limaEdits,
                 limaCrashes>>

\* The paths must be code and tests, and no configuration.
LimaJssField(p) == LimaJssLook(p, "jss", LimaGoto(p, "tests"))

\* Dependencies are installed and the project's tests run in a contained copy.
LimaJssTests(p) == LimaJssLook(p, "tests", LimaFinish(p, "succeeded"))

\* A command of the run exits non-zero or its tool cannot be verified: the call throws and
\* goes to its finally block.
LimaCommandFails(p) ==
  /\ limaProc[p].pc \in {"reconcile", "copyback", "check", "apply", "stage", "place"}
  /\ LimaGoto(p, "clean")
  /\ UNCHANGED <<limaLock, limaWs, limaDir, limaGuestSide, limaOutside>>

\* start, clear the staging path, put this call's credential there.
LimaStage(p) ==
  /\ LimaAt(p, "stage")
  /\ limaVm' = "running" /\ limaStaged' = p
  /\ LimaGoto(p, "place")
  /\ UNCHANGED <<limaLock, limaWs, limaDir, limaGuest, limaTransfer, limaOutside>>

\* The credential a provider keeps on the host, or the one of an approved Codex profile.
LimaImportHost(p) == LimaAt(p, "stage") /\ limaProc[p].req.kind = "import" /\ LimaStage(p)
LimaImportProfile(p) == LimaAt(p, "stage") /\ limaProc[p].req.kind = "profile" /\ LimaStage(p)

\* The provider's own login flow in a scratch home; it may produce no credential.
LimaLogin(p) ==
  /\ LimaAt(p, "stage") /\ limaProc[p].req.kind = "login"
  /\ \/ LimaStage(p)
     \/ /\ limaVm' = "running" /\ LimaGoto(p, "clean")
        /\ UNCHANGED <<limaLock, limaWs, limaDir, limaGuest, limaTransfer, limaStaged, limaOutside>>

\* Calls that start the instance and ask the provider in it; the credential they lay out for
\* it is the provider user's own.
LimaInquire(p, kind) ==
  /\ LimaAt(p, "stage") /\ limaProc[p].req.kind = kind
  /\ limaVm' = "running" /\ LimaGoto(p, "clean")
  /\ UNCHANGED <<limaLock, limaWs, limaDir, limaGuest, limaTransfer, limaStaged, limaOutside>>

LimaProbe(p) == LimaInquire(p, "probe")
LimaReadUsage(p) == LimaInquire(p, "usage")

\* placeStagedCredentialIntoStore runs the broker on whatever is staged.
LimaPlace(p) ==
  /\ LimaAt(p, "place") /\ limaVm = "running" /\ limaStaged # LimaNone
  /\ LimaGoto(p, "clean")
  /\ UNCHANGED <<limaLock, limaWs, limaDir, limaVm, limaGuest, limaTransfer, limaStaged,
                 limaOutside>>

\* The finally block's removals: a run removes what it prepared (removeGuestRun starts the
\* instance first), an import its staging path, whose failure is ignored.
LimaClean(p) ==
  /\ LimaAt(p, "clean")
  /\ limaVm' = IF limaProc[p].prepared THEN "running" ELSE limaVm
  /\ limaGuest' = IF limaProc[p].prepared THEN limaGuest \ {limaProc[p].run} ELSE limaGuest
  /\ limaTransfer' = IF limaProc[p].prepared THEN limaTransfer \ {limaProc[p].run} ELSE limaTransfer
  /\ limaStaged' = IF limaProc[p].req.kind \in LimaImportKinds THEN LimaNone ELSE limaStaged
  /\ LimaGoto(p, "record")
  /\ UNCHANGED <<limaLock, limaWs, limaDir, limaOutside>>

LimaTerminal(p, cleanup) ==
  [state |-> "terminal", cleanup |-> cleanup,
   result |-> IF limaProc[p].result # "none" THEN limaProc[p].result
              ELSE IF limaProc[p].cancelled THEN "cancelled" ELSE "failed"]

\* Slip: a failed removal is recorded as complete.
LimaCleanFails_Complete(p) ==
  /\ LimaAt(p, "clean") /\ limaProc[p].prepared
  /\ limaVm' \in {"running", limaVm}
  /\ limaGuest' \in {limaGuest, limaGuest \ {limaProc[p].run}}
  /\ limaDir' = [limaDir EXCEPT ![limaProc[p].run] = LimaTerminal(p, "complete")]
  /\ LimaGoto(p, "stop")
  /\ UNCHANGED <<limaLock, limaWs, limaTransfer, limaStaged, limaOutside>>

\* A removal fails: the manifest says so and the next call tries again.
LimaCleanFails(p) ==
  /\ LimaAt(p, "clean") /\ limaProc[p].prepared
  /\ limaVm' \in {"running", limaVm}
  /\ limaGuest' \in {limaGuest, limaGuest \ {limaProc[p].run}}
  /\ limaDir' = [limaDir EXCEPT ![limaProc[p].run] = LimaTerminal(p, "failed")]
  /\ LimaGoto(p, "stop")
  /\ UNCHANGED <<limaLock, limaWs, limaTransfer, limaStaged, limaOutside>>

LimaRecord(p) ==
  /\ LimaAt(p, "record")
  /\ limaDir' = IF limaProc[p].written
                  THEN [limaDir EXCEPT ![limaProc[p].run] = LimaTerminal(p, "complete")]
                  ELSE limaDir
  /\ LimaGoto(p, "stop")
  /\ UNCHANGED <<limaLock, limaWs, limaGuestSide, limaOutside>>

\* The end of the finally block: stop may fail, and the lock is removed either way, without
\* a look at whose it is.
LimaRelease(p) ==
  /\ LimaAt(p, "stop")
  /\ limaVm' \in {"stopped", limaVm}
  /\ limaLock' = "absent"
  /\ LimaReturn(p)
  /\ UNCHANGED <<limaWs, limaDir, limaGuest, limaTransfer, limaStaged, limaOutside>>

\* cancel, from the 30 minute timer, the authority watcher or the caller.  It marks the run
\* and ends the command in flight; only the end of the provider looks at the mark.
LimaCancel(p) ==
  /\ limaProc[p].req # LimaNone /\ limaProc[p].req.kind = "execute"
  /\ limaProc[p].pc \in {"prepare", "provider", "copyback", "check", "apply", "jss", "tests"}
  /\ ~limaProc[p].cancelled
  /\ limaProc' = [limaProc EXCEPT ![p].cancelled = TRUE]
  /\ UNCHANGED <<limaLock, limaWs, limaDir, limaGuestSide, limaOutside>>

\* The process dies; what is on disk and in the guest stays.
LimaCrash(p) ==
  /\ limaCrashes < LimaMaxCrashes
  /\ limaProc[p].pc \notin {"idle", "dead"}
  /\ limaProc' = [limaProc EXCEPT ![p] = [LimaIdleProc EXCEPT !.pc = "dead", !.run = limaProc[p].run]]
  /\ limaCrashes' = limaCrashes + 1
  /\ UNCHANGED <<limaLock, limaWs, limaDir, limaGuestSide, limaApplied,
                 limaStolen, limaEdits>>

\* The owner edits a file of the workspace while a run is under way.
LimaOwnerEdits(f) ==
  /\ limaEdits < LimaMaxEdits
  /\ limaEdits' = limaEdits + 1
  /\ limaWs' = [limaWs EXCEPT ![f] = limaEdits + 1]
  /\ UNCHANGED <<limaLock, limaDir, limaProc, limaGuestSide, limaApplied,
                 limaStolen, limaCrashes>>

\* The steps of a call that nobody outside the process has to take.  A native run ends
\* when its caller disposes of it, so its provider step is not among them.
LimaOwnStep(p) ==
  \/ LimaTryLock(p) \/ LimaReclaim(p) \/ LimaRemake(p)
  \/ (\E req \in LimaRequests : LimaWriteOwner(p, req)) \/ LimaListPending(p) \/ LimaMakeRunRoot(p) \/ LimaWriteManifest(p)
  \/ \E m \in limaProc[p].stale : LimaReconcileOne(p, m)
  \/ LimaPrepare(p) \/ LimaPrepareNative(p) \/ LimaPrepareFails(p)
  \/ LimaCopyBack(p) \/ LimaCheckDelta(p) \/ LimaCheckNative(p) \/ LimaApply(p)
  \/ LimaJssField(p) \/ LimaJssTests(p) \/ LimaCommandFails(p)
  \/ LimaImportHost(p) \/ LimaImportProfile(p) \/ LimaLogin(p) \/ LimaProbe(p) \/ LimaReadUsage(p)
  \/ LimaPlace(p) \/ LimaClean(p) \/ LimaCleanFails(p) \/ LimaRecord(p)
  \/ LimaRelease(p)

LimaProviderEnds(p) ==
  \/ \E files \in SUBSET LimaFiles : LimaProviderDone(p, files) \/ LimaNativeDone(p, files)
  \/ LimaProviderFails(p) \/ LimaNativeFails(p)

LimaEnvironment ==
  \/ \E p \in LimaProcs : LimaCall(p) \/ LimaCancel(p) \/ LimaCrash(p)
  \/ \E f \in LimaFiles : LimaOwnerEdits(f)

LimaNext ==
  /\ limaStolen => LimaPastTheft
  /\ \/ \E p \in LimaProcs : LimaOwnStep(p) \/ LimaProviderEnds(p)
     \/ LimaEnvironment

LimaSpec == LimaInit /\ [][LimaNext]_limaVars

(* Lock, instance, workspace, manifests and processes have their types; a run has a result
   exactly when its manifest is terminal. *)
LimaTypeOK ==
  /\ limaLock \in {"absent", "unowned"} \cup LimaProcs
  /\ limaVm \in {"stopped", "running"}
  /\ limaWs \in [LimaFiles -> 0 .. LimaMaxEdits \cup LimaRuns]
  /\ limaDir \in [LimaRuns -> LimaManifest]
  /\ \A r \in LimaRuns : (limaDir[r].state = "terminal") = (limaDir[r].result # "none")
  /\ limaGuest \subseteq LimaRuns /\ limaTransfer \subseteq LimaRuns
  /\ limaStaged \in LimaProcs \cup {LimaNone}
  /\ \A p \in LimaProcs :
       /\ limaProc[p].pc \in LimaSteps
       /\ limaProc[p].req \in LimaRequests \cup {LimaNone}
       /\ limaProc[p].run \in LimaRuns \cup {LimaNone}
       /\ limaProc[p].stale \subseteq LimaStale
       /\ limaProc[p].delta \subseteq LimaFiles
  /\ limaStolen \in BOOLEAN
  /\ limaApplied \subseteq LimaRuns
  /\ limaEdits \in 0 .. LimaMaxEdits /\ limaCrashes \in 0 .. LimaMaxCrashes

LimaInside(p) ==
  limaProc[p].pc \notin {"idle", "dead", "lock", "reclaim", "remake", "own"}

(* As long as no reclaim removed a living process's lock, at most one process works on the
   instance, so one call never stops the instance or clears the guest under another. *)
LimaExclusive ==
  ~limaStolen => Cardinality({p \in LimaProcs : LimaInside(p)}) <= 1

(* Whatever a run left in the guest, in whichever step its process died or its clean-up
   failed, is named by a manifest that the next call still reconciles. *)
LimaGuestRunsRecorded ==
  ~limaStolen => limaGuest \cup limaTransfer \subseteq LimaPending

(* A run whose manifest says it failed or was cancelled has changed nothing in the owner's
   workspace, unless its process died before it could record the success, or it is the staged
   JSS case, which is checked only after the delta is applied. *)
LimaFailedIsUntouched ==
  \A r \in limaApplied :
    ~limaStolen /\ limaDir[r].result \in {"failed", "cancelled"}
      => \E p \in LimaProcs : LimaAt(p, "dead") /\ limaProc[p].run = r

(* While no lock was stolen, the broker reads at the fixed staging path what its own call has
   staged there, never a credential another call, or one that died, left behind. *)
LimaStagedIsOwn ==
  \A p \in LimaProcs : ~limaStolen /\ LimaAt(p, "place") => limaStaged = p

(* A returned delta never overwrites a version of a file other than the one the run was
   started from: what the owner wrote meanwhile survives, also between check and apply. *)
LimaOwnerEditsSurvive ==
  [][\A p \in LimaProcs : limaApplied' # limaApplied /\ LimaAt(p, "apply") /\ ~LimaAt(p, "apply")' =>
       \A f \in LimaFiles : limaWs'[f] # limaWs[f] => limaWs[f] = limaProc[p].base[f]]_limaVars

(* pendingRunManifests finds every run an earlier call left behind: no run directory
   without a manifest outlives the call that made it. *)
LimaLeftoversReadable ==
  \A r \in LimaRuns : limaDir[r].state = "bare" =>
    \E p \in LimaProcs : limaProc[p].run = r /\ LimaAlive(p)

\* What processes that share the instance, and die in it, do to each other and
\* to the owner's workspace: the parts above.
LimaSafe ==
  /\ [](LimaTypeOK /\ LimaExclusive /\ LimaGuestRunsRecorded)
  /\ [](LimaFailedIsUntouched /\ LimaStagedIsOwn)
  /\ LimaOwnerEditsSurvive
=============================================================================
