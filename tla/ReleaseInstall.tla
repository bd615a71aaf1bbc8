--------------------------- MODULE ReleaseInstall ---------------------------
(***************************************************************************)
(* Installing a release and rolling back to an earlier one                  *)
(* (scripts/install-major-runtime.sh, rollback-major-runtime.sh): the lock  *)
(* directory, the release directories, the legacy service, the learning     *)
(* snapshot taken by stage-major-user-state.py, the activation (atomic here,*)
(* see UserStateActivation), the install history and the release gate.      *)
(* Learning writers (candidates.ts) run beside them.                        *)
(***************************************************************************)
EXTENDS Naturals, Sequences, SequencesExt

CONSTANTS InShas,          \* releases
          InFirst,         \* the release active at the start
          InProcs,         \* installer and rollback processes
          InKinds,         \* the commands that are run: "install", "rollback"
          InMaxHistory,    \* bound: lines of install-history.jsonl
          InMaxLessons,    \* bound: lessons captured
          InMaxCrashes,    \* bound: killed processes
          InNone, InDead   \* no owner; an owner that is dead

ASSUME InAssumption == /\ InFirst \in InShas /\ InKinds \subseteq {"install", "rollback"}
                       /\ InNone \notin InProcs /\ InDead \notin InProcs /\ InNone # InDead
                       /\ InMaxHistory \in Nat /\ InMaxLessons \in Nat /\ InMaxCrashes \in Nat

VARIABLES
  inDir,       \* .install.lock: its maker
  inPid,       \* .install.lock/pid: the pid written in it
  inMig,       \* learning/.migration.lock: its owner
  inReleases,  \* complete directories under releases/
  inActive,    \* the release of the wrapper and of installed-release.json
  inGate,      \* releaseGate in the record
  inHistory,   \* install-history.jsonl
  inLegacy,    \* the legacy supervisor service: "loaded", "stopped" or "gone"
  inLessons,   \* lessons in the live learning directory
  inWriter,    \* a learning writer holds a store lock
  inProc,      \* per process: where it is
  inCrashes,
  inTheft,     \* history: a live process' lock directory was taken
  inLost       \* history: the kinds of command whose activation dropped a lesson

inVars == <<inDir, inPid, inMig, inReleases, inActive, inGate, inHistory, inLegacy, inLessons,
            inWriter, inProc, inCrashes, inTheft, inLost>>
inLocks == <<inDir, inPid>>
inState == <<inActive, inGate, inHistory>>
inLearning == <<inLessons, inWriter>>
inPast == <<inCrashes, inTheft, inLost>>

\* made: RELEASE_CREATED; stopped: LEGACY_STOPPED; copy: the staged lessons.
InIdle == [pc |-> "idle", kind |-> "install", sha |-> InFirst, made |-> FALSE,
           stopped |-> FALSE, copy |-> 0]

InInit == /\ inDir = InNone /\ inPid = InNone /\ inMig = InNone
          /\ inReleases = {InFirst} /\ inActive = InFirst /\ inGate = "passed"
          /\ inHistory = <<InFirst>>
          /\ inLegacy \in {"loaded", "gone"}
          /\ inLessons = 0 /\ inWriter = FALSE
          /\ inProc = [p \in InProcs |-> InIdle]
          /\ inCrashes = 0 /\ inTheft = FALSE /\ inLost = {}

InGo(p, pc) == inProc' = [inProc EXCEPT ![p].pc = pc]
InRoom == Len(inHistory) < InMaxHistory

\* An install passes its checks on the checkout; it goes for the lock next.
InInstall(p, sha) ==
  /\ inProc[p].pc = "idle" /\ "install" \in InKinds /\ InRoom
  /\ inProc' = [inProc EXCEPT ![p] = [InIdle EXCEPT !.pc = "lock", !.sha = sha]]
  /\ UNCHANGED <<inLocks, inMig, inReleases, inState, inLegacy, inLearning, inPast>>

\* A rollback chooses its target before it has the lock: the last line of the
\* history with another release than the current one, whose snapshot is whole.
InRollback(p) ==
  LET others == {i \in DOMAIN inHistory : inHistory[i] # inActive} IN
  /\ inProc[p].pc = "idle" /\ "rollback" \in InKinds /\ InRoom /\ others # {}
  /\ LET target == inHistory[CHOOSE i \in others : \A j \in others : j <= i] IN
       /\ target \in inReleases
       /\ inProc' = [inProc EXCEPT ![p] = [InIdle EXCEPT !.pc = "lock", !.kind = "rollback",
                                                         !.sha = target]]
  /\ UNCHANGED <<inLocks, inMig, inReleases, inState, inLegacy, inLearning, inPast>>

\* acquire_install_lock: mkdir, then the pid file. When the directory exists
\* and its pid is dead it is removed and made again, in steps of their own.
InMkdir(p) ==
  /\ inProc[p].pc \in {"lock", "again"} /\ inDir = InNone
  /\ inDir' = p
  /\ InGo(p, "pid")
  /\ UNCHANGED <<inPid, inMig, inReleases, inState, inLegacy, inLearning, inPast>>

InWritePid(p) ==
  /\ inProc[p].pc = "pid"
  /\ inPid' = IF inDir = InNone THEN inPid ELSE p
  /\ InGo(p, IF inProc[p].kind = "install" THEN "build" ELSE "stage")
  /\ UNCHANGED <<inDir, inMig, inReleases, inState, inLegacy, inLearning, inPast>>

InSeeDead(p) ==
  /\ inProc[p].pc = "lock" /\ inDir # InNone /\ inPid = InDead
  /\ InGo(p, "reclaim")
  /\ UNCHANGED <<inLocks, inMig, inReleases, inState, inLegacy, inLearning, inPast>>

InReclaim(p) ==
  /\ inProc[p].pc = "reclaim"
  /\ inDir' = InNone /\ inPid' = InNone
  /\ inTheft' = (inTheft \/ inDir \in InProcs)
  /\ InGo(p, "again")
  /\ UNCHANGED <<inMig, inReleases, inState, inLegacy, inLearning, inCrashes, inLost>>

\* "another Major installation transaction is active".
InRefused(p) ==
  /\ \/ inProc[p].pc = "lock" /\ inDir # InNone /\ inPid # InDead
     \/ inProc[p].pc = "again" /\ inDir # InNone
  /\ inProc' = [inProc EXCEPT ![p] = InIdle]
  /\ UNCHANGED <<inLocks, inMig, inReleases, inState, inLegacy, inLearning, inPast>>

\* The release gate in a scratch checkout, the worker, and the snapshot: moved
\* to the release directory unless a whole one is there.
InBuild(p) ==
  /\ inProc[p].pc = "build"
  /\ inReleases' = inReleases \cup {inProc[p].sha}
  /\ inProc' = [inProc EXCEPT ![p].pc = "service", ![p].made = inProc[p].sha \notin inReleases]
  /\ UNCHANGED <<inLocks, inMig, inState, inLegacy, inLearning, inPast>>

\* The legacy service is stopped before staging.
InStopLegacy(p) ==
  /\ inProc[p].pc = "service"
  /\ inLegacy' = IF inLegacy = "loaded" THEN "stopped" ELSE inLegacy
  /\ inProc' = [inProc EXCEPT ![p].pc = "migration", ![p].stopped = inLegacy = "loaded"]
  /\ UNCHANGED <<inLocks, inMig, inReleases, inState, inLearning, inPast>>

\* The learning migration lock; one of a dead owner is reclaimed.
InTakeMigration(p) ==
  /\ inProc[p].pc = "migration" /\ inMig \in {InNone, InDead}
  /\ inMig' = p
  /\ InGo(p, "stage")
  /\ UNCHANGED <<inLocks, inReleases, inState, inLegacy, inLearning, inPast>>

\* Slip: writers at work are not waited for.
InStage_NoWait(p) ==
  /\ inProc[p].pc = "stage"
  /\ inProc' = [inProc EXCEPT ![p].pc = "activate", ![p].copy = inLessons]
  /\ UNCHANGED <<inLocks, inMig, inReleases, inState, inLegacy, inLearning, inPast>>

\* stage-major-user-state.py: waits for the store locks, then copies the
\* learning directory. Rollback runs it without the migration lock.
InStage(p) ==
  /\ inProc[p].pc = "stage" /\ ~inWriter
  /\ inProc' = [inProc EXCEPT ![p].pc = "activate", ![p].copy = inLessons]
  /\ UNCHANGED <<inLocks, inMig, inReleases, inState, inLegacy, inLearning, inPast>>

\* activate-major-user-state.py: wrapper, record, rules and the learning
\* directory are replaced together; the legacy plist goes with an install.
InActivate(p) ==
  LET r == inProc[p] IN
  /\ r.pc = "activate"
  /\ inActive' = r.sha /\ inGate' = "passed"
  /\ inLessons' = r.copy
  /\ inLost' = IF r.copy < inLessons THEN inLost \cup {r.kind} ELSE inLost
  /\ inLegacy' = IF r.kind = "install" /\ inLegacy = "stopped" THEN "gone" ELSE inLegacy
  /\ inProc' = [inProc EXCEPT ![p] = [r EXCEPT !.pc = "record", !.made = FALSE,
                                               !.stopped = FALSE, !.copy = 0]]
  /\ UNCHANGED <<inLocks, inMig, inReleases, inHistory, inWriter, inCrashes, inTheft>>

\* The migration lock is removed and the history line appended, only now.
InRecord(p) ==
  /\ inProc[p].pc = "record"
  /\ inMig' = IF inProc[p].kind = "install" THEN InNone ELSE inMig
  /\ inHistory' = Append(inHistory, inProc[p].sha)
  /\ InGo(p, "verify")
  /\ UNCHANGED <<inLocks, inReleases, inActive, inGate, inLegacy, inLearning, inPast>>

\* The installed runtime is verified; a failure rewrites the record's gate.
InVerify(p) ==
  /\ inProc[p].pc = "verify"
  /\ \E ok \in BOOLEAN :
       inGate' = IF ok \/ inProc[p].kind = "rollback" THEN inGate ELSE "failed"
  /\ InGo(p, "cleanup")
  /\ UNCHANGED <<inLocks, inMig, inReleases, inActive, inHistory, inLegacy, inLearning, inPast>>

\* A step fails, or the activation rolled itself back: the exit trap follows.
InFails(p) ==
  /\ inProc[p].pc \in {"build", "service", "migration", "stage", "activate"}
  /\ InGo(p, "trap")
  /\ UNCHANGED <<inLocks, inMig, inReleases, inState, inLegacy, inLearning, inPast>>

\* cleanup after a failure: the migration lock, a release directory made by
\* this run, and the legacy service.
InTrap(p) ==
  LET r == inProc[p] IN
  /\ r.pc = "trap"
  /\ inMig' = IF inMig = p THEN InNone ELSE inMig
  /\ inReleases' = IF r.made THEN inReleases \ {r.sha} ELSE inReleases
  /\ inLegacy' = IF r.stopped THEN "loaded" ELSE inLegacy
  /\ InGo(p, "cleanup")
  /\ UNCHANGED <<inLocks, inState, inLearning, inPast>>

\* cleanup: the lock directory is removed, whoever made it.
InUnlock(p) ==
  /\ inProc[p].pc = "cleanup"
  /\ inDir' = InNone /\ inPid' = InNone
  /\ inTheft' = (inTheft \/ inDir \notin {p, InNone})
  /\ inProc' = [inProc EXCEPT ![p] = InIdle]
  /\ UNCHANGED <<inMig, inReleases, inState, inLegacy, inLearning, inCrashes, inLost>>

\* A learning writer takes its store lock only when it sees no migration, and
\* adds its lesson to the file before it gives the lock back.
InWriterLocks ==
  /\ ~inWriter /\ inMig = InNone /\ inLessons < InMaxLessons
  /\ inWriter' = TRUE
  /\ UNCHANGED <<inLocks, inMig, inReleases, inState, inLegacy, inLessons, inProc, inPast>>

InWriterWrites ==
  /\ inWriter
  /\ inWriter' = FALSE
  /\ inLessons' = inLessons + 1
  /\ UNCHANGED <<inLocks, inMig, inReleases, inState, inLegacy, inProc, inPast>>

\* SIGKILL: no trap runs.
InCrash(p) ==
  /\ inCrashes < InMaxCrashes /\ inProc[p].pc # "idle"
  /\ inCrashes' = inCrashes + 1
  /\ inDir' = IF inDir = p THEN InDead ELSE inDir
  /\ inPid' = IF inPid = p THEN InDead ELSE inPid
  /\ inMig' = IF inMig = p THEN InDead ELSE inMig
  /\ inProc' = [inProc EXCEPT ![p] = InIdle]
  /\ UNCHANGED <<inReleases, inState, inLegacy, inLearning, inTheft, inLost>>

InNext == \/ \E p \in InProcs :
               \/ \E sha \in InShas : InInstall(p, sha)
               \/ InRollback(p) \/ InMkdir(p) \/ InWritePid(p) \/ InSeeDead(p) \/ InReclaim(p)
               \/ InRefused(p) \/ InBuild(p) \/ InStopLegacy(p) \/ InTakeMigration(p)
               \/ InStage(p) \/ InActivate(p) \/ InRecord(p) \/ InVerify(p) \/ InFails(p)
               \/ InTrap(p) \/ InUnlock(p) \/ InCrash(p)
          \/ InWriterLocks \/ InWriterWrites

InSpec == InInit /\ [][InNext]_inVars
-----------------------------------------------------------------------------
\* Locks, releases, history and processes have their types; the pid file is in
\* the lock directory.
InTypeOK ==
  /\ {inDir, inPid, inMig} \subseteq InProcs \cup {InNone, InDead}
  /\ inPid # InNone => inDir # InNone
  /\ inReleases \subseteq InShas /\ inActive \in InShas /\ inGate \in {"passed", "failed"}
  /\ inHistory \in Seq(InShas)
  /\ inLegacy \in {"loaded", "stopped", "gone"} /\ inLessons \in Nat

InHolding == {p \in InProcs : inProc[p].pc \in {"build", "service", "migration", "stage",
                "activate", "record", "verify", "trap", "cleanup"}}

\* One installation transaction at a time, across installs and rollbacks, as
\* long as no lock directory of a live process was reclaimed as stale.
InOneTransaction == ~inTheft => \A p, q \in InHolding : p = q

\* The wrapper never runs a release whose directory is gone: neither the
\* removal of a failed install's snapshot nor a rollback to an old release,
\* chosen before the lock was taken, leaves the active release missing.
InActiveIsThere == ~inTheft => inActive \in inReleases

\* "A failed or aborted install must never record a history entry for a release
\* that never became active"; and between transactions the last line of the
\* history is the active release, unless an installer was killed.
InHistoryTrue ==
  InHolding = {} /\ inCrashes = 0 => Last(inHistory) = inActive

\* An install activates the learning state it staged; no lesson captured
\* meanwhile is lost, because writers wait for the migration lock and those
\* already writing are waited for.
InInstallKeepsLessons == ~inTheft => "install" \notin inLost

\* After a failed install the legacy service runs as before: it is stopped only
\* inside a transaction, or by one that was killed.
InLegacyRestored == InHolding = {} /\ inCrashes = 0 => inLegacy # "stopped"

\* The same of every activation: "Installers create .migration.lock before
\* invoking this stager. New writers therefore wait" (stage-major-user-state.py).
InLessonsKept == inLost = {}

\* What installs and rollbacks that fail, die or overlap leave behind: the parts
\* above.
InSafe ==
  /\ InTypeOK
  /\ InOneTransaction
  /\ InActiveIsThere
  /\ InHistoryTrue
  /\ InInstallKeepsLessons
  /\ InLegacyRestored

-----------------------------------------------------------------------------
(* The inductive invariant of the proofs *)

InPcs == {"idle", "lock", "reclaim", "again", "pid", "build", "service", "migration", "stage",
          "activate", "record", "verify", "trap", "cleanup"}
InRec == [pc : InPcs, kind : {"install", "rollback"}, sha : InShas, made : BOOLEAN,
          stopped : BOOLEAN, copy : Nat]

\* The process has made the lock directory and has yet to remove it.
InInside(r) == r.pc \notin {"idle", "lock", "reclaim", "again"}
InWas(s) == \E i \in DOMAIN inHistory : inHistory[i] = s

InWorld ==
  /\ {inDir, inPid, inMig} \subseteq InProcs \cup {InNone, InDead}
  /\ inPid # InNone => inDir # InNone
  /\ inReleases \subseteq InShas /\ inActive \in InShas /\ inGate \in {"passed", "failed"}
  /\ inHistory \in Seq(InShas) /\ inHistory # <<>>
  /\ inLegacy \in {"loaded", "stopped", "gone"} /\ inLessons \in Nat
  /\ inProc \in [InProcs -> InRec] /\ inWriter \in BOOLEAN /\ inTheft \in BOOLEAN
  /\ inCrashes \in Nat

\* What a process relies on while no live one lost its lock directory: the lock
\* is its own, a rollback's target is in the history, a directory it made is of a
\* release that never was active, what it will activate is there, and an install
\* that stages has kept the writers out.
InOwn(p, r) ==
  /\ InInside(r) => inDir = p
  /\ r.kind = "rollback" /\ r.pc # "idle" => InWas(r.sha)
  /\ r.made => InInside(r) /\ ~InWas(r.sha) /\ r.sha # inActive
  /\ r.kind = "install" /\ r.pc \in {"service", "migration", "stage", "activate"}
       => r.sha \in inReleases
  /\ r.pc = "record" => r.sha = inActive
  /\ r.kind = "install" /\ r.pc \in {"stage", "activate"} => inMig = p
  /\ r.kind = "install" /\ r.pc = "activate" => r.copy = inLessons /\ ~inWriter

\* Without a death no lock is stale.
InNobodyDied == inCrashes = 0 =>
  /\ ~inTheft /\ inDir # InDead /\ inPid # InDead
  /\ \A p \in InProcs : inProc[p].pc \notin {"reclaim", "again"}

InKept == ~inTheft => /\ inActive \in inReleases /\ \A s \in InShas : InWas(s) => s \in inReleases
                      /\ "install" \notin inLost

InRecorded == inCrashes = 0 /\ (\A p \in InProcs : inProc[p].pc # "record")
                => inHistory[Len(inHistory)] = inActive

\* Who stopped the legacy service is still to start it again or to replace it.
InStops(r) == r.stopped /\ r.kind = "install" /\ r.pc \in {"migration", "stage", "activate", "trap"}
InStopped ==
  /\ \A p \in InProcs : inProc[p].pc \in {"build", "service", "migration"} => inProc[p].kind = "install"
  /\ inCrashes = 0 /\ inLegacy = "stopped" =>
       \E p \in InProcs : InStops(inProc[p])

InInv == /\ InWorld /\ InNobodyDied /\ InKept /\ InRecorded /\ InStopped
         /\ ~inTheft => \A p \in InProcs : InOwn(p, inProc[p])
=============================================================================
