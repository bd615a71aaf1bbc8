--------------------------- MODULE MachineCleanup ---------------------------
(***************************************************************************)
(* Cleaning up the machine (src/resources: cleanup.ts, inventory.ts,        *)
(* compaction.ts, reconcile.ts): a cleaner lists the workers, reads the GC  *)
(* roots and the directories, then removes and compacts what its plan says, *)
(* one resource at a time.  Installs and rollbacks move the roots beside    *)
(* it, and Lima runs leave run directories that later runs reconcile.       *)
(* Installs provision a worker per release (Lima compatibility); the        *)
(* installer itself is detailed in ReleaseInstall.                          *)
(***************************************************************************)
EXTENDS Naturals, Sequences

CONSTANTS McShas,         \* releases; each may have a snapshot and a worker
          McFirst,        \* the release installed at the start
          McCleaners,     \* processes that clean: CLI, Lima runs, daemon exit
          McRuns,         \* run directories under execution/lima/runs, oldest first
          McKeepNewest,   \* RETENTION.executionRuns.keepNewest
          McMaxHistory,   \* bound: lines of install-history.jsonl
          McTogether,     \* whether an install may start beside a cleaner, and a cleaner beside it
          McNone          \* nothing

ASSUME McAssumption == /\ McFirst \in McShas /\ McNone \notin McShas
                       /\ McRuns \in Nat /\ McKeepNewest \in Nat \ {0} /\ McMaxHistory \in Nat
                       /\ McTogether \in BOOLEAN

VARIABLES
  mcTree,      \* snapshots under releases/
  mcArch,      \* their archives: "none", "part" (not empty, not whole) or "full"
  mcVms,       \* releases that have a worker instance
  mcActive,    \* installed-release.json
  mcWorker,    \* execution.json: the release of the active worker
  mcHistory,   \* install-history.jsonl
  mcInst,      \* the installer or rollback that has the install lock
  mcRun,       \* run directories: "none", "pending" or "terminal" by their manifest
  mcOld,       \* run directories older than 48 hours
  mcLive,      \* the run in progress, or 0
  mcGuest,     \* runs that have left paths in the guest
  mcCl,        \* per cleaner: where it is and its plan
  mcDropped    \* history: releases given up by a failed install or an aggressive cleanup

mcRoots == <<mcActive, mcWorker, mcHistory>>
mcRunState == <<mcRun, mcOld, mcLive, mcGuest>>
mcDisk == <<mcTree, mcArch, mcVms>>
mcVars == <<mcDisk, mcRoots, mcInst, mcRunState, mcCl, mcDropped>>

McQuiet == [pc |-> "idle", aggressive |-> FALSE, vms |-> {}, rels |-> {}, runs |-> {},
            compact |-> {}, cur |-> McNone]
McNoInstall == [pc |-> "idle", sha |-> McNone, made |-> {}]

McInit == /\ mcTree = {McFirst} /\ mcVms = {McFirst}
          /\ mcArch = [s \in McShas |-> "none"]
          /\ mcActive = McFirst /\ mcWorker = McFirst /\ mcHistory = <<McFirst>>
          /\ mcInst = McNoInstall
          /\ mcRun = [r \in 1..McRuns |-> "none"] /\ mcOld = {} /\ mcLive = 0 /\ mcGuest = {}
          /\ mcCl = [c \in McCleaners |-> McQuiet]
          /\ mcDropped = {}

-----------------------------------------------------------------------------
(* The roots: readGcRoots and rollbackShas.                                 *)

\* The newest line of the history that is another release than sha.
McPredecessor(sha) ==
  LET others == {i \in DOMAIN mcHistory : mcHistory[i] # sha} IN
  IF others = {} THEN {} ELSE {mcHistory[CHOOSE i \in others : \A j \in others : j <= i]}

McRollbackShas == McPredecessor(mcActive)

\* classifyResource, kind release-snapshot: neither active nor the rollback.
McCold(s) == s # mcActive /\ s \notin McRollbackShas

\* classifyResource, kind lima-instance, a per-release name: reclaimable when an
\* active worker is known and it is neither that one, the rollback's, nor the
\* one of the installed release.
McOrphanVm(s) == mcWorker # McNone /\ s \notin {mcWorker, mcActive} \cup McRollbackShas

\* Slip: the newest runs are not kept.
McExpiredRun_AgeOnly(r) == mcRun[r] # "none" /\ r \in mcOld

\* classifyResource, kind execution-run: outside the newest and past its age.
McExpiredRun(r) == /\ mcRun[r] # "none" /\ r \in mcOld
                   /\ \E newer \in SUBSET {n \in r+1..McRuns : mcRun[n] # "none"} :
                        \E f \in [1..McKeepNewest -> newer] :
                          \A i, j \in 1..McKeepNewest : f[i] = f[j] => i = j

-----------------------------------------------------------------------------
(* Installs and rollbacks, as far as the roots go.                          *)

McCleaning == \E c \in McCleaners : mcCl[c].pc # "idle"
McRoom == Len(mcHistory) < McMaxHistory

\* The worker is provisioned and the snapshot published before activation.
McPlace(s) ==
  /\ mcInst.pc = "idle" /\ McRoom
  /\ mcTree' = mcTree \cup {s} /\ mcVms' = mcVms \cup {s}
  /\ mcInst' = [pc |-> "placed", sha |-> s,
                made |-> (IF s \in mcTree THEN {} ELSE {"tree"})
                         \cup (IF s \in mcVms THEN {} ELSE {"vm"})]
  /\ mcDropped' = mcDropped \ {s}
  /\ McTogether \/ ~McCleaning
  /\ UNCHANGED <<mcArch, mcRoots, mcRunState, mcCl>>

\* A rollback takes the predecessor when its snapshot is whole.
McRollback ==
  /\ mcInst.pc = "idle" /\ McRoom
  /\ \E s \in McRollbackShas \cap mcTree :
       mcInst' = [pc |-> "placed", sha |-> s, made |-> {}]
  /\ McTogether \/ ~McCleaning
  /\ UNCHANGED <<mcDisk, mcRoots, mcRunState, mcCl, mcDropped>>

\* The activation replaces the record and execution.json together.
McActivate ==
  /\ mcInst.pc = "placed"
  /\ mcActive' = mcInst.sha /\ mcWorker' = mcInst.sha
  /\ mcInst' = [mcInst EXCEPT !.pc = "record"]
  /\ UNCHANGED <<mcDisk, mcHistory, mcRunState, mcCl, mcDropped>>

McRecord ==
  /\ mcInst.pc = "record"
  /\ mcHistory' = Append(mcHistory, mcInst.sha)
  /\ mcInst' = McNoInstall
  /\ UNCHANGED <<mcDisk, mcActive, mcWorker, mcRunState, mcCl, mcDropped>>

\* The trap of an install that failed removes what it made.
McAbandon ==
  /\ mcInst.pc = "placed"
  /\ mcTree' = IF "tree" \in mcInst.made THEN mcTree \ {mcInst.sha} ELSE mcTree
  /\ mcVms' = IF "vm" \in mcInst.made THEN mcVms \ {mcInst.sha} ELSE mcVms
  /\ mcDropped' = IF "tree" \in mcInst.made THEN mcDropped \cup {mcInst.sha} ELSE mcDropped
  /\ mcInst' = McNoInstall
  /\ UNCHANGED <<mcArch, mcRoots, mcRunState, mcCl>>

-----------------------------------------------------------------------------
(* Lima runs, as far as their directories go (see LimaBackend).             *)

\* Under the instance lock: every pending manifest is reconciled, its guest
\* paths removed, before the directory of a new run is made.
McRunStarts(r) ==
  /\ mcLive = 0 /\ \A n \in r..McRuns : mcRun[n] = "none"
  /\ \A n \in 1..r-1 : mcRun[n] # "none" \/ n \in mcOld
  /\ mcRun' = [n \in 1..McRuns |-> IF n = r THEN "pending"
                                   ELSE IF mcRun[n] = "pending" THEN "terminal" ELSE mcRun[n]]
  /\ mcLive' = r
  /\ mcGuest' = {r} \cup {n \in mcGuest : mcRun[n] # "pending"}
  /\ UNCHANGED <<mcDisk, mcRoots, mcInst, mcOld, mcCl, mcDropped>>

McRunEnds ==
  /\ mcLive # 0
  /\ \/ mcRun' = [mcRun EXCEPT ![mcLive] = "terminal"] /\ mcGuest' = mcGuest \ {mcLive}
     \/ UNCHANGED <<mcRun, mcGuest>>        \* killed
  /\ mcLive' = 0
  /\ UNCHANGED <<mcDisk, mcRoots, mcInst, mcOld, mcCl, mcDropped>>

McAge ==
  /\ \E r \in 1..McRuns : mcRun[r] # "none" /\ mcOld' = mcOld \cup 1..r /\ mcOld' # mcOld
  /\ UNCHANGED <<mcDisk, mcRoots, mcInst, mcRun, mcLive, mcGuest, mcCl, mcDropped>>

-----------------------------------------------------------------------------
(* A cleaner.                                                               *)

\* productionCleanupDeps: the workers are listed; a list that fails counts as
\* one instance of class unknown, which is never deleted.
McList(c, aggressive) ==
  /\ mcCl[c].pc = "idle"
  /\ \E listed \in {mcVms, {}} :
       mcCl' = [mcCl EXCEPT ![c] = [McQuiet EXCEPT !.pc = "scan", !.vms = listed,
                                                   !.aggressive = aggressive]]
  /\ McTogether \/ mcInst.pc = "idle"
  /\ UNCHANGED <<mcDisk, mcRoots, mcInst, mcRunState, mcDropped>>

\* planCleanup: what the inventory says now, against the workers listed before.
\* Cold snapshots are compacted; an aggressive cleanup removes them instead.
McScan(c) ==
  LET cold == {s \in mcTree : McCold(s)} IN
  /\ mcCl[c].pc = "scan"
  /\ mcCl' = [mcCl EXCEPT
       ![c].pc = "apply",
       ![c].vms = {s \in mcCl[c].vms : McOrphanVm(s)},
       ![c].rels = IF mcCl[c].aggressive THEN cold ELSE {},
       ![c].runs = {r \in 1..McRuns : McExpiredRun(r)},
       ![c].compact = IF mcCl[c].aggressive THEN {} ELSE cold]
  /\ UNCHANGED <<mcDisk, mcRoots, mcInst, mcRunState, mcDropped>>

\* applyCleanup, the removals: the class is the one of the scan. A removal that
\* fails is logged and passed over.
McRemoveVm(c) ==
  /\ mcCl[c].pc = "apply"
  /\ \E s \in mcCl[c].vms :
       /\ mcCl' = [mcCl EXCEPT ![c].vms = @ \ {s}]
       /\ mcVms' \in {mcVms, mcVms \ {s}}
  /\ UNCHANGED <<mcTree, mcArch, mcRoots, mcInst, mcRunState, mcDropped>>

McRemoveRelease(c) ==
  /\ mcCl[c].pc = "apply" /\ mcCl[c].vms = {}
  /\ \E s \in mcCl[c].rels :
       /\ mcCl' = [mcCl EXCEPT ![c].rels = @ \ {s}]
       /\ mcTree' = mcTree \ {s}
       /\ mcDropped' = mcDropped \cup {s}
  /\ UNCHANGED <<mcArch, mcVms, mcRoots, mcInst, mcRunState>>

McRemoveRun(c) ==
  /\ mcCl[c].pc = "apply" /\ mcCl[c].vms = {} /\ mcCl[c].rels = {}
  /\ \E r \in mcCl[c].runs :
       /\ mcCl' = [mcCl EXCEPT ![c].runs = @ \ {r}]
       /\ mcRun' = [mcRun EXCEPT ![r] = "none"]
  /\ UNCHANGED <<mcDisk, mcRoots, mcInst, mcOld, mcLive, mcGuest, mcDropped>>

McRemoved(c) == mcCl[c].vms = {} /\ mcCl[c].rels = {} /\ mcCl[c].runs = {}

\* The next cold snapshot: an archive that is not empty is taken as done;
\* otherwise tar starts on it, over whatever is there.
McArchive(c) ==
  /\ mcCl[c].pc = "apply" /\ McRemoved(c)
  /\ \E s \in mcCl[c].compact :
       IF mcArch[s] # "none"
         THEN mcCl' = [mcCl EXCEPT ![c].pc = "reclaim", ![c].cur = s] /\ UNCHANGED mcArch
         ELSE /\ mcCl' = [mcCl EXCEPT ![c].pc = "tar", ![c].cur = s]
              /\ mcArch' = [mcArch EXCEPT ![s] = "part"]
  /\ UNCHANGED <<mcTree, mcVms, mcRoots, mcInst, mcRunState, mcDropped>>

\* tar ends: whole when the tree stayed; otherwise, or after its two minutes,
\* it fails and the resource is passed over with the archive left behind.
McTarEnds(c) ==
  LET s == mcCl[c].cur IN
  /\ mcCl[c].pc = "tar"
  /\ \/ /\ s \in mcTree
        /\ mcArch' = [mcArch EXCEPT ![s] = "full"]
        /\ mcCl' = [mcCl EXCEPT ![c].pc = "reclaim"]
     \/ /\ mcCl' = [mcCl EXCEPT ![c].pc = "apply", ![c].cur = McNone, ![c].compact = @ \ {s}]
        /\ UNCHANGED mcArch
  /\ UNCHANGED <<mcTree, mcVms, mcRoots, mcInst, mcRunState, mcDropped>>

\* The tree is removed once its archive is there and not empty.
McReclaim(c) ==
  /\ mcCl[c].pc = "reclaim"
  /\ mcTree' = IF mcArch[mcCl[c].cur] # "none" THEN mcTree \ {mcCl[c].cur} ELSE mcTree
  /\ mcCl' = [mcCl EXCEPT ![c].pc = "apply", ![c].cur = McNone, ![c].compact = @ \ {mcCl[c].cur}]
  /\ UNCHANGED <<mcArch, mcVms, mcRoots, mcInst, mcRunState, mcDropped>>

\* The plan is done, or the cleaner is killed anywhere in it.
McCleanEnds(c) ==
  /\ mcCl[c].pc # "idle"
  /\ mcCl' = [mcCl EXCEPT ![c] = McQuiet]
  /\ UNCHANGED <<mcDisk, mcRoots, mcInst, mcRunState, mcDropped>>

McNext == \/ \E s \in McShas : McPlace(s)
          \/ McRollback \/ McActivate \/ McRecord \/ McAbandon
          \/ \E r \in 1..McRuns : McRunStarts(r)
          \/ McRunEnds \/ McAge
          \/ \E c \in McCleaners :
               \/ \E aggressive \in BOOLEAN : McList(c, aggressive)
               \/ McScan(c) \/ McRemoveVm(c) \/ McRemoveRelease(c) \/ McRemoveRun(c)
               \/ McArchive(c) \/ McTarEnds(c) \/ McReclaim(c) \/ McCleanEnds(c)

McSpec == McInit /\ [][McNext]_mcVars

-----------------------------------------------------------------------------
\* Disk, roots, runs and cleaners have their types; a cleaner has a snapshot in
\* hand exactly while it archives or reclaims it.
McTypeOK ==
  /\ mcTree \subseteq McShas /\ mcVms \subseteq McShas
  /\ mcArch \in [McShas -> {"none", "part", "full"}]
  /\ mcActive \in McShas /\ mcWorker \in McShas /\ mcHistory \in Seq(McShas)
  /\ mcInst.pc \in {"idle", "placed", "record"}
  /\ mcRun \in [1..McRuns -> {"none", "pending", "terminal"}]
  /\ mcOld \subseteq 1..McRuns /\ mcLive \in 0..McRuns /\ mcGuest \subseteq 1..McRuns
  /\ \A c \in McCleaners : /\ mcCl[c].pc \in {"idle", "scan", "apply", "tar", "reclaim"}
                              /\ (mcCl[c].cur = McNone) = (mcCl[c].pc \notin {"tar", "reclaim"})
  /\ mcDropped \subseteq McShas

\* However many cleaners work at once and wherever they are killed, the installed
\* release keeps its snapshot and its worker and a rollback has its target, as
\* long as no installer was at work beside a cleaner (inventory.ts:288-345).
McRootsKept == ~McTogether => /\ mcActive \in mcTree /\ mcWorker \in mcVms
                              /\ McRollbackShas \subseteq mcTree

\* A run directory whose guest paths are still to be removed is never cleaned
\* away: its manifest is the only record of them (inventory.ts:389-408).
McPendingRunKept == \A r \in mcGuest : mcRun[r] = "pending"

\* "Skip only the expensive archive step when a good archive already exists"
\* (cleanup.ts:161): a release that nobody discarded is there as its snapshot or
\* as a whole archive.
McColdIsKept == \A s \in McShas \ mcDropped :
                  mcArch[s] # "none" => s \in mcTree \/ mcArch[s] = "full"

\* What no clean-up takes away: the parts above.
McSafe == McTypeOK /\ McRootsKept /\ McPendingRunKept

-----------------------------------------------------------------------------
(* The inductive invariant of the proofs *)

McPlan == [pc : {"idle", "scan", "apply", "tar", "reclaim"}, aggressive : BOOLEAN,
           vms : SUBSET McShas, rels : SUBSET McShas, runs : SUBSET (1..McRuns),
           compact : SUBSET McShas, cur : McShas \cup {McNone}]
McInstall == [pc : {"idle", "placed", "record"}, sha : McShas \cup {McNone},
              made : SUBSET {"tree", "vm"}]

McWorld ==
  /\ mcTree \subseteq McShas /\ mcVms \subseteq McShas /\ mcDropped \subseteq McShas
  /\ mcArch \in [McShas -> {"none", "part", "full"}]
  /\ mcActive \in McShas /\ mcWorker \in McShas
  /\ mcHistory \in Seq(McShas) /\ mcHistory # <<>>
  /\ mcInst \in McInstall /\ (mcInst.pc # "idle" => mcInst.sha \in McShas)
  /\ mcRun \in [1..McRuns -> {"none", "pending", "terminal"}]
  /\ mcOld \subseteq 1..McRuns /\ mcLive \in 0..McRuns /\ mcGuest \subseteq 1..McRuns
  /\ mcCl \in [McCleaners -> McPlan]

\* While no installer works beside a cleaner, the last line of the history is the
\* active release but for the step between activation and record, active and
\* rollback releases have snapshot and worker, and what a failed install will
\* remove is neither.
McNeeded == {mcActive} \cup McRollbackShas
McRootsThere == ~McTogether =>
  /\ mcInst.pc = "idle" \/ \A c \in McCleaners : mcCl[c].pc = "idle"
  /\ mcWorker = mcActive /\ McNeeded \subseteq mcTree \cap mcVms
  /\ mcInst.pc # "record" => mcHistory[Len(mcHistory)] = mcActive
  /\ mcInst.pc = "placed" => mcInst.sha \in mcTree \cap mcVms
  /\ mcInst.pc = "placed" /\ mcInst.made # {} => mcInst.sha \notin McNeeded
  /\ mcInst.pc = "record" => mcInst.sha = mcActive

\* A plan names no root, and no run without a newer one that is still there.
McPlanOK(p) ==
  /\ (p.cur = McNone) = (p.pc \notin {"tar", "reclaim"})
  /\ p.pc \in {"apply", "tar", "reclaim"} =>
       /\ ~McTogether => (p.vms \cup p.rels \cup p.compact) \cap McNeeded = {}
       /\ p.pc # "apply" => p.cur \in p.compact
       /\ \A r \in p.runs : \E n \in r+1..McRuns : mcRun[n] # "none"

\* Paths are in the guest for the newest run only, the run in progress included.
McNewestOnly ==
  /\ mcLive # 0 => mcLive \in mcGuest
  /\ \A r \in mcGuest : mcRun[r] = "pending" /\ \A n \in r+1..McRuns : mcRun[n] = "none"

McInv == McWorld /\ McRootsThere /\ McNewestOnly /\ \A c \in McCleaners : McPlanOK(mcCl[c])
=============================================================================
