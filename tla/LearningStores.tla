--------------------------- MODULE LearningStores ---------------------------
(***************************************************************************)
(* The learning stores (src/src/learning/candidates.ts): one file per       *)
(* project, one global file, each behind a lock file, and the migration of  *)
(* the store a project had under its directory name, behind a lock of its   *)
(* own. A writer of a store makes its lock, then looks for a migration and  *)
(* backs off; a migration makes its lock, then waits for the store locks.   *)
(* Promotion holds the project lock while it takes the global one. The      *)
(* installer (acquire-major-learning-migration-lock.py) takes the migration *)
(* lock too. A lock file of a dead owner is removed in one step: the code   *)
(* compares device, inode and time again just before the unlink.            *)
(***************************************************************************)
EXTENDS Naturals, FiniteSets

CONSTANTS LsProcs,        \* processes using the stores
          LsMaxCount,     \* bound: occurrences of one candidate
          LsMaxCrashes,   \* bound: processes that may die
          LsNone, LsDead  \* no owner; an owner that is no longer alive

ASSUME LsAssumption ==
  /\ LsMaxCount \in Nat \ {0, 1} /\ LsMaxCrashes \in Nat
  /\ LsNone \notin LsProcs /\ LsDead \notin LsProcs /\ LsNone # LsDead

LsFiles == {"legacy", "project", "global"}
\* The candidate the legacy store held, and one captured since.
LsIds == {"old", "new"}
\* A call on the project's store is one of the four operations below; which
\* one, and on which candidate, matters only once the lock is held.
LsOps == {"local", "retract", "install"}

VARIABLES
  lsLegacy,   \* the legacy store file still exists
  lsLocal,    \* the project store: candidate -> [n, st, from]
  lsGlobal,   \* the active global record: its count and the evidence digests
  lsLock,     \* <file>.lock: its owner
  lsMig,      \* .migration.lock: its owner
  lsProc,     \* per process: operation, place in it, candidate and its copy
  lsCrashes

lsVars == <<lsLegacy, lsLocal, lsGlobal, lsLock, lsMig, lsProc, lsCrashes>>
lsStores == <<lsLegacy, lsLocal, lsGlobal>>

LsAbsent == [n |-> 0, st |-> "none"]
LsOld == [n |-> 2, st |-> "candidate"]
LsIdle == [op |-> "none", pc |-> "idle", on |-> "project", id |-> "new", copy |-> LsAbsent]

LsInit == /\ lsLegacy \in BOOLEAN
          /\ lsLocal = [i \in LsIds |-> LsAbsent]
          /\ lsGlobal = [n |-> 0, evidence |-> {}]
          /\ lsLock = [f \in LsFiles |-> LsNone]
          /\ lsMig = LsNone
          /\ lsProc = [p \in LsProcs |-> LsIdle]
          /\ lsCrashes = 0

LsGo(p, pc) == lsProc' = [lsProc EXCEPT ![p].pc = pc]
LsEnd(p) == lsProc' = [lsProc EXCEPT ![p] = LsIdle]
LsFree(locks) == [f \in LsFiles |-> IF f \in locks THEN LsNone ELSE lsLock[f]]

\* An operation begins. A legacy store that is seen is migrated first.
LsCall(p, op) ==
  /\ lsProc[p].pc = "idle"
  /\ lsProc' = [lsProc EXCEPT ![p] =
       [LsIdle EXCEPT !.op = op, !.on = IF op = "retract" THEN "global" ELSE "project",
                      !.pc = IF op = "install" \/ (op = "local" /\ lsLegacy)
                             THEN "mig" ELSE "seek"]]
  /\ UNCHANGED <<lsStores, lsLock, lsMig, lsCrashes>>

\* withMigrationLock: the lock file is created exclusively. The installer does
\* not wait for one that exists.
LsMigLock(p) ==
  /\ lsProc[p].pc = "mig" /\ lsMig = LsNone
  /\ lsMig' = p
  /\ LsGo(p, IF lsProc[p].op = "install" THEN "installing" ELSE "drain")
  /\ UNCHANGED <<lsStores, lsLock, lsCrashes>>

LsInstallRefused(p) ==
  /\ lsProc[p].pc = "mig" /\ lsProc[p].op = "install" /\ lsMig # LsNone
  /\ LsEnd(p)
  /\ UNCHANGED <<lsStores, lsLock, lsMig, lsCrashes>>

LsInstallDone(p) ==
  /\ lsProc[p].pc = "installing"
  /\ lsMig' = LsNone
  /\ LsEnd(p)
  /\ UNCHANGED <<lsStores, lsLock, lsCrashes>>

\* Slip: only the legacy store is waited for.
LsDrained_LegacyOnly == lsLock["legacy"] = LsNone

\* No writer holds a lock of the two stores.
LsDrained == lsLock["legacy"] = LsNone /\ lsLock["project"] = LsNone
LsDrain(p) ==
  /\ lsProc[p].pc = "drain" /\ LsDrained
  /\ LsGo(p, "merge")
  /\ UNCHANGED <<lsStores, lsLock, lsMig, lsCrashes>>

\* The merge: the legacy candidate replaces the project's copy only when it
\* has more occurrences. A legacy store of other repositories stays as it is.
LsMerge(p) ==
  LET prior == lsLocal["old"] IN
  /\ lsProc[p].pc = "merge"
  /\ \/ /\ lsLegacy
        /\ lsLocal' = [lsLocal EXCEPT !["old"] = IF prior.st = "none" \/ LsOld.n > prior.n
                                                 THEN LsOld ELSE prior]
        /\ LsGo(p, "drop")
     \/ /\ UNCHANGED lsLocal
        /\ LsGo(p, "migrated")
  /\ UNCHANGED <<lsLegacy, lsGlobal, lsLock, lsMig, lsCrashes>>

LsDropLegacy(p) ==
  /\ lsProc[p].pc = "drop"
  /\ lsLegacy' = FALSE
  /\ LsGo(p, "migrated")
  /\ UNCHANGED <<lsLocal, lsGlobal, lsLock, lsMig, lsCrashes>>

LsMigUnlock(p) ==
  /\ lsProc[p].pc = "migrated"
  /\ lsMig' = LsNone
  /\ LsGo(p, "seek")
  /\ UNCHANGED <<lsStores, lsLock, lsCrashes>>

\* withStoreLock: waitForMigration, the exclusive create, and the second look
\* at the migration lock, which gives the store lock back.
LsSeek(p) ==
  /\ lsProc[p].pc = "seek" /\ lsMig = LsNone
  /\ LsGo(p, "create")
  /\ UNCHANGED <<lsStores, lsLock, lsMig, lsCrashes>>

LsCreate(p) ==
  /\ lsProc[p].pc = "create"
  /\ \/ /\ lsLock[lsProc[p].on] = LsNone
        /\ lsLock' = [lsLock EXCEPT ![lsProc[p].on] = p]
        /\ LsGo(p, "recheck")
     \/ /\ lsLock[lsProc[p].on] # LsNone
        /\ LsGo(p, "seek")
        /\ UNCHANGED lsLock
  /\ UNCHANGED <<lsStores, lsMig, lsCrashes>>

LsRecheck(p) ==
  /\ lsProc[p].pc = "recheck"
  /\ \/ /\ lsMig # LsNone
        /\ lsLock' = [lsLock EXCEPT ![lsProc[p].on] = LsNone]
        /\ LsGo(p, "seek")
     \/ /\ lsMig = LsNone
        /\ LsGo(p, IF lsProc[p].op = "local" /\ lsProc[p].on = "global" THEN "count" ELSE "act")
        /\ UNCHANGED lsLock
  /\ UNCHANGED <<lsStores, lsMig, lsCrashes>>

\* The locks p holds itself, without the global one of a promotion that waits.
LsHolds(p) == {f \in LsFiles : lsLock[f] = p}

\* Slip: only the wait for the migration lock has a deadline.
LsTimeout_MigrationLockOnly(p) ==
  /\ lsProc[p].pc = "mig" /\ lsMig # LsNone /\ lsProc[p].op # "install"
  /\ lsLock' = LsFree(LsHolds(p))
  /\ LsEnd(p)
  /\ UNCHANGED <<lsMig, lsStores, lsCrashes>>

\* The deadline of a wait: the call throws, its locks are given back.
LsTimeout(p) ==
  /\ \/ lsProc[p].pc = "mig" /\ lsMig # LsNone /\ lsProc[p].op # "install"
     \/ lsProc[p].pc = "drain" /\ ~LsDrained
     \/ lsProc[p].pc \in {"seek", "create"}
          /\ (lsMig # LsNone \/ lsLock[lsProc[p].on] # LsNone)
  /\ lsLock' = LsFree(LsHolds(p))
  /\ lsMig' = IF lsMig = p THEN LsNone ELSE lsMig
  /\ LsEnd(p)
  /\ UNCHANGED <<lsStores, lsCrashes>>

\* A waiting process removes a lock file whose owner is dead.
LsRemoveStale(p) ==
  /\ \/ /\ lsProc[p].pc \in {"mig", "seek"} /\ lsMig = LsDead
        /\ lsMig' = LsNone
        /\ UNCHANGED lsLock
     \/ \E f \in LsFiles :
          /\ lsLock[f] = LsDead
          /\ \/ lsProc[p].pc = "create" /\ lsProc[p].on = f
             \/ lsProc[p].pc = "drain" /\ f # "global"
          /\ lsLock' = [lsLock EXCEPT ![f] = LsNone]
          /\ UNCHANGED lsMig
  /\ UNCHANGED <<lsStores, lsProc, lsCrashes>>

\* captureLearning: another occurrence of an open candidate, or a new one.
LsCapture(p) ==
  LET open == {i \in LsIds : lsLocal[i].st = "candidate"} IN
  /\ lsProc[p].pc = "act" /\ lsProc[p].op = "local"
  /\ \/ \E i \in open : lsLocal' = [lsLocal EXCEPT ![i].n = IF @ < LsMaxCount THEN @ + 1 ELSE @]
     \/ /\ open = {} /\ lsLocal["new"].st = "none"
        /\ lsLocal' = [lsLocal EXCEPT !["new"] = [n |-> 1, st |-> "candidate"]]
     \/ open = {} /\ lsLocal["new"].st # "none" /\ UNCHANGED lsLocal  \* bound: no third candidate
  /\ lsLock' = LsFree(LsHolds(p))
  /\ LsEnd(p)
  /\ UNCHANGED <<lsLegacy, lsGlobal, lsMig, lsCrashes>>

\* promoteLearning within the project and dismissLearning; a candidate that is
\* missing or already decided is refused.
LsDecide(p) ==
  /\ lsProc[p].pc = "act" /\ lsProc[p].op = "local"
  /\ \E i \in LsIds :
       \/ /\ lsLocal[i].st = "candidate"
          /\ \E st \in {"promoted", "dismissed"} : lsLocal' = [lsLocal EXCEPT ![i].st = st]
       \/ lsLocal[i].st # "candidate" /\ UNCHANGED lsLocal
  /\ lsLock' = LsFree(LsHolds(p))
  /\ LsEnd(p)
  /\ UNCHANGED <<lsLegacy, lsGlobal, lsMig, lsCrashes>>

\* promoteLearning to the global store: a recurring candidate is read, and the
\* global lock is sought while the project lock is held.
LsPromote(p) ==
  /\ lsProc[p].pc = "act" /\ lsProc[p].op = "local"
  /\ \E i \in LsIds :
       \/ /\ lsLocal[i].st = "candidate" /\ lsLocal[i].n >= 2
          /\ lsProc' = [lsProc EXCEPT ![p].pc = "seek", ![p].on = "global", ![p].id = i,
                                      ![p].copy = lsLocal[i]]
          /\ UNCHANGED lsLock
       \/ /\ lsLocal[i].st # "candidate" \/ lsLocal[i].n < 2
          /\ lsLock' = LsFree(LsHolds(p))
          /\ LsEnd(p)
  /\ UNCHANGED <<lsStores, lsMig, lsCrashes>>

\* The global record counts a candidate once per evidence digest; a retry of
\* the same promotion brings the same evidence.
LsCount(p) ==
  LET r == lsProc[p] IN
  /\ r.pc = "count"
  /\ lsGlobal' = IF r.id \in lsGlobal.evidence THEN lsGlobal
                 ELSE [n |-> lsGlobal.n + r.copy.n, evidence |-> lsGlobal.evidence \cup {r.id}]
  /\ lsLock' = [lsLock EXCEPT !["global"] = LsNone]
  /\ LsGo(p, "settle")
  /\ UNCHANGED <<lsLegacy, lsLocal, lsMig, lsCrashes>>

\* The project store as it was read is written back with the candidate promoted.
LsSettle(p) ==
  LET r == lsProc[p] IN
  /\ r.pc = "settle"
  /\ lsLocal' = [lsLocal EXCEPT ![r.id] = [n |-> r.copy.n, st |-> "promoted"]]
  /\ lsLock' = LsFree(LsHolds(p))
  /\ LsEnd(p)
  /\ UNCHANGED <<lsLegacy, lsGlobal, lsMig, lsCrashes>>

\* dismissGlobalLearning: the record loses its count and its evidence.
LsRetract(p) ==
  /\ lsProc[p].pc = "act" /\ lsProc[p].op = "retract"
  /\ lsGlobal' = [n |-> 0, evidence |-> {}]
  /\ lsLock' = LsFree(LsHolds(p))
  /\ LsEnd(p)
  /\ UNCHANGED <<lsLegacy, lsLocal, lsMig, lsCrashes>>

\* A process dies; its lock files stay.
LsCrash(p) ==
  /\ lsCrashes < LsMaxCrashes /\ lsProc[p].pc # "idle"
  /\ lsCrashes' = lsCrashes + 1
  /\ lsLock' = [f \in LsFiles |-> IF lsLock[f] = p THEN LsDead ELSE lsLock[f]]
  /\ lsMig' = IF lsMig = p THEN LsDead ELSE lsMig
  /\ LsEnd(p)
  /\ UNCHANGED lsStores

LsStep(p) == \/ LsMigLock(p) \/ LsInstallRefused(p) \/ LsInstallDone(p) \/ LsDrain(p)
             \/ LsMerge(p) \/ LsDropLegacy(p) \/ LsMigUnlock(p) \/ LsSeek(p) \/ LsCreate(p)
             \/ LsRecheck(p) \/ LsRemoveStale(p) \/ LsCapture(p) \/ LsDecide(p) \/ LsPromote(p)
             \/ LsCount(p) \/ LsSettle(p) \/ LsRetract(p)

LsNext == \E p \in LsProcs : \/ \E op \in LsOps : LsCall(p, op)
                             \/ LsStep(p) \/ LsTimeout(p) \/ LsCrash(p)

LsSpec == LsInit /\ [][LsNext]_lsVars
\* A process keeps running, and a wait that goes on reaches its deadline.
LsFairness == \A p \in LsProcs : WF_lsVars(LsStep(p)) /\ SF_lsVars(LsTimeout(p))
-----------------------------------------------------------------------------
\* The stores, the locks and the processes have their types.
LsTypeOK ==
  /\ lsLegacy \in BOOLEAN /\ lsCrashes \in 0..LsMaxCrashes
  /\ lsLocal \in [LsIds -> [n : 0..LsMaxCount, st : {"none", "candidate", "promoted", "dismissed"}]]
  /\ lsGlobal.n \in Nat /\ lsGlobal.evidence \subseteq LsIds
  /\ lsLock \in [LsFiles -> LsProcs \cup {LsNone, LsDead}]
  /\ lsMig \in LsProcs \cup {LsNone, LsDead}

\* The two lock protocols exclude each other: while a migration reads and
\* writes the project's stores no call is between taking the project's lock for
\* good and giving it back (candidates.ts:217 and :296).
LsMigrationAlone ==
  \A p, q \in LsProcs :
    lsProc[p].pc \in {"merge", "drop"} =>
      /\ lsMig = p
      /\ ~(lsLock["project"] = q /\ lsProc[q].pc \in {"act", "count", "settle"})

\* A promotion that died after writing the global store and is run again does
\* not count its candidate twice (candidates.ts:580): the global count is that
\* of the candidates whose evidence it lists.
LsCountedOnce ==
  lsGlobal.n <= LET n(i) == IF i \in lsGlobal.evidence THEN lsLocal[i].n ELSE 0
                IN n("old") + n("new")

\* A migration that died before removing the legacy store is run again, and
\* neither that nor a writer with an old copy takes back an occurrence or a
\* decision (candidates.ts:113, :603).
LsNoRegress ==
  [][\A i \in LsIds : /\ lsLocal'[i].n >= lsLocal[i].n
                      /\ lsLocal[i].st \in {"promoted", "dismissed"} =>
                           lsLocal'[i].st = lsLocal[i].st]_lsVars

\* Every call ends: a promotion that waits for a migration which waits for the
\* promotion's own lock gives up at its deadline.
LsCallEnds == \A p \in LsProcs : lsProc[p].pc # "idle" ~> lsProc[p].pc = "idle"

\* What survives deaths and reruns in the stores: the parts above.
LsSafe == [](LsTypeOK /\ LsMigrationAlone /\ LsCountedOnce) /\ LsNoRegress

-----------------------------------------------------------------------------
(* The inductive invariant of the proofs *)

LsCand == [n : 0..LsMaxCount, st : {"none", "candidate", "promoted", "dismissed"}]
LsPcs == {"idle", "mig", "installing", "drain", "merge", "drop", "migrated", "seek",
          "create", "recheck", "act", "count", "settle"}
LsRec == [op : {"none"} \cup LsOps,
          pc : LsPcs, on : {"project", "global"}, id : LsIds, copy : LsCand]

\* A promotion to the global store, which keeps the project's lock.
LsPromoting(r) == r.op = "local" /\ r.on = "global"
LsHasMig(r) == r.pc \in {"installing", "drain", "merge", "drop", "migrated"}
LsHasProject(r) == LsPromoting(r) \/ (r.on = "project" /\ r.pc \in {"recheck", "act"})
LsHasGlobal(r) == r.on = "global" /\ r.pc \in {"recheck", "act", "count"}
\* It holds the project's lock for good.
LsBusy(r) == LsPromoting(r) \/ (r.on = "project" /\ r.pc = "act")

\* Where the operations pass.
LsShape(r) ==
  /\ LsPromoting(r) => r.pc \in {"seek", "create", "recheck", "count", "settle"}
  /\ r.pc \in {"count", "settle"} => LsPromoting(r)
  /\ LsHasMig(r) \/ r.pc \in {"idle", "mig"} => r.on = "project"
  /\ r.op = "install" => r.pc \in {"mig", "installing"}
  /\ r.pc = "installing" => r.op = "install"
  /\ r.op = "none" => r.pc = "idle"
  /\ r.op = "retract" => r.on = "global"

LsProcOK == lsProc \in [LsProcs -> LsRec] /\ \A p \in LsProcs : LsShape(lsProc[p])

\* A lock file names the process that is where the lock is held.
LsLocksHeld ==
  /\ lsLock["legacy"] = LsNone
  /\ \A p \in LsProcs : /\ lsMig = p <=> LsHasMig(lsProc[p])
                        /\ lsLock["project"] = p <=> LsHasProject(lsProc[p])
                        /\ lsLock["global"] = p <=> LsHasGlobal(lsProc[p])

\* Nobody is at work on the project's store while a migration merges.
LsQuiet == \A p, q \in LsProcs : lsProc[p].pc \in {"merge", "drop"} => ~LsBusy(lsProc[q])

\* What a promotion read is what the store holds until it writes it back.
LsCopyTrue == \A p \in LsProcs : LsPromoting(lsProc[p]) =>
                /\ lsProc[p].copy = lsLocal[lsProc[p].id]
                /\ lsProc[p].copy.st = "candidate"

\* A candidate that is not there has no count, and the legacy store's is never
\* counted below what that store held.
LsOldWhole == /\ \A i \in LsIds : lsLocal[i].st = "none" => lsLocal[i].n = 0
              /\ lsLocal["old"].st # "none" => lsLocal["old"].n >= 2

LsInv == /\ LsTypeOK /\ LsProcOK /\ LsLocksHeld /\ LsQuiet
         /\ LsCopyTrue /\ LsOldWhole /\ LsCountedOnce
=============================================================================
