----------------------------- MODULE FileProofs -----------------------------
(* Theorems about protocols over plain files: the lock of the stores          *)
(* (StoreLock) for any processes and operations, the writer fence             *)
(* (WriterFence) for any processes and deaths, the activation of user state   *)
(* (UserStateActivation) for manifests of any length, the learning stores     *)
(* (LearningStores) and the installation of releases (ReleaseInstall) for any *)
(* processes, counts and deaths, that of the pinned harness (HarnessPin) for  *)
(* any number of installs, and the clean-up of the machine (MachineCleanup)   *)
(* for any cleaners, releases and runs.                                       *)
EXTENDS StoreLock, WriterFence, UserStateActivation, LearningStores, ReleaseInstall,
        HarnessPin, MachineCleanup, FiniteSetTheorems, WellFoundedInduction, TLAPS

-----------------------------------------------------------------------------
(* The lock of the stores *)

\* Nobody holds the lock at the start.
LEMMA LockInvInit == ASSUME LockInit PROVE LockInv
BY StoreLockAssumption
   DEF LockInit, LockInv, LockTypeOK, LockStage, Holding, Holders, NoLostUpdate

\* Without crashes, and within the stale limit, the lock has at most one holder.
LEMMA LockInvNext ==
  ASSUME CrashFree, LockPrompt, LockInv, [LockNext]_lockVars PROVE LockInv'
<1> USE StoreLockAssumption DEF LockInv, LockTypeOK, LockStage, Holding, Holders, NoLostUpdate, LockGoto
<1>0. CASE UNCHANGED lockVars BY <1>0 DEF lockVars
<1>1. ASSUME NEW p \in LockProcs, Call(p) PROVE LockInv' BY <1>1 DEF Call
<1>2. ASSUME NEW p \in LockProcs, Open(p) PROVE LockInv'
  <2>1. CASE locked BY <1>2, <2>1 DEF Open
  <2>2. CASE ~locked
    <3>1. /\ lockPc' = [lockPc EXCEPT ![p] = "read"] /\ locked' = TRUE /\ age' = 0
          /\ UNCHANGED <<store, copy, ops, done, lockPatience>>
      BY <1>2, <2>2 DEF Open
    <3>2. \A q \in LockProcs : lockPc[q] \notin Holding BY <2>2
    <3>3. LockTypeOK' BY <3>1
    <3> QED BY <3>1, <3>2, <3>3
  <2> QED BY <2>1, <2>2
<1>3. ASSUME NEW p \in LockProcs, Stat(p) PROVE LockInv' BY <1>3 DEF Stat
<1>4. ASSUME NEW p \in LockProcs, BreakStale(p) PROVE LockInv' BY <1>4 DEF BreakStale
<1>5. ASSUME NEW p \in LockProcs, Sleep(p) PROVE LockInv' BY <1>5 DEF Sleep
<1>6. ASSUME NEW p \in LockProcs, ReadStore(p) PROVE LockInv' BY <1>6 DEF ReadStore
<1>7. ASSUME NEW p \in LockProcs, WriteStore(p) PROVE LockInv'
  <2>1. /\ lockPc[p] = "write" /\ lockPc' = [lockPc EXCEPT ![p] = "unlink"]
        /\ store' = copy[p] \cup {<<p, ops[p]>>}
        /\ UNCHANGED <<locked, age, copy, ops, done, lockPatience>>
    BY <1>7 DEF WriteStore
  <2>2. copy[p] = store BY <2>1
  <2>3. store' = store \cup {<<p, ops[p]>>} BY <2>1, <2>2
  <2>4. LockTypeOK' BY <2>1, <2>3
  <2>5. \A q \in LockProcs : q # p => lockPc[q] \notin Holding /\ lockPc'[q] = lockPc[q]
    BY <2>1
  <2> QED BY <2>1, <2>3, <2>4, <2>5
<1>8. ASSUME NEW p \in LockProcs, OperationThrows(p) PROVE LockInv' BY <1>8 DEF OperationThrows
<1>9. ASSUME NEW p \in LockProcs, Unlock(p) PROVE LockInv'
  <2>1. /\ lockPc' = [lockPc EXCEPT ![p] = "idle"] /\ locked' = FALSE /\ age' = 0
        /\ UNCHANGED <<store, copy, ops, lockPatience>>
    BY <1>9 DEF Unlock
  <2>2. \A q \in LockProcs : lockPc'[q] \notin Holding
    BY <1>9, <2>1 DEF Unlock
  <2>3. done' \subseteq store' /\ done' \subseteq LockProcs \X Nat
    BY <1>9, <2>1 DEF Unlock
  <2>4. LockTypeOK' BY <2>1, <2>3
  <2> QED BY <2>1, <2>2, <2>3, <2>4
<1>10. ASSUME NEW p \in LockProcs, LockCrash(p) PROVE LockInv' BY <1>10 DEF LockCrash
<1>11. CASE LockTick BY <1>11 DEF LockTick
<1> QED
  BY <1>0, <1>1, <1>2, <1>3, <1>4, <1>5, <1>6, <1>7, <1>8, <1>9, <1>10, <1>11
  DEF LockNext, Step

\* When no holder dies or is suspended past the stale age, no completed store
\* operation is ever overwritten, whatever the number of processes.
THEOREM LockNoLostUpdate ==
  ASSUME CrashFree, LockPrompt PROVE LockSpec => []NoLostUpdate
<1>1. LockInv => NoLostUpdate BY DEF LockInv
<1>2. LockInit => LockInv BY LockInvInit
<1>3. LockInv /\ [LockNext]_lockVars => LockInv' BY LockInvNext
<1> QED BY <1>1, <1>2, <1>3, PTL DEF LockSpec

-----------------------------------------------------------------------------
(* The writer fence *)

USE WfAssumption

\* A lock file that is not there was created by nobody.
LEMMA WfNoFileFacts ==
  /\ WfNoFile \in WfFile /\ WfNoFile.by = WfNone
  /\ \A p \in WfProcs : WfNoFile.by # p
BY DEF WfNoFile, WfFile

\* At the start there is no file and every process is idle.
LEMMA WfInitInv == WfInit => WfInv
<1> SUFFICES ASSUME WfInit PROVE WfInv
  OBVIOUS
<1>1. wfLock = WfNoFile /\ wfCrashes = 0 /\ \A p \in WfProcs : wfPc[p] = "idle"
  BY DEF WfInit
<1>2. 0 \in 0..WfMaxCrashes
  OBVIOUS
<1>3. WfTypeOK
  BY <1>2, WfNoFileFacts DEF WfInit, WfTypeOK, WfPcs
<1>4. WfFileHasCreator /\ WfHolderHasFile
  BY <1>1, WfNoFileFacts DEF WfFileHasCreator, WfHolderHasFile, WfHolds
<1> QED  BY <1>3, <1>4 DEF WfInv

\* The step of one process is a function of where it is.
LEMMA WfGoFacts ==
  ASSUME WfTypeOK, NEW p \in WfProcs, NEW pc \in WfPcs, WfGo(p, pc)
  PROVE  /\ wfPc' \in [WfProcs -> WfPcs]
         /\ wfPc'[p] = pc
         /\ \A q \in WfProcs : q # p => wfPc'[q] = wfPc[q]
BY DEF WfTypeOK, WfGo

\* A step of one process that leaves the lock file and the contention alone, and
\* that does not enter the part where the file is needed.
LEMMA WfMoveInv ==
  ASSUME WfInv, NEW p \in WfProcs, NEW pc \in WfPcs, WfGo(p, pc),
         wfKind' \in [WfProcs -> {"owner", "worker"}],
         wfLeaked \subseteq wfLeaked', wfLeaked' \subseteq WfProcs,
         UNCHANGED <<wfLock, wfContended, wfMarked, wfTheft, wfCrashes>>,
         pc # "write",
         wfPc[p] # "write",
         pc \in {"idle", "unlink", "create"} =>
           \/ wfPc[p] \in {"idle", "unlink", "create"}
           \/ p \in wfLeaked'
           \/ wfLock.by # p,
         pc \in {"clear", "held", "running", "asserted"} =>
           wfPc[p] \in {"held", "running", "asserted"}
  PROVE  WfInv'
<1>1. /\ wfPc' \in [WfProcs -> WfPcs] /\ wfPc'[p] = pc
      /\ \A q \in WfProcs : q # p => wfPc'[q] = wfPc[q]
  BY WfGoFacts DEF WfInv
<1>2. WfTypeOK'
  BY <1>1 DEF WfInv, WfTypeOK
<1>3. WfFileHasCreator'
  BY <1>1 DEF WfInv, WfFileHasCreator
<1>4. WfHolderHasFile'
  BY <1>1 DEF WfInv, WfHolderHasFile, WfHolds
<1> QED  BY <1>2, <1>3, <1>4 DEF WfInv

\* A refusal is seen by everyone who holds the fence.
LEMMA WfRefusedInv ==
  ASSUME WfInv, NEW p \in WfProcs, wfPc[p] \in {"idle", "create"}, WfGo(p, "idle"), WfMark,
         wfKind' \in [WfProcs -> {"owner", "worker"}],
         UNCHANGED <<wfLock, wfTheft, wfLeaked, wfCrashes>>
  PROVE  WfInv'
<1>1. /\ wfPc' \in [WfProcs -> WfPcs] /\ wfPc'[p] = "idle"
      /\ \A q \in WfProcs : q # p => wfPc'[q] = wfPc[q]
  BY WfGoFacts DEF WfInv, WfPcs
<1>2. wfContended' = TRUE /\ wfMarked' \in [WfProcs -> BOOLEAN]
  BY DEF WfMark, WfInv, WfTypeOK, WfHolds
<1>3. WfTypeOK'
  BY <1>1, <1>2 DEF WfInv, WfTypeOK
<1>4. WfFileHasCreator'
  BY <1>1 DEF WfInv, WfFileHasCreator
<1>5. WfHolderHasFile'
  BY <1>1, <1>2 DEF WfInv, WfHolderHasFile
<1> QED  BY <1>3, <1>4, <1>5 DEF WfInv

\* The first look takes nothing.
LEMMA WfLookInv ==
  ASSUME WfInv, NEW p \in WfProcs, NEW kind \in {"owner", "worker"}, WfLook(p, kind)
  PROVE  WfInv'
<1>1. wfKind' \in [WfProcs -> {"owner", "worker"}]
  BY DEF WfInv, WfTypeOK, WfLook
<1>2. CASE WfRefuses /\ WfMark /\ WfGo(p, "idle")
  BY <1>1, <1>2, WfRefusedInv DEF WfLook
<1>3. CASE /\ ~WfRefuses
           /\ WfGo(p, IF wfLock.by = WfNone THEN "create" ELSE "unlink")
           /\ UNCHANGED <<wfContended, wfMarked>>
  <2> DEFINE pc == IF wfLock.by = WfNone THEN "create" ELSE "unlink"
  <2>1. pc \in WfPcs /\ pc \in {"unlink", "create"} /\ WfGo(p, pc)
    BY <1>3 DEF WfPcs
  <2>2. wfPc[p] = "idle" /\ UNCHANGED <<wfLock, wfContended, wfMarked, wfTheft, wfLeaked, wfCrashes>>
    BY <1>3 DEF WfLook
  <2>3. wfLeaked' \subseteq WfProcs /\ wfLeaked \subseteq wfLeaked'
    BY <2>2 DEF WfInv, WfTypeOK
  <2> HIDE DEF pc
  <2> QED  BY <1>1, <2>1, <2>2, <2>3, WfMoveInv
<1> QED  BY <1>2, <1>3 DEF WfLook

\* An unlink of a live process's file is a theft, and says so.
LEMMA WfUnlinkInv ==
  ASSUME WfInv, NEW p \in WfProcs, WfUnlink(p)
  PROVE  WfInv'
<1> DEFINE pc == IF wfLock.by = WfNone THEN "idle" ELSE "create"
<1>1. pc \in WfPcs /\ pc \in {"idle", "create"} /\ WfGo(p, pc)
  BY DEF WfUnlink, WfPcs
<1> HIDE DEF pc
<1>2. /\ wfPc' \in [WfProcs -> WfPcs] /\ wfPc'[p] = pc
      /\ \A q \in WfProcs : q # p => wfPc'[q] = wfPc[q]
  BY <1>1, WfGoFacts DEF WfInv
<1>3. /\ wfLock' = WfNoFile /\ wfTheft' = (wfTheft \/ wfLock.by \in WfProcs)
      /\ UNCHANGED <<wfContended, wfKind, wfMarked, wfLeaked, wfCrashes>>
  BY DEF WfUnlink
<1>4. WfTypeOK'
  <2>1. wfTheft' \in BOOLEAN
    BY <1>3
  <2> QED  BY <1>2, <1>3, <2>1, WfNoFileFacts DEF WfInv, WfTypeOK
<1>5. WfFileHasCreator'
  BY <1>3, WfNoFileFacts DEF WfFileHasCreator
<1>6. WfHolderHasFile'
  BY <1>1, <1>2, <1>3 DEF WfInv, WfHolderHasFile, WfHolds
<1> QED  BY <1>4, <1>5, <1>6 DEF WfInv

\* The exclusive creation: the file is the creator's, and it was nobody's.
LEMMA WfCreateInv ==
  ASSUME WfInv, NEW p \in WfProcs, WfCreate(p)
  PROVE  WfInv'
<1>1. CASE wfLock.by # WfNone /\ WfMark /\ WfGo(p, "idle") /\ UNCHANGED wfLock
  BY <1>1, WfRefusedInv DEF WfCreate, WfInv, WfTypeOK
<1>2. CASE /\ wfLock.by = WfNone
           /\ wfLock' = [by |-> p, text |-> FALSE, old |-> FALSE]
           /\ WfGo(p, "write")
           /\ UNCHANGED <<wfContended, wfMarked>>
  <2>1. /\ wfPc' \in [WfProcs -> WfPcs] /\ wfPc'[p] = "write"
        /\ \A q \in WfProcs : q # p => wfPc'[q] = wfPc[q]
    BY <1>2, WfGoFacts DEF WfInv, WfPcs
  <2>2. UNCHANGED <<wfContended, wfMarked, wfKind, wfTheft, wfLeaked, wfCrashes>>
    BY <1>2 DEF WfCreate
  <2>3. wfLock'.by = p /\ wfLock' \in WfFile
    BY <1>2 DEF WfFile
  <2>4. WfTypeOK'
    BY <2>1, <2>2, <2>3 DEF WfInv, WfTypeOK
  <2>5. WfFileHasCreator'
    BY <2>1, <2>2, <2>3 DEF WfFileHasCreator
  <2>6. WfHolderHasFile'
    BY <1>2, <2>1, <2>2, <2>3 DEF WfInv, WfHolderHasFile, WfHolds
  <2> QED  BY <2>4, <2>5, <2>6 DEF WfInv
<1> QED  BY <1>1, <1>2 DEF WfCreate

\* The write gives the creator's file its text; any other file is left alone.
LEMMA WfWriteInv ==
  ASSUME WfInv, NEW p \in WfProcs, WfWrite(p)
  PROVE  WfInv'
<1>1. /\ wfPc' \in [WfProcs -> WfPcs] /\ wfPc'[p] = "clear"
      /\ \A q \in WfProcs : q # p => wfPc'[q] = wfPc[q]
  BY WfGoFacts DEF WfInv, WfWrite, WfPcs
<1>2. /\ wfPc[p] = "write"
      /\ UNCHANGED <<wfContended, wfKind, wfMarked, wfTheft, wfLeaked, wfCrashes>>
  BY DEF WfWrite
<1>3. /\ wfLock'.by = wfLock.by /\ wfLock' \in WfFile
      /\ wfLock.by # p => wfLock' = wfLock
      /\ wfLock.by = p => wfLock'.text = TRUE
  BY DEF WfWrite, WfInv, WfTypeOK, WfFile
<1>4. WfTypeOK'
  BY <1>1, <1>2, <1>3 DEF WfInv, WfTypeOK
<1>5. WfFileHasCreator'
  BY <1>1, <1>2, <1>3 DEF WfInv, WfFileHasCreator
<1>6. WfHolderHasFile'
  BY <1>1, <1>2, <1>3 DEF WfInv, WfHolderHasFile, WfHolds
<1> QED  BY <1>4, <1>5, <1>6 DEF WfInv

\* The contention dropped is no holder's: without a theft nobody else holds.
LEMMA WfClearInv ==
  ASSUME WfInv, NEW p \in WfProcs, WfClear(p)
  PROVE  WfInv'
<1>1. /\ wfPc' \in [WfProcs -> WfPcs] /\ wfPc'[p] = "held"
      /\ \A q \in WfProcs : q # p => wfPc'[q] = wfPc[q]
  BY WfGoFacts DEF WfInv, WfClear, WfPcs
<1>2. /\ wfPc[p] = "clear" /\ UNCHANGED <<wfLock, wfKind, wfTheft, wfLeaked, wfCrashes>>
      /\ wfContended' = FALSE /\ wfMarked' = [wfMarked EXCEPT ![p] = FALSE]
  BY DEF WfClear
<1>3. /\ wfMarked' \in [WfProcs -> BOOLEAN] /\ ~wfMarked'[p]
      /\ \A q \in WfProcs : q # p => wfMarked'[q] = wfMarked[q]
  BY <1>2 DEF WfInv, WfTypeOK
<1>4. WfTypeOK'
  BY <1>1, <1>2, <1>3 DEF WfInv, WfTypeOK
<1>5. WfFileHasCreator'
  BY <1>1, <1>2 DEF WfInv, WfFileHasCreator
<1>6. ASSUME ~wfTheft, NEW q \in WfProcs, q # p PROVE ~WfHolds(q)
  BY <1>2, <1>6 DEF WfInv, WfHolderHasFile, WfHolds
<1>7. WfHolderHasFile'
  BY <1>1, <1>2, <1>3, <1>6 DEF WfInv, WfHolderHasFile, WfHolds
<1> QED  BY <1>4, <1>5, <1>7 DEF WfInv

\* Dispatch, lease, work and commit move within the fence or out of it; only the
\* rejected lease goes out of the call with the file.
LEMMA WfUseInv ==
  ASSUME WfInv, NEW p \in WfProcs,
         \/ WfDispatch(p) \/ WfAskLease(p) \/ WfWorkDone(p)
         \/ WfCommit(p) \/ WfCommitRefused(p)
  PROVE  WfInv'
<1>1. PICK pc \in {"running", "asserted", "release", "idle"} :
        /\ WfGo(p, pc)
        /\ wfPc[p] \in {"held", "running", "asserted"}
        /\ wfLeaked' = IF pc = "idle" THEN wfLeaked \cup {p} ELSE wfLeaked
        /\ UNCHANGED <<wfLock, wfContended, wfKind, wfMarked, wfTheft, wfCrashes>>
  BY DEF WfDispatch, WfAskLease, WfWorkDone, WfCommit, WfCommitRefused
<1>2. pc \in WfPcs /\ wfLeaked \subseteq wfLeaked' /\ wfLeaked' \subseteq WfProcs
  BY <1>1 DEF WfPcs, WfInv, WfTypeOK
<1>3. wfKind' \in [WfProcs -> {"owner", "worker"}]
  BY <1>1 DEF WfInv, WfTypeOK
<1>4. pc = "idle" => p \in wfLeaked'
  BY <1>1
<1> QED  BY <1>1, <1>2, <1>3, <1>4, WfMoveInv

\* The release removes the file that has this text, and no other.
LEMMA WfReleaseInv ==
  ASSUME WfInv, NEW p \in WfProcs, WfRelease(p)
  PROVE  WfInv'
<1>1. /\ wfPc' \in [WfProcs -> WfPcs] /\ wfPc'[p] = "idle"
      /\ \A q \in WfProcs : q # p => wfPc'[q] = wfPc[q]
  BY WfGoFacts DEF WfInv, WfRelease, WfPcs
<1>2. /\ wfPc[p] = "release"
      /\ wfLock' = IF WfMine(p) THEN WfNoFile ELSE wfLock
      /\ UNCHANGED <<wfContended, wfKind, wfMarked, wfTheft, wfLeaked, wfCrashes>>
  BY DEF WfRelease
<1>3. wfLock.by = p => wfLock' = WfNoFile
  BY <1>2 DEF WfInv, WfFileHasCreator, WfMine
<1>4. wfLock.by # p => wfLock' = wfLock
  BY <1>2 DEF WfMine
<1>5. WfTypeOK'
  BY <1>1, <1>2, <1>3, <1>4, WfNoFileFacts DEF WfInv, WfTypeOK
<1>6. WfFileHasCreator'
  BY <1>1, <1>2, <1>3, <1>4, WfNoFileFacts DEF WfInv, WfFileHasCreator
<1>7. WfHolderHasFile'
  BY <1>1, <1>2, <1>3, <1>4 DEF WfInv, WfHolderHasFile, WfHolds
<1> QED  BY <1>5, <1>6, <1>7 DEF WfInv

\* Time passes for the file; its creator and its text stay.
LEMMA WfAgeInv == ASSUME WfInv, WfAge PROVE WfInv'
<1>1. /\ wfLock'.by = wfLock.by /\ wfLock'.text = wfLock.text /\ wfLock' \in WfFile
      /\ wfLock.by # WfNone
      /\ UNCHANGED <<wfContended, wfPc, wfKind, wfMarked, wfTheft, wfLeaked, wfCrashes>>
  BY DEF WfAge, WfInv, WfTypeOK, WfFile
<1>2. WfTypeOK'
  BY <1>1 DEF WfInv, WfTypeOK
<1>3. WfFileHasCreator' /\ WfHolderHasFile'
  BY <1>1 DEF WfInv, WfFileHasCreator, WfHolderHasFile, WfHolds
<1> QED  BY <1>2, <1>3 DEF WfInv

\* The file of a process that dies is nobody's, and its successor starts afresh.
LEMMA WfCrashInv ==
  ASSUME WfInv, NEW p \in WfProcs, WfCrash(p)
  PROVE  WfInv'
<1>1. /\ wfPc' \in [WfProcs -> WfPcs] /\ wfPc'[p] = "idle"
      /\ \A q \in WfProcs : q # p => wfPc'[q] = wfPc[q]
  BY WfGoFacts DEF WfInv, WfCrash, WfPcs
<1>2. /\ wfLeaked' = wfLeaked \ {p} /\ UNCHANGED <<wfContended, wfKind, wfMarked, wfTheft>>
      /\ wfCrashes' \in 0..WfMaxCrashes
  BY DEF WfCrash, WfInv, WfTypeOK
<1>3. /\ wfLock' \in WfFile /\ wfLock'.by # p
      /\ wfLock.by # p => wfLock' = wfLock
      /\ wfLock.by = p => wfLock'.by = WfDead
  BY DEF WfCrash, WfInv, WfTypeOK, WfFile
<1>4. WfTypeOK'
  <2>1. wfLock'.by = WfNone => wfLock' = WfNoFile
    BY <1>3 DEF WfInv, WfTypeOK
  <2> QED  BY <1>1, <1>2, <1>3, <2>1 DEF WfInv, WfTypeOK
<1>5. WfFileHasCreator'
  BY <1>1, <1>2, <1>3 DEF WfInv, WfFileHasCreator
<1>6. WfHolderHasFile'
  BY <1>1, <1>2, <1>3 DEF WfInv, WfHolderHasFile, WfHolds
<1> QED  BY <1>4, <1>5, <1>6 DEF WfInv

\* Every step of every process keeps the invariant.
LEMMA WfNextInv == WfInv /\ [WfNext]_wfVars => WfInv'
<1> SUFFICES ASSUME WfInv, [WfNext]_wfVars PROVE WfInv'
  OBVIOUS
<1>1. CASE UNCHANGED wfVars
  BY <1>1 DEF wfVars, WfInv, WfTypeOK, WfFileHasCreator, WfHolderHasFile, WfHolds
<1>2. CASE WfAge
  BY <1>2, WfAgeInv
<1>3. ASSUME NEW p \in WfProcs, WfStep(p) PROVE WfInv'
  BY <1>3, WfLookInv, WfUnlinkInv, WfCreateInv, WfWriteInv, WfClearInv, WfUseInv, WfReleaseInv
  DEF WfStep
<1>4. ASSUME NEW p \in WfProcs, WfCrash(p) PROVE WfInv'
  BY <1>4, WfCrashInv
<1> QED  BY <1>1, <1>2, <1>3, <1>4 DEF WfNext

\* One writer at a time unless a file was stolen between the look and the unlink,
\* nothing left behind by an idle process but the rejected request's fence, and no
\* commit after a refusal: for any number of processes and of deaths
\* (tryAcquireRepositoryWriterFence, commitSqlite, runWorker).
THEOREM FenceIsSafe == WfSpec => WfSafe
<1>1. WfInv => WfTypeOK /\ WfExclusive /\ WfIdleHoldsNothing
  <2> SUFFICES ASSUME WfInv PROVE WfTypeOK /\ WfExclusive /\ WfIdleHoldsNothing
    OBVIOUS
  <2>1. WfExclusive
    BY DEF WfInv, WfHolderHasFile, WfHolds, WfExclusive
  <2>2. WfIdleHoldsNothing
    BY DEF WfInv, WfFileHasCreator, WfIdleHoldsNothing
  <2> QED  BY <2>1, <2>2 DEF WfInv
<1>2. WfInv /\ [WfNext]_wfVars => [\A p \in WfProcs : WfCommit(p) => ~wfMarked[p] \/ wfTheft]_wfVars
  BY DEF WfInv, WfHolderHasFile, WfHolds, WfCommit
<1> QED  BY <1>1, <1>2, WfInitInv, WfNextInv, PTL DEF WfSpec, WfSafe, WfContentionFailsClosed

-----------------------------------------------------------------------------
(* The activation of user state *)

USE AcAssumption

\* Nothing is touched at the start.
LEMMA AcInitInv == AcInit => AcInv
<1> SUFFICES ASSUME AcInit PROVE AcInv
  OBVIOUS
<1>1. /\ acPc = "next" /\ acTouched = 0 /\ acBad = FALSE /\ acTemp = FALSE
      /\ acHad \in [AcIndex -> BOOLEAN] /\ acAbsent \in [AcIndex -> BOOLEAN]
      /\ \A i \in AcIndex : acLive[i] = AcBefore(i) /\ ~acBackup[i]
  BY DEF AcInit
<1>2. AcTypes
  <2>1. 0 \in 0..AcEntries
    OBVIOUS
  <2>2. \A i \in AcIndex : AcBefore(i) \in {"old", "new", "none"}
    BY DEF AcBefore
  <2>3. acLive \in [AcIndex -> {"old", "new", "none"}] /\ acBackup \in [AcIndex -> BOOLEAN]
    BY <2>2 DEF AcInit
  <2> QED  BY <1>1, <2>1, <2>3 DEF AcTypes
<1>3. \A i \in AcIndex : AcForward(i)
  BY <1>1 DEF AcForward, AcIndex
<1>4. AcOldIsKept
  BY <1>1 DEF AcOldIsKept, AcBefore
<1> QED  BY <1>1, <1>2, <1>3, <1>4 DEF AcInv

\* The next target is set aside: renamed to its backup, and noted.
LEMMA AcSetAsideInv == ASSUME AcInv, AcSetAside PROVE AcInv'
<1> DEFINE t == acTouched + 1
<1>1. /\ acPc = "next" /\ acTouched < AcEntries /\ acTouched' = t
      /\ acBackup' = [acBackup EXCEPT ![t] = acHad[t]]
      /\ acLive' = [acLive EXCEPT ![t] = "none"]
      /\ acPc' = IF acAbsent[t] THEN "next" ELSE "copy"
      /\ acHad' = acHad /\ acAbsent' = acAbsent /\ acTemp' = acTemp /\ acBad' = acBad
  BY DEF AcSetAside, acManifest
<1>2. t \in AcIndex /\ t \in 0..AcEntries /\ acTouched \in Nat /\ t = acTouched + 1 /\ t > 0
  BY <1>1 DEF AcInv, AcTypes, AcIndex
<1> HIDE DEF t
<1>3. AcTypes'
  BY <1>1, <1>2 DEF AcInv, AcTypes
<1>4. /\ acBackup'[t] = acHad[t] /\ acLive'[t] = "none"
      /\ \A i \in AcIndex : i # t => acBackup'[i] = acBackup[i] /\ acLive'[i] = acLive[i]
  BY <1>1, <1>2 DEF AcInv, AcTypes
<1>5. ~acBad /\ \A i \in AcIndex : AcForward(i)
  BY <1>1 DEF AcInv
<1>6. ASSUME NEW i \in AcIndex PROVE AcForward(i)'
  <2>1. CASE i = t
    <3>1. ~(i > acTouched') /\ ~(i < acTouched')
      BY <1>1, <1>2, <2>1
    <3>2. acPc' = "next" => acLive'[i] = AcAfter(i)'
      BY <1>1, <1>4, <2>1 DEF AcAfter
    <3>3. acPc' # "next" => acLive'[i] = "none" /\ ~acAbsent'[i]
      BY <1>1, <1>4, <2>1
    <3>4. acBackup'[i] = acHad'[i]
      BY <1>1, <1>4, <2>1
    <3> QED  BY <3>1, <3>2, <3>3, <3>4 DEF AcForward
  <2>2. CASE i < t
    <3>1. i <= acTouched /\ i # t /\ (i < acTouched \/ i = acTouched) /\ ~(i > acTouched')
      BY <1>1, <1>2, <2>2 DEF AcIndex
    <3>2. acBackup[i] = acHad[i] /\ acLive[i] = AcAfter(i)
      BY <1>1, <1>5, <3>1 DEF AcForward
    <3>3. ~(i = acTouched')
      BY <1>1, <2>2, <1>2 DEF AcIndex
    <3>4. acBackup'[i] = acHad'[i] /\ acLive'[i] = AcAfter(i)'
      BY <1>1, <1>4, <3>1, <3>2 DEF AcAfter
    <3> QED  BY <3>1, <3>3, <3>4 DEF AcForward
  <2>3. CASE i > t
    <3>1. i > acTouched /\ i # t /\ ~(i <= acTouched')
      BY <1>1, <1>2, <2>3 DEF AcIndex
    <3>2. acLive[i] = AcBefore(i) /\ ~acBackup[i]
      BY <1>5, <3>1 DEF AcForward
    <3>3. i > acTouched' /\ ~(i < acTouched') /\ i # acTouched'
      BY <1>1, <1>2, <2>3 DEF AcIndex
    <3>4. acLive'[i] = AcBefore(i)' /\ ~acBackup'[i]
      BY <1>1, <1>4, <3>1, <3>2 DEF AcBefore
    <3> QED  BY <3>1, <3>3, <3>4 DEF AcForward
  <2> QED  BY <1>2, <2>1, <2>2, <2>3 DEF AcIndex
<1>7. AcOldIsKept'
  BY <1>1, <1>2, <1>4 DEF AcInv, AcOldIsKept
<1> QED  BY <1>1, <1>2, <1>3, <1>5, <1>6, <1>7 DEF AcInv

\* The copy touches nothing but the temporary name.
LEMMA AcCopyInv == ASSUME AcInv, AcCopy PROVE AcInv'
<1>1. /\ acPc = "copy" /\ acPc' = "place" /\ acTemp' = TRUE
      /\ acHad' = acHad /\ acAbsent' = acAbsent /\ acLive' = acLive /\ acBackup' = acBackup
      /\ acTouched' = acTouched /\ acBad' = acBad
  BY DEF AcCopy, acManifest
<1>2. AcTypes'
  BY <1>1 DEF AcInv, AcTypes
<1>3. \A i \in AcIndex : AcForward(i)'
  BY <1>1 DEF AcInv, AcForward, AcBefore, AcAfter
<1>4. AcOldIsKept'
  BY <1>1 DEF AcInv, AcOldIsKept
<1> QED  BY <1>1, <1>2, <1>3, <1>4 DEF AcInv

\* The copy is renamed into place; what was set aside stays in the backup.
LEMMA AcPlaceInv == ASSUME AcInv, AcPlace PROVE AcInv'
<1>1. /\ acPc = "place" /\ acPc' = "next" /\ acTemp' = FALSE
      /\ acLive' = [acLive EXCEPT ![acTouched] = "new"]
      /\ acHad' = acHad /\ acAbsent' = acAbsent /\ acBackup' = acBackup
      /\ acTouched' = acTouched /\ acBad' = acBad
  BY DEF AcPlace, acManifest
<1>2. acTouched \in AcIndex
  BY <1>1 DEF AcInv, AcTypes, AcIndex
<1>3. AcTypes'
  BY <1>1, <1>2 DEF AcInv, AcTypes
<1>4. /\ acLive'[acTouched] = "new"
      /\ \A i \in AcIndex : i # acTouched => acLive'[i] = acLive[i]
  BY <1>1, <1>2 DEF AcInv, AcTypes
<1>5. ~acBad /\ \A i \in AcIndex : AcForward(i)
  BY <1>1 DEF AcInv
<1>6. ASSUME NEW i \in AcIndex PROVE AcForward(i)'
  <2>1. CASE i = acTouched
    <3>1. ~acAbsent[i] /\ acBackup[i] = acHad[i]
      BY <1>1, <1>2, <1>5, <2>1 DEF AcForward, AcIndex
    <3> QED  BY <1>1, <1>2, <1>4, <2>1, <3>1 DEF AcForward, AcAfter, AcIndex
  <2>2. CASE i # acTouched
    BY <1>1, <1>4, <1>5, <2>2 DEF AcForward, AcBefore, AcAfter
  <2> QED  BY <2>1, <2>2
<1>7. AcOldIsKept'
  <2>1. acHad[acTouched] => acBackup[acTouched]
    BY <1>2, <1>5 DEF AcForward, AcIndex
  <2> QED  BY <1>1, <1>2, <1>4, <2>1 DEF AcInv, AcOldIsKept
<1> QED  BY <1>1, <1>3, <1>5, <1>6, <1>7 DEF AcInv

\* An interruption leaves the touched targets in reach of their backups.
LEMMA AcInterruptedInv == ASSUME AcInv, AcInterrupted PROVE AcInv'
<1>1. /\ acPc \in {"next", "copy", "place"} /\ acPc' = "undo"
      /\ acHad' = acHad /\ acAbsent' = acAbsent /\ acLive' = acLive /\ acBackup' = acBackup
      /\ acTouched' = acTouched /\ acBad' = acBad /\ acTemp' = acTemp
  BY DEF AcInterrupted, acManifest
<1>2. AcTypes'
  BY <1>1 DEF AcInv, AcTypes
<1>3. \A i \in AcIndex : AcForward(i)
  BY <1>1 DEF AcInv
<1>4. \A i \in AcIndex : AcBackward(i)'
  BY <1>1, <1>3 DEF AcForward, AcBackward, AcBefore
<1>5. AcOldIsKept'
  BY <1>1 DEF AcInv, AcOldIsKept
<1> QED  BY <1>1, <1>2, <1>4, <1>5 DEF AcInv

\* The last touched target is as it was before, from its backup or by removal.
LEMMA AcRestoreInv == ASSUME AcInv, AcRestore PROVE AcInv'
<1> DEFINE t == acTouched
<1>1. /\ acPc = "undo" /\ acPc' = "undo" /\ t > 0 /\ acTouched' = t - 1
      /\ acLive' = [acLive EXCEPT ![t] = IF acBackup[t] THEN "old" ELSE "none"]
      /\ acBackup' = [acBackup EXCEPT ![t] = FALSE]
      /\ acHad' = acHad /\ acAbsent' = acAbsent /\ acBad' = acBad /\ acTemp' = acTemp
  BY DEF AcRestore, acManifest
<1>2. t \in AcIndex /\ t - 1 \in 0..AcEntries /\ t \in Nat
  BY <1>1 DEF AcInv, AcTypes, AcIndex
<1>3. AcTypes'
  BY <1>1, <1>2 DEF AcInv, AcTypes
<1>4. /\ acLive'[t] = (IF acBackup[t] THEN "old" ELSE "none")
      /\ \A i \in AcIndex : i # t => acBackup'[i] = acBackup[i] /\ acLive'[i] = acLive[i]
  BY <1>1, <1>2 DEF AcInv, AcTypes
<1>5. \A i \in AcIndex : AcBackward(i)
  BY <1>1 DEF AcInv
<1>6. acBackup[t] = acHad[t]
  BY <1>2, <1>5 DEF AcBackward, AcIndex
<1> HIDE DEF t
<1>7. ASSUME NEW i \in AcIndex PROVE AcBackward(i)'
  <2>1. CASE i = t
    <3>1. ~(i <= acTouched')
      BY <1>1, <1>2, <2>1
    <3>2. acLive'[i] = AcBefore(i)'
      BY <1>1, <1>4, <1>6, <2>1 DEF AcBefore
    <3> QED  BY <3>1, <3>2 DEF AcBackward
  <2>2. CASE i # t
    <3>1. (i <= acTouched' => i <= t) /\ (i > acTouched' => i > t)
      BY <1>1, <1>2, <2>2 DEF AcIndex
    <3>2. AcBackward(i) /\ t = acTouched
      BY <1>5 DEF t
    <3> QED  BY <1>1, <1>4, <2>2, <3>1, <3>2 DEF AcBackward, AcBefore
  <2> QED  BY <2>1, <2>2
<1>8. AcOldIsKept'
  BY <1>1, <1>2, <1>4, <1>6 DEF AcInv, AcOldIsKept
<1> QED  BY <1>1, <1>3, <1>7, <1>8 DEF AcInv

\* A target that could not be put back keeps its backup.
LEMMA AcRestoreFailsInv == ASSUME AcInv, AcRestoreFails PROVE AcInv'
<1> DEFINE t == acTouched
<1>1. PICK left \in {acLive[t], "none"} :
        /\ acPc = "undo" /\ acPc' = "undo" /\ t > 0 /\ acTouched' = t - 1
        /\ acLive' = [acLive EXCEPT ![t] = left]
        /\ acHad' = acHad /\ acAbsent' = acAbsent /\ acBad' = TRUE /\ acTemp' = acTemp
        /\ acBackup' = acBackup
  BY DEF AcRestoreFails, acManifest
<1>2. t \in AcIndex /\ t - 1 \in 0..AcEntries /\ t \in Nat
  BY <1>1 DEF AcInv, AcTypes, AcIndex
<1>3. AcTypes'
  BY <1>1, <1>2 DEF AcInv, AcTypes
<1>4. /\ acLive'[t] = left
      /\ \A i \in AcIndex : i # t => acLive'[i] = acLive[i]
  BY <1>1, <1>2 DEF AcInv, AcTypes
<1>5. \A i \in AcIndex : AcBackward(i)
  BY <1>1 DEF AcInv
<1>6. acBackup[t] = acHad[t]
  BY <1>2, <1>5 DEF AcBackward, AcIndex
<1>7. \A i \in AcIndex : AcBackward(i)'
  <2>1. \A i \in AcIndex : i <= acTouched' => i <= acTouched
    BY <1>1, <1>2 DEF AcIndex
  <2> QED  BY <1>1, <1>5, <2>1 DEF AcBackward
<1>8. AcOldIsKept'
  BY <1>1, <1>2, <1>4, <1>6 DEF AcInv, AcOldIsKept
<1> QED  BY <1>1, <1>3, <1>7, <1>8 DEF AcInv

\* An undo that met no error has put every target back.
LEMMA AcUndoneInv == ASSUME AcInv, AcUndone PROVE AcInv'
<1>1. /\ acPc = "undo" /\ acTouched = 0 /\ acPc' = (IF acBad THEN "critical" ELSE "failed")
      /\ acHad' = acHad /\ acAbsent' = acAbsent /\ acLive' = acLive /\ acBackup' = acBackup
      /\ acTouched' = acTouched /\ acBad' = acBad /\ acTemp' = FALSE
  BY DEF AcUndone, acManifest
<1>2. AcTypes'
  BY <1>1 DEF AcInv, AcTypes
<1>3. \A i \in AcIndex : i > acTouched
  BY <1>1 DEF AcIndex
<1>4. ~acBad => \A i \in AcIndex : acLive'[i] = AcBefore(i)'
  BY <1>1, <1>3 DEF AcInv, AcBackward, AcBefore
<1>5. AcOldIsKept'
  BY <1>1 DEF AcInv, AcOldIsKept
<1> QED  BY <1>1, <1>2, <1>4, <1>5 DEF AcInv

\* A commit comes when every target is in place.
LEMMA AcCommitInv == ASSUME AcInv, AcCommit PROVE AcInv'
<1>1. PICK kept \in SUBSET AcIndex :
        /\ acPc = "next" /\ acTouched = AcEntries /\ acPc' = "committed"
        /\ acBackup' = [i \in AcIndex |-> acBackup[i] /\ i \in kept]
        /\ acHad' = acHad /\ acAbsent' = acAbsent /\ acLive' = acLive
        /\ acTouched' = acTouched /\ acBad' = acBad /\ acTemp' = acTemp
  BY DEF AcCommit, acManifest
<1>2. AcTypes'
  BY <1>1 DEF AcInv, AcTypes
<1>3. ASSUME NEW i \in AcIndex PROVE acLive'[i] = AcAfter(i)'
  <2>1. i < acTouched \/ i = acTouched
    BY <1>1 DEF AcIndex
  <2>2. AcForward(i)
    BY <1>1 DEF AcInv
  <2> QED  BY <1>1, <2>1, <2>2 DEF AcForward, AcAfter
<1>4. AcOldIsKept'
  BY <1>1 DEF AcOldIsKept
<1> QED  BY <1>1, <1>2, <1>3, <1>4 DEF AcInv

\* A kill leaves the files as they are.
LEMMA AcKilledInv == ASSUME AcInv, AcKilled PROVE AcInv'
<1>1. /\ acPc # "committed" /\ acPc' = "killed"
      /\ acHad' = acHad /\ acAbsent' = acAbsent /\ acLive' = acLive /\ acBackup' = acBackup
      /\ acTouched' = acTouched /\ acBad' = acBad /\ acTemp' = acTemp
  BY DEF AcKilled, acManifest
<1>2. AcTypes'
  BY <1>1 DEF AcInv, AcTypes
<1>3. AcOldIsKept'
  BY <1>1 DEF AcInv, AcOldIsKept
<1> QED  BY <1>1, <1>2, <1>3 DEF AcInv

\* Every step keeps the invariant.
LEMMA AcNextInv == AcInv /\ [AcNext]_acVars => AcInv'
<1> SUFFICES ASSUME AcInv, [AcNext]_acVars PROVE AcInv'
  OBVIOUS
<1>1. CASE UNCHANGED acVars
  BY <1>1 DEF acVars, AcInv, AcTypes, AcForward, AcBackward, AcBefore, AcAfter, AcOldIsKept
<1> QED  BY <1>1, AcSetAsideInv, AcCopyInv, AcPlaceInv, AcInterruptedInv, AcRestoreInv,
            AcRestoreFailsInv, AcUndoneInv, AcCommitInv, AcKilledInv DEF AcNext

\* An activation that has not ended shows the old state; one that reports success
\* shows the new state and one that reports failure the old one.
LEMMA AcShownFacts ==
  ASSUME AcInv
  PROVE  /\ ~AcEnded => AcShown = "old"
         /\ acPc = "committed" => AcShown = "new"
         /\ acPc = "failed" => AcShown = "old"
BY DEF AcInv, AcShown, AcEnded

\* Every step of the activation is a commit, an abort or a stutter of the switch.
LEMMA AcStepRefines ==
  AcInv /\ AcInv' /\ [AcNext]_acVars
    => [AcSwitch!SwCommit \/ AcSwitch!SwAbort]_(AcSwitch!swVars)
<1> SUFFICES ASSUME AcInv, AcInv', [AcNext]_acVars
             PROVE  [AcSwitch!SwCommit \/ AcSwitch!SwAbort]_(AcSwitch!swVars)
  OBVIOUS
<1>1. /\ ~AcEnded => AcShown = "old"
      /\ acPc = "committed" => AcShown = "new"
      /\ acPc = "failed" => AcShown = "old"
  BY AcShownFacts
<1>2. /\ ~AcEnded' => AcShown' = "old"
      /\ acPc' = "committed" => AcShown' = "new"
      /\ acPc' = "failed" => AcShown' = "old"
  BY DEF AcInv, AcShown, AcEnded
<1>3. CASE AcCommit
  BY <1>1, <1>2, <1>3 DEF AcCommit, AcEnded, AcSwitch!SwCommit
<1>4. CASE AcUndone
  BY <1>1, <1>2, <1>4 DEF AcUndone, AcEnded, AcSwitch!SwAbort, AcSwitch!swVars
<1>5. CASE AcSetAside \/ AcCopy \/ AcPlace \/ AcInterrupted \/ AcRestore \/ AcRestoreFails
           \/ AcKilled
  <2>1. ~AcEnded /\ ~AcEnded'
    BY <1>5 DEF AcEnded, AcSetAside, AcCopy, AcPlace, AcInterrupted, AcRestore,
                AcRestoreFails, AcKilled
  <2> QED  BY <1>1, <1>2, <2>1 DEF AcSwitch!swVars
<1>6. CASE UNCHANGED acVars
  BY <1>6 DEF acVars, AcShown, AcEnded, AcBefore, AcAfter, AcSwitch!swVars
<1> QED  BY <1>3, <1>4, <1>5, <1>6 DEF AcNext

\* An activation is all or nothing for a manifest of any length, whatever error
\* or signal comes at whatever point: it implements the atomic switch, and until
\* it has committed no file of the user is lost (activate-major-user-state.py).
THEOREM ActivationIsSafe == AcSpec => AcSafe
<1>1. AcInit => AcSwitch!SwInit
  BY AcInitInv, AcShownFacts DEF AcInit, AcEnded, AcSwitch!SwInit
<1>2. AcInv => AcOldIsKept
  BY DEF AcInv
<1>3. AcSpec => []AcInv
  BY AcInitInv, AcNextInv, PTL DEF AcSpec
<1>4. AcSpec => AcAllOrNothing
  BY <1>1, <1>3, AcStepRefines, PTL DEF AcSpec, AcAllOrNothing, AcSwitch!SwSpec
<1> QED  BY <1>2, <1>3, <1>4, PTL DEF AcSafe

-----------------------------------------------------------------------------
(* The learning stores *)

\* The bounds, and who is nobody.
LEMMA LsNumbers ==
  /\ LsMaxCount \in Nat /\ LsMaxCount >= 2 /\ LsMaxCrashes \in Nat
  /\ 0 \in 0..LsMaxCount /\ 1 \in 0..LsMaxCount /\ 2 \in 0..LsMaxCount /\ 0 \in 0..LsMaxCrashes
  /\ LsNone \notin LsProcs /\ LsDead \notin LsProcs /\ LsNone # LsDead
BY LsAssumption

\* Nothing recorded, the legacy candidate and a resting process.
LEMMA LsValues ==
  /\ LsAbsent \in LsCand /\ LsOld \in LsCand /\ LsOld.n = 2 /\ LsOld.st = "candidate"
  /\ LsIdle \in LsRec /\ LsShape(LsIdle) /\ ~LsPromoting(LsIdle)
  /\ ~LsHasMig(LsIdle) /\ ~LsHasProject(LsIdle) /\ ~LsHasGlobal(LsIdle) /\ ~LsBusy(LsIdle)
  /\ LsIdle.pc = "idle"
<1>1. LsAbsent \in LsCand /\ LsOld \in LsCand /\ LsOld.n = 2 /\ LsOld.st = "candidate"
  BY LsNumbers DEF LsAbsent, LsOld, LsCand
<1>2. /\ LsIdle \in LsRec /\ LsIdle.op = "none" /\ LsIdle.pc = "idle" /\ LsIdle.on = "project"
  BY <1>1 DEF LsIdle, LsRec, LsPcs, LsIds
<1> QED
  BY <1>1, <1>2 DEF LsShape, LsPromoting, LsHasMig, LsHasProject, LsHasGlobal, LsBusy

\* No lock, no call, nothing recorded.
LEMMA LsInitInv == LsInit => LsInv
<1> SUFFICES ASSUME LsInit PROVE LsInv
  OBVIOUS
<1>1. \A p \in LsProcs : lsProc[p] = LsIdle
  BY DEF LsInit
<1>2. \A i \in LsIds : lsLocal[i].n = 0 /\ lsLocal[i].st = "none"
  BY DEF LsInit, LsAbsent
<1>3. LsTypeOK
  BY LsNumbers, LsValues DEF LsInit, LsTypeOK, LsCand
<1>4. LsProcOK
  BY LsValues DEF LsInit, LsProcOK
<1>5. LsLocksHeld
  <2>1. \A f \in LsFiles : lsLock[f] = LsNone
    BY DEF LsInit
  <2>2. lsMig = LsNone
    BY DEF LsInit
  <2> QED  BY <1>1, <2>1, <2>2, LsNumbers, LsValues DEF LsLocksHeld, LsFiles
<1>6. LsQuiet /\ LsCopyTrue
  BY <1>1, LsValues DEF LsQuiet, LsCopyTrue
<1>7. LsOldWhole
  BY <1>2 DEF LsOldWhole, LsIds
<1>8. LsCountedOnce
  BY <1>2 DEF LsInit, LsCountedOnce, LsIds
<1> QED  BY <1>3, <1>4, <1>5, <1>6, <1>7, <1>8 DEF LsInv

\* The locks and the places of the processes.
LsProtocol == /\ LsProcOK /\ LsLocksHeld /\ LsQuiet
              /\ lsLock \in [LsFiles -> LsProcs \cup {LsNone, LsDead}]
              /\ lsMig \in LsProcs \cup {LsNone, LsDead}

\* One process moves to r and takes the locks that go with that place, or gives
\* them back; the others keep theirs.
LEMMA LsMoves ==
  ASSUME LsProtocol, NEW p \in LsProcs, NEW r \in LsRec, LsShape(r),
         lsProc' = [lsProc EXCEPT ![p] = r],
         lsLock' \in [LsFiles -> LsProcs \cup {LsNone, LsDead}], lsLock'["legacy"] = LsNone,
         lsMig' \in LsProcs \cup {LsNone, LsDead},
         \A q \in LsProcs \ {p} : /\ lsMig' = q <=> lsMig = q
                                  /\ lsLock'["project"] = q <=> lsLock["project"] = q
                                  /\ lsLock'["global"] = q <=> lsLock["global"] = q,
         lsMig' = p <=> LsHasMig(r),
         lsLock'["project"] = p <=> LsHasProject(r),
         lsLock'["global"] = p <=> LsHasGlobal(r),
         r.pc \in {"merge", "drop"} => \/ lsProc[p].pc \in {"merge", "drop"}
                                       \/ lsLock["project"] = LsNone,
         LsBusy(r) => LsBusy(lsProc[p]) \/ lsMig = LsNone
  PROVE  LsProtocol'
<1>1. lsProc \in [LsProcs -> LsRec] /\ \A q \in LsProcs : LsShape(lsProc[q])
  BY DEF LsProtocol, LsProcOK
<1>2. /\ lsProc' \in [LsProcs -> LsRec] /\ lsProc'[p] = r
      /\ \A q \in LsProcs \ {p} : lsProc'[q] = lsProc[q]
  BY <1>1
<1>3. LsProcOK'
  BY <1>1, <1>2 DEF LsProcOK
<1>4. LsLocksHeld'
  BY <1>2 DEF LsProtocol, LsLocksHeld
<1>5. ASSUME NEW x \in LsProcs, NEW y \in LsProcs, lsProc'[x].pc \in {"merge", "drop"},
             LsBusy(lsProc'[y])
      PROVE  FALSE
  <2>1. \A q \in LsProcs : /\ lsMig = q <=> LsHasMig(lsProc[q])
                           /\ lsLock["project"] = q <=> LsHasProject(lsProc[q])
    BY DEF LsProtocol, LsLocksHeld
  <2>2. CASE x = p /\ y = p
    BY <1>2, <1>5, <2>2 DEF LsShape, LsBusy, LsHasMig, LsPromoting
  <2>3. CASE x = p /\ y # p
    <3>1. LsBusy(lsProc[y])
      BY <1>2, <1>5, <2>3
    <3>2. LsHasProject(lsProc[y])
      BY <3>1 DEF LsBusy, LsHasProject
    <3> QED  BY <1>2, <1>5, <2>1, <2>3, <3>1, <3>2, LsNumbers DEF LsProtocol, LsQuiet
  <2>4. CASE x # p /\ y = p
    <3>1. lsProc[x].pc \in {"merge", "drop"} /\ lsMig = x
      BY <1>2, <1>5, <2>1, <2>4 DEF LsHasMig
    <3> QED  BY <1>2, <1>5, <2>4, <3>1, LsNumbers DEF LsProtocol, LsQuiet
  <2>5. CASE x # p /\ y # p
    BY <1>2, <1>5, <2>5 DEF LsProtocol, LsQuiet
  <2> QED  BY <2>2, <2>3, <2>4, <2>5
<1> QED  BY <1>3, <1>4, <1>5 DEF LsProtocol, LsQuiet

\* The locks as they are are known for every process and file.
LEMMA LsHeldFacts ==
  ASSUME LsProtocol, NEW p \in LsProcs
  PROVE  /\ lsProc[p] \in LsRec /\ LsShape(lsProc[p])
         /\ lsMig = p <=> LsHasMig(lsProc[p])
         /\ lsLock["project"] = p <=> LsHasProject(lsProc[p])
         /\ lsLock["global"] = p <=> LsHasGlobal(lsProc[p])
         /\ lsLock["legacy"] = LsNone
BY DEF LsProtocol, LsProcOK, LsLocksHeld

\* A process that goes to another place of its operation.
LEMMA LsGoes ==
  ASSUME LsProtocol, NEW p \in LsProcs,
         NEW pc \in LsPcs, LsGo(p, pc)
  PROVE  LET r == [lsProc[p] EXCEPT !.pc = pc] IN
         /\ r \in LsRec /\ lsProc' = [lsProc EXCEPT ![p] = r]
         /\ r.pc = pc /\ r.op = lsProc[p].op /\ r.on = lsProc[p].on
         /\ r.id = lsProc[p].id /\ r.copy = lsProc[p].copy
<1>1. lsProc \in [LsProcs -> LsRec] /\ lsProc[p] \in LsRec
  BY DEF LsProtocol, LsProcOK
<1> QED  BY <1>1 DEF LsGo, LsRec

\* The process ends and gives its store locks back.
LEMMA LsEnds ==
  ASSUME LsProtocol, NEW p \in LsProcs, LsEnd(p), lsLock' = LsFree(LsHolds(p)),
         lsMig' = IF lsMig = p THEN LsNone ELSE lsMig
  PROVE  LsProtocol'
<1>1. lsLock \in [LsFiles -> LsProcs \cup {LsNone, LsDead}]
      /\ lsMig \in LsProcs \cup {LsNone, LsDead}
  BY DEF LsProtocol
<1>2. \A f \in LsFiles : lsLock'[f] = IF lsLock[f] = p THEN LsNone ELSE lsLock[f]
  BY DEF LsFree, LsHolds
<1>3. lsLock' = [f \in LsFiles |-> IF lsLock[f] = p THEN LsNone ELSE lsLock[f]]
  BY DEF LsFree, LsHolds
<1>4. lsLock' \in [LsFiles -> LsProcs \cup {LsNone, LsDead}]
  BY <1>1, <1>3
<1>5. "project" \in LsFiles /\ "global" \in LsFiles /\ "legacy" \in LsFiles
  BY DEF LsFiles
<1>6. \A q \in LsProcs \ {p} : /\ lsMig' = q <=> lsMig = q
                               /\ lsLock'["project"] = q <=> lsLock["project"] = q
                               /\ lsLock'["global"] = q <=> lsLock["global"] = q
  BY <1>2, <1>5, LsNumbers
<1>7. lsMig' # p /\ lsLock'["project"] # p /\ lsLock'["global"] # p
  BY <1>2, <1>5, LsNumbers
<1>8. lsLock'["legacy"] = LsNone
  BY <1>2, <1>5, LsHeldFacts
<1> HIDE DEF LsProtocol
<1> QED  BY <1>1, <1>4, <1>6, <1>7, <1>8, LsValues, LsMoves DEF LsEnd

\* A process that moves without touching a lock.
LEMMA LsWalks ==
  ASSUME LsProtocol, NEW p \in LsProcs, NEW r \in LsRec, LsShape(r),
         lsProc' = [lsProc EXCEPT ![p] = r], UNCHANGED <<lsLock, lsMig>>,
         LsHasMig(r) <=> LsHasMig(lsProc[p]),
         LsHasProject(r) <=> LsHasProject(lsProc[p]),
         LsHasGlobal(r) <=> LsHasGlobal(lsProc[p]),
         r.pc \in {"merge", "drop"} => \/ lsProc[p].pc \in {"merge", "drop"}
                                       \/ lsLock["project"] = LsNone,
         LsBusy(r) => LsBusy(lsProc[p]) \/ lsMig = LsNone
  PROVE  LsProtocol'
<1>1. /\ lsLock' \in [LsFiles -> LsProcs \cup {LsNone, LsDead}]
      /\ lsMig' \in LsProcs \cup {LsNone, LsDead}
  BY DEF LsProtocol
<1>2. /\ lsMig' = p <=> LsHasMig(r)
      /\ lsLock'["project"] = p <=> LsHasProject(r)
      /\ lsLock'["global"] = p <=> LsHasGlobal(r)
      /\ lsLock'["legacy"] = LsNone
  BY LsHeldFacts
<1> QED  BY <1>1, <1>2, LsMoves

\* A step to another place that touches no lock.
LEMMA LsPlaces ==
  ASSUME LsProtocol, NEW p \in LsProcs,
         \/ \E op \in LsOps : LsCall(p, op)
         \/ LsInstallRefused(p) \/ LsDrain(p) \/ LsMerge(p) \/ LsDropLegacy(p) \/ LsSeek(p)
  PROVE  LsProtocol'
<1>1. /\ lsProc[p] \in LsRec /\ LsShape(lsProc[p])
      /\ lsProc \in [LsProcs -> LsRec]
  BY DEF LsProtocol, LsProcOK
<1>2. ASSUME NEW op \in LsOps, LsCall(p, op) PROVE LsProtocol'
  <2> DEFINE r == [LsIdle EXCEPT !.op = op, !.on = IF op = "retract" THEN "global" ELSE "project",
                      !.pc = IF op = "install" \/ (op = "local" /\ lsLegacy)
                             THEN "mig" ELSE "seek"]
  <2>1. /\ r \in LsRec /\ r.op = op
        /\ r.on = IF op = "retract" THEN "global" ELSE "project"
        /\ r.pc = IF op = "install" \/ (op = "local" /\ lsLegacy) THEN "mig" ELSE "seek"
    BY LsValues DEF LsRec, LsOps, LsIdle, LsPcs
  <2>2. lsProc' = [lsProc EXCEPT ![p] = r] /\ UNCHANGED <<lsLock, lsMig>> /\ lsProc[p].pc = "idle"
    BY <1>2 DEF LsCall
  <2> HIDE DEF r
  <2>3. LsShape(r)
    BY <2>1 DEF LsShape, LsOps, LsHasMig, LsPromoting
  <2>4. ~LsHasMig(r) /\ ~LsHasProject(r) /\ ~LsHasGlobal(r) /\ ~LsBusy(r)
    BY <2>1 DEF LsOps, LsHasMig, LsHasProject, LsHasGlobal, LsBusy, LsPromoting
  <2>5. ~LsHasMig(lsProc[p]) /\ ~LsHasProject(lsProc[p]) /\ ~LsHasGlobal(lsProc[p])
    BY <1>1, <2>2 DEF LsHasMig, LsHasProject, LsHasGlobal, LsPromoting, LsShape
  <2>6. r.pc \notin {"merge", "drop"}
    BY <2>1
  <2> HIDE DEF LsProtocol
  <2> QED  BY <2>1, <2>2, <2>3, <2>4, <2>5, <2>6, LsWalks
<1>3. CASE LsInstallRefused(p)
  <2>1. lsProc[p].pc = "mig" /\ lsProc[p].op = "install" /\ lsProc' = [lsProc EXCEPT ![p] = LsIdle]
        /\ UNCHANGED <<lsLock, lsMig>>
    BY <1>3 DEF LsInstallRefused, LsEnd
  <2>2. ~LsHasMig(lsProc[p]) /\ ~LsHasProject(lsProc[p]) /\ ~LsHasGlobal(lsProc[p])
    BY <1>1, <2>1 DEF LsHasMig, LsHasProject, LsHasGlobal, LsPromoting, LsShape
  <2> HIDE DEF LsProtocol
  <2> QED  BY <2>1, <2>2, LsWalks, LsValues
<1>4. CASE LsDrain(p)
  <2> DEFINE r == [lsProc[p] EXCEPT !.pc = "merge"]
  <2>1. lsProc[p].pc = "drain" /\ lsLock["project"] = LsNone /\ LsGo(p, "merge")
        /\ UNCHANGED <<lsLock, lsMig>>
    BY <1>4 DEF LsDrain, LsDrained
  <2>2. /\ r \in LsRec /\ lsProc' = [lsProc EXCEPT ![p] = r]
        /\ r.pc = "merge" /\ r.op = lsProc[p].op /\ r.on = lsProc[p].on
    BY <2>1, LsGoes DEF LsPcs
  <2> HIDE DEF r
  <2>3. /\ LsShape(r) /\ ~LsBusy(r)
        /\ LsHasMig(r) /\ LsHasMig(lsProc[p]) /\ ~LsHasProject(r) /\ ~LsHasProject(lsProc[p])
        /\ ~LsHasGlobal(r) /\ ~LsHasGlobal(lsProc[p])
    BY <1>1, <2>1, <2>2 DEF LsShape, LsHasMig, LsHasProject, LsHasGlobal, LsPromoting, LsBusy
  <2> HIDE DEF LsProtocol
  <2> QED  BY <2>1, <2>2, <2>3, LsWalks
<1>5. ASSUME NEW pc \in {"drop", "migrated"}, LsGo(p, pc), lsProc[p].pc \in {"merge", "drop"},
             UNCHANGED <<lsLock, lsMig>>
      PROVE  LsProtocol'
  <2> DEFINE r == [lsProc[p] EXCEPT !.pc = pc]
  <2>2. /\ r \in LsRec /\ lsProc' = [lsProc EXCEPT ![p] = r]
        /\ r.pc = pc /\ r.op = lsProc[p].op /\ r.on = lsProc[p].on
    <3>1. pc \in LsPcs
      BY <1>5 DEF LsPcs
    <3> QED  BY <1>5, <3>1, LsGoes
  <2> HIDE DEF r
  <2>3. /\ LsShape(r) /\ ~LsBusy(r)
        /\ LsHasMig(r) /\ LsHasMig(lsProc[p]) /\ ~LsHasProject(r) /\ ~LsHasProject(lsProc[p])
        /\ ~LsHasGlobal(r) /\ ~LsHasGlobal(lsProc[p])
    BY <1>1, <1>5, <2>2 DEF LsShape, LsHasMig, LsHasProject, LsHasGlobal, LsPromoting, LsBusy
  <2> HIDE DEF LsProtocol
  <2> QED  BY <1>5, <2>2, <2>3, LsWalks
<1>6. CASE LsMerge(p)
  BY <1>5, <1>6 DEF LsMerge
<1>7. CASE LsDropLegacy(p)
  BY <1>5, <1>7 DEF LsDropLegacy
<1>8. CASE LsSeek(p)
  <2> DEFINE r == [lsProc[p] EXCEPT !.pc = "create"]
  <2>1. lsProc[p].pc = "seek" /\ LsGo(p, "create") /\ UNCHANGED <<lsLock, lsMig>>
    BY <1>8 DEF LsSeek
  <2>2. /\ r \in LsRec /\ lsProc' = [lsProc EXCEPT ![p] = r]
        /\ r.pc = "create" /\ r.op = lsProc[p].op /\ r.on = lsProc[p].on
    BY <2>1, LsGoes DEF LsPcs
  <2> HIDE DEF r
  <2>3. /\ LsShape(r) /\ (LsBusy(r) <=> LsBusy(lsProc[p]))
        /\ ~LsHasMig(r) /\ ~LsHasMig(lsProc[p]) /\ (LsHasProject(r) <=> LsHasProject(lsProc[p]))
        /\ ~LsHasGlobal(r) /\ ~LsHasGlobal(lsProc[p])
    BY <1>1, <2>1, <2>2 DEF LsShape, LsHasMig, LsHasProject, LsHasGlobal, LsPromoting, LsBusy
  <2> HIDE DEF LsProtocol
  <2> QED  BY <2>1, <2>2, <2>3, LsWalks
<1> QED  BY <1>2, <1>3, <1>4, <1>6, <1>7, <1>8

\* The migration lock is taken and given back.
LEMMA LsMigrates ==
  ASSUME LsProtocol, NEW p \in LsProcs,
         LsMigLock(p) \/ LsInstallDone(p) \/ LsMigUnlock(p)
  PROVE  LsProtocol'
<1>1. /\ lsProc[p] \in LsRec /\ LsShape(lsProc[p])
      /\ lsProc \in [LsProcs -> LsRec]
      /\ lsMig = p <=> LsHasMig(lsProc[p])
      /\ lsLock["project"] = p <=> LsHasProject(lsProc[p])
      /\ lsLock["global"] = p <=> LsHasGlobal(lsProc[p])
      /\ lsLock["legacy"] = LsNone
      /\ lsLock \in [LsFiles -> LsProcs \cup {LsNone, LsDead}]
  BY LsHeldFacts DEF LsProtocol, LsProcOK
<1>2. CASE LsMigLock(p)
  <2> DEFINE pc == IF lsProc[p].op = "install" THEN "installing" ELSE "drain"
             r == [lsProc[p] EXCEPT !.pc = pc]
  <2>1. lsProc[p].pc = "mig" /\ lsMig = LsNone /\ lsMig' = p /\ LsGo(p, pc) /\ UNCHANGED lsLock
        /\ pc \in {"installing", "drain"} /\ (pc = "installing" <=> lsProc[p].op = "install")
    BY <1>2 DEF LsMigLock
  <2>2. /\ r \in LsRec /\ lsProc' = [lsProc EXCEPT ![p] = r]
        /\ r.pc = pc /\ r.op = lsProc[p].op /\ r.on = lsProc[p].on
    <3>1. pc \in LsPcs
      BY DEF LsPcs
    <3> HIDE DEF pc
    <3> QED  BY <2>1, <3>1, LsGoes
  <2> HIDE DEF r, pc
  <2>3. /\ LsShape(r) /\ ~LsBusy(r) /\ LsHasMig(r) /\ r.pc \notin {"merge", "drop"}
        /\ ~LsHasProject(r) /\ ~LsHasProject(lsProc[p])
        /\ ~LsHasGlobal(r) /\ ~LsHasGlobal(lsProc[p])
    BY <1>1, <2>1, <2>2 DEF LsShape, LsHasMig, LsHasProject, LsHasGlobal, LsPromoting, LsBusy
  <2>4. \A q \in LsProcs \ {p} : lsMig' = q <=> lsMig = q
    BY <2>1, LsNumbers
  <2> HIDE DEF LsProtocol
  <2> QED  BY <1>1, <2>1, <2>2, <2>3, <2>4, LsMoves
<1>3. CASE LsInstallDone(p)
  <2>1. lsProc[p].pc = "installing" /\ lsMig' = LsNone /\ UNCHANGED lsLock
        /\ lsProc' = [lsProc EXCEPT ![p] = LsIdle]
    BY <1>3 DEF LsInstallDone, LsEnd
  <2>2. lsMig = p /\ ~LsHasProject(lsProc[p]) /\ ~LsHasGlobal(lsProc[p])
    BY <1>1, <2>1 DEF LsShape, LsHasMig, LsHasProject, LsHasGlobal, LsPromoting
  <2>3. \A q \in LsProcs \ {p} : lsMig' = q <=> lsMig = q
    BY <2>1, <2>2, LsNumbers
  <2>4. lsMig' # p
    BY <2>1, LsNumbers
  <2> HIDE DEF LsProtocol
  <2> QED  BY <1>1, <2>1, <2>2, <2>3, <2>4, LsValues, LsMoves
<1>4. CASE LsMigUnlock(p)
  <2> DEFINE r == [lsProc[p] EXCEPT !.pc = "seek"]
  <2>1. lsProc[p].pc = "migrated" /\ lsMig' = LsNone /\ LsGo(p, "seek") /\ UNCHANGED lsLock
    BY <1>4 DEF LsMigUnlock
  <2>2. /\ r \in LsRec /\ lsProc' = [lsProc EXCEPT ![p] = r]
        /\ r.pc = "seek" /\ r.op = lsProc[p].op /\ r.on = lsProc[p].on
    BY <2>1, LsGoes DEF LsPcs
  <2> HIDE DEF r
  <2>3. /\ LsShape(r) /\ ~LsBusy(r) /\ ~LsHasMig(r) /\ r.pc \notin {"merge", "drop"}
        /\ ~LsHasProject(r) /\ ~LsHasProject(lsProc[p])
        /\ ~LsHasGlobal(r) /\ ~LsHasGlobal(lsProc[p]) /\ lsMig = p
    BY <1>1, <2>1, <2>2 DEF LsShape, LsHasMig, LsHasProject, LsHasGlobal, LsPromoting, LsBusy
  <2>4. (\A q \in LsProcs \ {p} : lsMig' = q <=> lsMig = q) /\ lsMig' # p
    BY <2>1, <2>3, LsNumbers
  <2> HIDE DEF LsProtocol
  <2> QED  BY <1>1, <2>1, <2>2, <2>3, <2>4, LsMoves
<1> QED  BY <1>2, <1>3, <1>4

\* A call that ends gives its locks back.
LEMMA LsFinishes ==
  ASSUME LsProtocol, NEW p \in LsProcs,
         LsTimeout(p) \/ LsCapture(p) \/ LsDecide(p) \/ LsSettle(p) \/ LsRetract(p)
  PROVE  LsProtocol'
<1>1. CASE LsTimeout(p)
  BY <1>1, LsEnds DEF LsTimeout
<1>2. CASE LsCapture(p) \/ LsDecide(p) \/ LsSettle(p) \/ LsRetract(p)
  <2>1. /\ lsProc[p].pc \in {"act", "settle"} /\ UNCHANGED lsMig
        /\ lsLock' = LsFree(LsHolds(p)) /\ LsEnd(p)
    BY <1>2 DEF LsCapture, LsDecide, LsSettle, LsRetract
  <2>2. lsMig # p
    BY <2>1, LsHeldFacts DEF LsHasMig
  <2> QED  BY <2>1, <2>2, LsEnds
<1> QED  BY <1>1, <1>2

\* A store lock is made, looked at again, and given back.
LEMMA LsStoreLocks ==
  ASSUME LsProtocol, NEW p \in LsProcs, LsCreate(p) \/ LsRecheck(p) \/ LsCount(p)
  PROVE  LsProtocol'
<1>1. /\ lsProc[p] \in LsRec /\ LsShape(lsProc[p])
      /\ lsProc \in [LsProcs -> LsRec]
      /\ lsMig = p <=> LsHasMig(lsProc[p])
      /\ lsLock["project"] = p <=> LsHasProject(lsProc[p])
      /\ lsLock["global"] = p <=> LsHasGlobal(lsProc[p])
      /\ lsLock["legacy"] = LsNone
      /\ lsLock \in [LsFiles -> LsProcs \cup {LsNone, LsDead}]
      /\ lsMig \in LsProcs \cup {LsNone, LsDead}
      /\ lsProc[p].on \in {"project", "global"}
  BY LsHeldFacts DEF LsProtocol, LsProcOK, LsRec
\* The place the process goes to, and the lock file it creates or removes.
<1>2. ASSUME NEW pc \in LsPcs, LsGo(p, pc), NEW f \in {"project", "global"},
             NEW o \in {p, LsNone}, lsLock' = [lsLock EXCEPT ![f] = o], UNCHANGED lsMig,
             lsLock[f] \in {p, LsNone},
             LsShape([lsProc[p] EXCEPT !.pc = pc]),
             LsHasMig([lsProc[p] EXCEPT !.pc = pc]) <=> LsHasMig(lsProc[p]),
             lsLock'["project"] = p <=> LsHasProject([lsProc[p] EXCEPT !.pc = pc]),
             lsLock'["global"] = p <=> LsHasGlobal([lsProc[p] EXCEPT !.pc = pc]),
             pc \notin {"merge", "drop"},
             LsBusy([lsProc[p] EXCEPT !.pc = pc]) => LsBusy(lsProc[p]) \/ lsMig = LsNone
      PROVE  LsProtocol'
  <2> DEFINE r == [lsProc[p] EXCEPT !.pc = pc]
  <2>1. r \in LsRec /\ lsProc' = [lsProc EXCEPT ![p] = r] /\ r.pc = pc
    BY <1>2, LsGoes
  <2>2. /\ LsShape(r) /\ (LsHasMig(r) <=> LsHasMig(lsProc[p]))
        /\ (lsLock'["project"] = p <=> LsHasProject(r))
        /\ (lsLock'["global"] = p <=> LsHasGlobal(r))
        /\ (LsBusy(r) => LsBusy(lsProc[p]) \/ lsMig = LsNone)
    BY <1>2
  <2> HIDE DEF r
  <2>3. "project" \in LsFiles /\ "global" \in LsFiles /\ "legacy" \in LsFiles
    BY DEF LsFiles
  <2>4. /\ lsLock' \in [LsFiles -> LsProcs \cup {LsNone, LsDead}]
        /\ lsLock'["legacy"] = LsNone
    BY <1>1, <1>2, <2>3
  <2>5. \A q \in LsProcs \ {p} : /\ lsMig' = q <=> lsMig = q
                                 /\ lsLock'["project"] = q <=> lsLock["project"] = q
                                 /\ lsLock'["global"] = q <=> lsLock["global"] = q
    BY <1>1, <1>2, <2>3, LsNumbers
  <2>6. lsMig' \in LsProcs \cup {LsNone, LsDead} /\ (lsMig' = p <=> LsHasMig(r))
        /\ r.pc \notin {"merge", "drop"}
    BY <1>1, <1>2, <2>1, <2>2
  <2> HIDE DEF LsProtocol
  <2> QED  BY <2>1, <2>2, <2>4, <2>5, <2>6, LsMoves
\* What the place says of the locks.
<1>3. ASSUME NEW pc \in LsPcs
      PROVE  LET r == [lsProc[p] EXCEPT !.pc = pc] IN
             r.pc = pc /\ r.op = lsProc[p].op /\ r.on = lsProc[p].on
  BY <1>1 DEF LsRec
<1>4. {"seek", "recheck", "act", "count", "settle"} \subseteq LsPcs
  BY DEF LsPcs
<1>5. "project" \in LsFiles /\ "global" \in LsFiles
  BY DEF LsFiles
<1>6. CASE LsCreate(p)
  <2>1. lsProc[p].pc = "create" /\ UNCHANGED lsMig
    BY <1>6 DEF LsCreate
  <2>2. CASE lsLock[lsProc[p].on] = LsNone /\ LsGo(p, "recheck")
             /\ lsLock' = [lsLock EXCEPT ![lsProc[p].on] = p]
    <3>1. lsLock'[lsProc[p].on] = p
          /\ \A f \in LsFiles : f # lsProc[p].on => lsLock'[f] = lsLock[f]
      BY <1>1, <1>5, <2>2
    <3> DEFINE r == [lsProc[p] EXCEPT !.pc = "recheck"]
    <3>2. r.pc = "recheck" /\ r.op = lsProc[p].op /\ r.on = lsProc[p].on
      BY <1>3, <1>4
    <3> HIDE DEF r
    <3>3. /\ LsShape(r) /\ ~LsHasMig(r) /\ ~LsHasMig(lsProc[p])
          /\ (LsBusy(r) => LsBusy(lsProc[p]))
      BY <1>1, <2>1, <3>2 DEF LsShape, LsPromoting, LsHasMig, LsBusy
    <3>4. lsLock'["project"] = p <=> LsHasProject(r)
      BY <1>1, <1>5, <2>1, <3>1, <3>2 DEF LsHasProject, LsPromoting
    <3>5. lsLock'["global"] = p <=> LsHasGlobal(r)
      BY <1>1, <1>5, <2>1, <3>1, <3>2 DEF LsHasGlobal
    <3>6. /\ LsShape([lsProc[p] EXCEPT !.pc = "recheck"])
          /\ (LsHasMig([lsProc[p] EXCEPT !.pc = "recheck"]) <=> LsHasMig(lsProc[p]))
          /\ (lsLock'["project"] = p <=> LsHasProject([lsProc[p] EXCEPT !.pc = "recheck"]))
          /\ (lsLock'["global"] = p <=> LsHasGlobal([lsProc[p] EXCEPT !.pc = "recheck"]))
          /\ (LsBusy([lsProc[p] EXCEPT !.pc = "recheck"]) => LsBusy(lsProc[p]))
      BY <3>3, <3>4, <3>5 DEF r
    <3> HIDE DEF LsProtocol
    <3> QED  BY <1>1, <1>2, <1>4, <2>1, <2>2, <3>6
  <2>3. CASE LsGo(p, "seek") /\ UNCHANGED lsLock
    <3> DEFINE r == [lsProc[p] EXCEPT !.pc = "seek"]
    <3>1. r \in LsRec /\ lsProc' = [lsProc EXCEPT ![p] = r]
          /\ r.pc = "seek" /\ r.op = lsProc[p].op /\ r.on = lsProc[p].on
      BY <1>4, <2>3, LsGoes
    <3> HIDE DEF r
    <3>2. /\ LsShape(r) /\ ~LsHasMig(r) /\ ~LsHasMig(lsProc[p])
          /\ (LsBusy(r) => LsBusy(lsProc[p]))
          /\ (LsHasProject(r) <=> LsHasProject(lsProc[p]))
          /\ ~LsHasGlobal(r) /\ ~LsHasGlobal(lsProc[p])
      BY <1>1, <2>1, <3>1 DEF LsShape, LsPromoting, LsHasMig, LsBusy, LsHasProject, LsHasGlobal
    <3> HIDE DEF LsProtocol
    <3> QED  BY <2>1, <2>3, <3>1, <3>2, LsWalks
  <2> QED  BY <1>6, <2>2, <2>3 DEF LsCreate
<1>7. CASE LsRecheck(p)
  <2>1. lsProc[p].pc = "recheck" /\ UNCHANGED lsMig
    BY <1>7 DEF LsRecheck
  <2>2. CASE lsLock' = [lsLock EXCEPT ![lsProc[p].on] = LsNone] /\ LsGo(p, "seek")
    <3>0. lsLock[lsProc[p].on] = p
      BY <1>1, <2>1 DEF LsHasProject, LsHasGlobal
    <3>1. lsLock'[lsProc[p].on] = LsNone
          /\ \A f \in LsFiles : f # lsProc[p].on => lsLock'[f] = lsLock[f]
      BY <1>1, <1>5, <2>2
    <3> DEFINE r == [lsProc[p] EXCEPT !.pc = "seek"]
    <3>2. r.pc = "seek" /\ r.op = lsProc[p].op /\ r.on = lsProc[p].on
      BY <1>3, <1>4
    <3> HIDE DEF r
    <3>3. /\ LsShape(r) /\ ~LsHasMig(r) /\ ~LsHasMig(lsProc[p])
          /\ (LsBusy(r) => LsBusy(lsProc[p]))
      BY <1>1, <2>1, <3>2 DEF LsShape, LsPromoting, LsHasMig, LsBusy
    <3>4. lsLock'["project"] = p <=> LsHasProject(r)
      BY <1>1, <1>5, <2>1, <3>1, <3>2, LsNumbers DEF LsHasProject, LsPromoting
    <3>5. lsLock'["global"] = p <=> LsHasGlobal(r)
      BY <1>1, <1>5, <2>1, <3>1, <3>2, LsNumbers DEF LsHasGlobal
    <3>6. /\ LsShape([lsProc[p] EXCEPT !.pc = "seek"])
          /\ (LsHasMig([lsProc[p] EXCEPT !.pc = "seek"]) <=> LsHasMig(lsProc[p]))
          /\ (lsLock'["project"] = p <=> LsHasProject([lsProc[p] EXCEPT !.pc = "seek"]))
          /\ (lsLock'["global"] = p <=> LsHasGlobal([lsProc[p] EXCEPT !.pc = "seek"]))
          /\ (LsBusy([lsProc[p] EXCEPT !.pc = "seek"]) => LsBusy(lsProc[p]))
      BY <3>3, <3>4, <3>5 DEF r
    <3> HIDE DEF LsProtocol
    <3> QED  BY <1>1, <1>2, <1>4, <2>1, <2>2, <3>0, <3>6
  <2>3. CASE /\ lsMig = LsNone /\ UNCHANGED lsLock
             /\ LsGo(p, IF lsProc[p].op = "local" /\ lsProc[p].on = "global"
                        THEN "count" ELSE "act")
    <3> DEFINE pc == IF lsProc[p].op = "local" /\ lsProc[p].on = "global" THEN "count" ELSE "act"
               r == [lsProc[p] EXCEPT !.pc = pc]
    <3>1. LsGo(p, pc) /\ pc \in LsPcs /\ pc \in {"act", "count"}
          /\ (pc = "count" <=> LsPromoting(lsProc[p]))
      BY <1>4, <2>3 DEF LsPromoting
    <3> HIDE DEF pc
    <3>2. r \in LsRec /\ lsProc' = [lsProc EXCEPT ![p] = r]
          /\ r.pc = pc /\ r.op = lsProc[p].op /\ r.on = lsProc[p].on
      BY <3>1, LsGoes
    <3> HIDE DEF r
    <3>3. /\ LsShape(r) /\ ~LsHasMig(r) /\ ~LsHasMig(lsProc[p])
          /\ r.pc \notin {"merge", "drop"}
      BY <1>1, <2>1, <3>1, <3>2 DEF LsShape, LsPromoting, LsHasMig
    <3>4. /\ (LsHasProject(r) <=> LsHasProject(lsProc[p]))
          /\ (LsHasGlobal(r) <=> LsHasGlobal(lsProc[p]))
      BY <1>1, <2>1, <3>1, <3>2 DEF LsShape, LsPromoting, LsHasProject, LsHasGlobal
    <3> HIDE DEF LsProtocol
    <3> QED  BY <2>1, <2>3, <3>2, <3>3, <3>4, LsWalks
  <2> QED  BY <1>7, <2>2, <2>3 DEF LsRecheck
<1>8. CASE LsCount(p)
  <2>1. lsProc[p].pc = "count" /\ UNCHANGED lsMig /\ LsGo(p, "settle")
        /\ lsLock' = [lsLock EXCEPT !["global"] = LsNone]
    BY <1>8 DEF LsCount
  <2>2. lsLock["global"] = p /\ LsPromoting(lsProc[p])
    BY <1>1, <2>1 DEF LsHasGlobal, LsShape, LsPromoting
  <2>3. lsLock'["global"] = LsNone /\ lsLock'["project"] = lsLock["project"]
    BY <1>1, <1>5, <2>1
  <2> DEFINE r == [lsProc[p] EXCEPT !.pc = "settle"]
  <2>4. r.pc = "settle" /\ r.op = lsProc[p].op /\ r.on = lsProc[p].on
    BY <1>3, <1>4
  <2> HIDE DEF r
  <2>5. /\ LsShape(r) /\ ~LsHasMig(r) /\ ~LsHasMig(lsProc[p])
        /\ (LsBusy(r) => LsBusy(lsProc[p]))
    BY <1>1, <2>1, <2>4 DEF LsShape, LsPromoting, LsHasMig, LsBusy
  <2>6. lsLock'["project"] = p <=> LsHasProject(r)
    BY <1>1, <2>2, <2>3, <2>4 DEF LsHasProject, LsPromoting
  <2>7. lsLock'["global"] = p <=> LsHasGlobal(r)
    BY <2>3, <2>4, LsNumbers DEF LsHasGlobal
  <2>8. /\ LsShape([lsProc[p] EXCEPT !.pc = "settle"])
        /\ (LsHasMig([lsProc[p] EXCEPT !.pc = "settle"]) <=> LsHasMig(lsProc[p]))
        /\ (lsLock'["project"] = p <=> LsHasProject([lsProc[p] EXCEPT !.pc = "settle"]))
        /\ (lsLock'["global"] = p <=> LsHasGlobal([lsProc[p] EXCEPT !.pc = "settle"]))
        /\ (LsBusy([lsProc[p] EXCEPT !.pc = "settle"]) => LsBusy(lsProc[p]))
    BY <2>5, <2>6, <2>7 DEF r
  <2> HIDE DEF LsProtocol
  <2> QED  BY <1>2, <1>4, <2>1, <2>2, <2>8
<1> QED  BY <1>6, <1>7, <1>8

\* Promotion keeps the project's lock while it seeks the global one.
LEMMA LsPromotes ==
  ASSUME LsProtocol, NEW p \in LsProcs, LsPromote(p), lsLocal \in [LsIds -> LsCand]
  PROVE  /\ LsProtocol'
         /\ \A q \in LsProcs : LsPromoting(lsProc'[q]) =>
              \/ lsProc'[q] = lsProc[q]
              \/ /\ lsProc'[q].copy = lsLocal[lsProc'[q].id]
                 /\ lsProc'[q].copy.st = "candidate"
<1>1. /\ lsProc[p] \in LsRec /\ LsShape(lsProc[p]) /\ lsProc \in [LsProcs -> LsRec]
      /\ lsProc[p].pc = "act" /\ lsProc[p].op = "local" /\ lsProc[p].on = "project"
      /\ UNCHANGED lsMig /\ lsMig # p
  <2>1. lsProc[p] \in LsRec /\ LsShape(lsProc[p]) /\ lsProc \in [LsProcs -> LsRec]
        /\ lsProc[p].pc = "act" /\ lsProc[p].op = "local" /\ UNCHANGED lsMig
    BY DEF LsProtocol, LsProcOK, LsPromote
  <2>2. lsProc[p].on \in {"project", "global"}
    BY <2>1 DEF LsRec
  <2> QED  BY <2>1, <2>2, LsHeldFacts DEF LsShape, LsPromoting, LsHasMig
<1>2. CASE lsLock' = LsFree(LsHolds(p)) /\ LsEnd(p)
  <2>1. LsProtocol'
    BY <1>1, <1>2, LsEnds
  <2>2. lsProc'[p] = LsIdle /\ \A q \in LsProcs \ {p} : lsProc'[q] = lsProc[q]
    BY <1>1, <1>2 DEF LsEnd
  <2> QED  BY <2>1, <2>2, LsValues
<1>3. ASSUME NEW i \in LsIds, lsLocal[i].st = "candidate", UNCHANGED lsLock,
             lsProc' = [lsProc EXCEPT ![p].pc = "seek", ![p].on = "global", ![p].id = i,
                                      ![p].copy = lsLocal[i]]
      PROVE  /\ LsProtocol'
             /\ \A q \in LsProcs : LsPromoting(lsProc'[q]) =>
                  \/ lsProc'[q] = lsProc[q]
                  \/ /\ lsProc'[q].copy = lsLocal[lsProc'[q].id]
                     /\ lsProc'[q].copy.st = "candidate"
  <2> DEFINE r == [op |-> "local", pc |-> "seek", on |-> "global", id |-> i,
                   copy |-> lsLocal[i]]
  <2>1. r \in LsRec /\ r.op = "local" /\ r.pc = "seek" /\ r.on = "global" /\ r.id = i
        /\ r.copy = lsLocal[i]
    BY DEF LsRec, LsPcs, LsOps
  <2>2. lsProc' = [lsProc EXCEPT ![p] = r]
    BY <1>1, <1>3 DEF LsRec
  <2> HIDE DEF r
  <2>3. /\ LsShape(r) /\ ~LsHasMig(r) /\ ~LsHasMig(lsProc[p])
        /\ LsHasProject(r) /\ LsHasProject(lsProc[p])
        /\ ~LsHasGlobal(r) /\ ~LsHasGlobal(lsProc[p]) /\ LsBusy(lsProc[p])
    BY <1>1, <2>1 DEF LsShape, LsPromoting, LsHasMig, LsHasProject, LsHasGlobal, LsBusy
  <2>4. LsProtocol'
    <3> HIDE DEF LsProtocol
    <3> QED  BY <1>1, <1>3, <2>1, <2>2, <2>3, LsWalks
  <2>5. lsProc'[p] = r /\ \A q \in LsProcs \ {p} : lsProc'[q] = lsProc[q]
    BY <1>1, <2>2
  <2> QED  BY <1>3, <2>1, <2>4, <2>5
<1> QED  BY <1>2, <1>3 DEF LsPromote

\* A dead owner's lock file goes away; nobody alive loses one.
LEMMA LsRemoves ==
  ASSUME LsProtocol, NEW p \in LsProcs, LsRemoveStale(p)
  PROVE  LsProtocol'
<1>1. /\ lsLock \in [LsFiles -> LsProcs \cup {LsNone, LsDead}]
      /\ lsMig \in LsProcs \cup {LsNone, LsDead} /\ lsLock["legacy"] = LsNone
      /\ "project" \in LsFiles /\ "global" \in LsFiles /\ "legacy" \in LsFiles
  BY DEF LsProtocol, LsLocksHeld, LsFiles
<1>2. /\ lsLock' \in [LsFiles -> LsProcs \cup {LsNone, LsDead}]
      /\ lsMig' \in LsProcs \cup {LsNone, LsDead}
      /\ \A f \in LsFiles : lsLock'[f] = lsLock[f] \/ (lsLock[f] = LsDead /\ lsLock'[f] = LsNone)
      /\ lsMig' = lsMig \/ (lsMig = LsDead /\ lsMig' = LsNone)
  <2>1. CASE lsMig = LsDead /\ lsMig' = LsNone /\ UNCHANGED lsLock
    BY <1>1, <2>1
  <2>2. ASSUME NEW f \in LsFiles, lsLock[f] = LsDead, lsLock' = [lsLock EXCEPT ![f] = LsNone],
               UNCHANGED lsMig
        PROVE  /\ lsLock' \in [LsFiles -> LsProcs \cup {LsNone, LsDead}]
               /\ lsMig' \in LsProcs \cup {LsNone, LsDead}
               /\ \A g \in LsFiles : \/ lsLock'[g] = lsLock[g]
                                     \/ lsLock[g] = LsDead /\ lsLock'[g] = LsNone
               /\ lsMig' = lsMig \/ (lsMig = LsDead /\ lsMig' = LsNone)
    BY <1>1, <2>2
  <2> QED  BY <2>1, <2>2 DEF LsRemoveStale
<1>3. UNCHANGED lsProc
  BY DEF LsRemoveStale
<1>4. lsLock'["legacy"] = LsNone
  BY <1>1, <1>2
<1>5. \A q \in LsProcs : /\ lsMig' = q <=> lsMig = q
                         /\ lsLock'["project"] = q <=> lsLock["project"] = q
                         /\ lsLock'["global"] = q <=> lsLock["global"] = q
  BY <1>1, <1>2, LsNumbers
<1>6. LsProcOK'
  BY <1>3 DEF LsProtocol, LsProcOK
<1>7. LsLocksHeld'
  BY <1>3, <1>4, <1>5 DEF LsProtocol, LsLocksHeld
<1>8. LsQuiet'
  BY <1>3 DEF LsProtocol, LsQuiet
<1> QED  BY <1>2, <1>6, <1>7, <1>8 DEF LsProtocol

\* A process dies and its lock files stay behind.
LEMMA LsDies ==
  ASSUME LsProtocol, NEW p \in LsProcs, LsCrash(p)
  PROVE  LsProtocol'
<1>1. /\ lsLock \in [LsFiles -> LsProcs \cup {LsNone, LsDead}]
      /\ lsMig \in LsProcs \cup {LsNone, LsDead} /\ lsLock["legacy"] = LsNone
      /\ "project" \in LsFiles /\ "global" \in LsFiles /\ "legacy" \in LsFiles
  BY DEF LsProtocol, LsLocksHeld, LsFiles
<1>2. /\ lsLock' = [f \in LsFiles |-> IF lsLock[f] = p THEN LsDead ELSE lsLock[f]]
      /\ lsMig' = (IF lsMig = p THEN LsDead ELSE lsMig)
      /\ lsProc' = [lsProc EXCEPT ![p] = LsIdle]
  BY DEF LsCrash, LsEnd
<1>3. /\ lsLock' \in [LsFiles -> LsProcs \cup {LsNone, LsDead}]
      /\ lsMig' \in LsProcs \cup {LsNone, LsDead} /\ lsLock'["legacy"] = LsNone
  BY <1>1, <1>2, LsNumbers
<1>4. \A q \in LsProcs \ {p} : /\ lsMig' = q <=> lsMig = q
                               /\ lsLock'["project"] = q <=> lsLock["project"] = q
                               /\ lsLock'["global"] = q <=> lsLock["global"] = q
  BY <1>1, <1>2, LsNumbers
<1>5. lsMig' # p /\ lsLock'["project"] # p /\ lsLock'["global"] # p
  BY <1>1, <1>2, LsNumbers
<1> HIDE DEF LsProtocol
<1> QED  BY <1>2, <1>3, <1>4, <1>5, LsValues, LsMoves

\* Every step keeps the protocol.
LEMMA LsProtocolStep ==
  ASSUME LsProtocol, lsLocal \in [LsIds -> LsCand], [LsNext]_lsVars PROVE LsProtocol'
<1>1. CASE UNCHANGED lsVars
  BY <1>1 DEF lsVars, LsProtocol, LsProcOK, LsLocksHeld, LsQuiet
<1>2. ASSUME NEW p \in LsProcs,
             \/ \E op \in LsOps : LsCall(p, op)
             \/ LsStep(p) \/ LsTimeout(p) \/ LsCrash(p)
      PROVE  LsProtocol'
  <2>1. CASE \/ \E op \in LsOps : LsCall(p, op)
             \/ LsInstallRefused(p) \/ LsDrain(p) \/ LsMerge(p) \/ LsDropLegacy(p) \/ LsSeek(p)
    BY <2>1, LsPlaces
  <2>2. CASE LsMigLock(p) \/ LsInstallDone(p) \/ LsMigUnlock(p)
    BY <2>2, LsMigrates
  <2>3. CASE LsTimeout(p) \/ LsCapture(p) \/ LsDecide(p) \/ LsSettle(p) \/ LsRetract(p)
    BY <2>3, LsFinishes
  <2>4. CASE LsCreate(p) \/ LsRecheck(p) \/ LsCount(p)
    BY <2>4, LsStoreLocks
  <2>5. CASE LsPromote(p)
    BY <2>5, LsPromotes
  <2>6. CASE LsRemoveStale(p)
    BY <2>6, LsRemoves
  <2>7. CASE LsCrash(p)
    BY <2>7, LsDies
  <2> QED  BY <1>2, <2>1, <2>2, <2>3, <2>4, <2>5, <2>6, <2>7 DEF LsStep
<1> QED  BY <1>1, <1>2 DEF LsNext

\* What the stores hold and what a promotion has read of them.
LsStored == /\ lsLegacy \in BOOLEAN /\ lsCrashes \in 0..LsMaxCrashes
            /\ lsLocal \in [LsIds -> LsCand]
            /\ lsGlobal.n \in Nat /\ lsGlobal.evidence \subseteq LsIds
            /\ LsCopyTrue /\ LsOldWhole /\ LsCountedOnce

\* No occurrence and no decision of the project's store is taken back.
LsForward == \A i \in LsIds : /\ lsLocal'[i].n >= lsLocal[i].n
                              /\ lsLocal[i].st \in {"promoted", "dismissed"} =>
                                   lsLocal'[i].st = lsLocal[i].st

\* The invariant has these two halves.
LEMMA LsHalves == LsInv <=> LsProtocol /\ LsStored
BY DEF LsInv, LsTypeOK, LsProtocol, LsStored, LsCand

\* A step that writes no record: what is read before it is still true.
LEMMA LsStands ==
  ASSUME LsStored, UNCHANGED <<lsLocal, lsGlobal>>,
         lsLegacy' \in BOOLEAN, lsCrashes' \in 0..LsMaxCrashes,
         \A q \in LsProcs : LsPromoting(lsProc'[q]) =>
           \/ /\ LsPromoting(lsProc[q])
              /\ lsProc'[q].id = lsProc[q].id /\ lsProc'[q].copy = lsProc[q].copy
           \/ /\ lsProc'[q].copy = lsLocal[lsProc'[q].id]
              /\ lsProc'[q].copy.st = "candidate"
  PROVE  LsStored' /\ LsForward
<1>1. LsCopyTrue'
  BY DEF LsStored, LsCopyTrue
<1>2. LsOldWhole' /\ LsCountedOnce'
  BY DEF LsStored, LsOldWhole, LsCountedOnce
<1>3. \A i \in LsIds : lsLocal[i].n \in Nat
  BY LsNumbers DEF LsStored, LsCand
<1>4. LsForward
  BY <1>3 DEF LsForward
<1> QED  BY <1>1, <1>2, <1>4 DEF LsStored

\* A step of one process that writes no record and leaves its promotion alone.
LEMMA LsStandsBy ==
  ASSUME LsProtocol, LsStored, NEW p \in LsProcs, NEW r,
         UNCHANGED <<lsLocal, lsGlobal>>,
         lsLegacy' \in BOOLEAN, lsCrashes' \in 0..LsMaxCrashes,
         lsProc' = [lsProc EXCEPT ![p] = r],
         LsPromoting(r) => /\ LsPromoting(lsProc[p])
                           /\ r.id = lsProc[p].id /\ r.copy = lsProc[p].copy
  PROVE  LsStored' /\ LsForward
<1>1. lsProc'[p] = r /\ \A q \in LsProcs \ {p} : lsProc'[q] = lsProc[q]
  BY DEF LsProtocol, LsProcOK
<1> QED  BY <1>1, LsStands

\* A step that writes the project's store while nobody promotes: it only adds.
LEMMA LsWrites ==
  ASSUME LsStored, UNCHANGED lsGlobal,
         lsLegacy' \in BOOLEAN, lsCrashes' \in 0..LsMaxCrashes,
         lsLocal' \in [LsIds -> LsCand], LsForward, LsOldWhole',
         \A q \in LsProcs : ~LsPromoting(lsProc'[q])
  PROVE  LsStored'
<1>1. LsCopyTrue'
  BY DEF LsCopyTrue
<1>2. "old" \in LsIds /\ "new" \in LsIds
  BY DEF LsIds
<1>3. /\ lsLocal'["old"].n >= lsLocal["old"].n /\ lsLocal'["new"].n >= lsLocal["new"].n
      /\ lsLocal["old"].n \in Nat /\ lsLocal["new"].n \in Nat
      /\ lsLocal'["old"].n \in Nat /\ lsLocal'["new"].n \in Nat
  BY <1>2, LsNumbers DEF LsForward, LsStored, LsCand
<1>4. LsCountedOnce'
  BY <1>3 DEF LsStored, LsCountedOnce
<1> QED  BY <1>1, <1>4 DEF LsStored

\* Whoever writes the project's store is alone with it.
LEMMA LsAlone ==
  ASSUME LsProtocol, NEW p \in LsProcs,
         lsProc[p].pc \in {"merge", "drop"} \/ LsHasProject(lsProc[p]),
         NEW q \in LsProcs, q # p
  PROVE  ~LsPromoting(lsProc[q])
<1>1. CASE lsProc[p].pc \in {"merge", "drop"}
  BY <1>1 DEF LsProtocol, LsQuiet, LsBusy
<1>2. CASE LsHasProject(lsProc[p])
  BY <1>2 DEF LsProtocol, LsLocksHeld, LsHasProject
<1> QED  BY <1>1, <1>2

\* The steps between the locks write no record.
LEMMA LsLockSteps ==
  ASSUME LsProtocol, LsStored, NEW p \in LsProcs,
         \/ \E op \in LsOps : LsCall(p, op)
         \/ LsInstallRefused(p) \/ LsDrain(p) \/ LsDropLegacy(p) \/ LsSeek(p)
         \/ LsMigLock(p) \/ LsInstallDone(p) \/ LsMigUnlock(p) \/ LsTimeout(p)
         \/ LsCreate(p) \/ LsRecheck(p) \/ LsRemoveStale(p) \/ LsCrash(p)
  PROVE  LsStored' /\ LsForward
<1>1. /\ lsProc[p] \in LsRec /\ LsShape(lsProc[p]) /\ lsProc \in [LsProcs -> LsRec]
      /\ lsLegacy \in BOOLEAN /\ lsCrashes \in 0..LsMaxCrashes
  BY LsHeldFacts DEF LsProtocol, LsProcOK, LsStored
<1>2. UNCHANGED <<lsLocal, lsGlobal>>
  BY DEF LsCall, LsInstallRefused, LsDrain, LsDropLegacy, LsSeek, LsMigLock, LsInstallDone,
         LsMigUnlock, LsTimeout, LsCreate, LsRecheck, LsRemoveStale, LsCrash, lsStores
<1>3. lsLegacy' \in BOOLEAN
  BY <1>1 DEF LsCall, LsInstallRefused, LsDrain, LsDropLegacy, LsSeek, LsMigLock, LsInstallDone,
         LsMigUnlock, LsTimeout, LsCreate, LsRecheck, LsRemoveStale, LsCrash, lsStores
<1>4. lsCrashes' \in 0..LsMaxCrashes
  <2>1. CASE LsCrash(p)
    BY <1>1, <2>1, LsNumbers DEF LsCrash
  <2>2. CASE UNCHANGED lsCrashes
    BY <1>1, <2>2
  <2> QED  BY <2>1, <2>2 DEF LsCall, LsInstallRefused, LsDrain, LsDropLegacy, LsSeek, LsMigLock,
         LsInstallDone, LsMigUnlock, LsTimeout, LsCreate, LsRecheck, LsRemoveStale
<1>5. ASSUME NEW pc \in LsPcs, LsGo(p, pc) PROVE LsStored' /\ LsForward
  <2> DEFINE r == [lsProc[p] EXCEPT !.pc = pc]
  <2>1. lsProc' = [lsProc EXCEPT ![p] = r] /\ r.op = lsProc[p].op /\ r.on = lsProc[p].on
        /\ r.id = lsProc[p].id /\ r.copy = lsProc[p].copy
    BY <1>5, LsGoes
  <2> HIDE DEF r
  <2>2. LsPromoting(r) => LsPromoting(lsProc[p])
    BY <2>1 DEF LsPromoting
  <2> QED  BY <1>2, <1>3, <1>4, <2>1, <2>2, LsStandsBy
<1>6. CASE LsEnd(p)
  BY <1>2, <1>3, <1>4, <1>6, LsStandsBy, LsValues DEF LsEnd
<1>7. ASSUME NEW op \in LsOps, LsCall(p, op) PROVE LsStored' /\ LsForward
  <2> DEFINE r == [LsIdle EXCEPT !.op = op, !.on = IF op = "retract" THEN "global" ELSE "project",
                      !.pc = IF op = "install" \/ (op = "local" /\ lsLegacy)
                             THEN "mig" ELSE "seek"]
  <2>1. r.op = op /\ r.on = (IF op = "retract" THEN "global" ELSE "project")
    BY DEF LsIdle
  <2>2. lsProc' = [lsProc EXCEPT ![p] = r]
    BY <1>7 DEF LsCall
  <2> HIDE DEF r
  <2>3. ~LsPromoting(r)
    BY <2>1 DEF LsPromoting
  <2> QED  BY <1>2, <1>3, <1>4, <2>2, <2>3, LsStandsBy
<1>8. CASE UNCHANGED lsProc
  BY <1>2, <1>3, <1>4, <1>8, LsStands
<1>9. {"create", "recheck", "act", "count", "settle", "seek", "merge", "drop", "migrated", "drain",
       "installing"} \subseteq LsPcs
  BY DEF LsPcs
<1>10. CASE LsDrain(p) \/ LsDropLegacy(p) \/ LsSeek(p) \/ LsMigLock(p) \/ LsMigUnlock(p)
            \/ LsCreate(p) \/ LsRecheck(p)
  <2>1. \E pc \in LsPcs : LsGo(p, pc)
    BY <1>9, <1>10 DEF LsDrain, LsDropLegacy, LsSeek, LsMigLock, LsMigUnlock, LsCreate, LsRecheck
  <2> QED  BY <1>5, <2>1
<1>11. CASE LsInstallRefused(p) \/ LsInstallDone(p) \/ LsTimeout(p) \/ LsCrash(p)
  BY <1>6, <1>11 DEF LsInstallRefused, LsInstallDone, LsTimeout, LsCrash
<1>12. CASE LsRemoveStale(p)
  BY <1>8, <1>12 DEF LsRemoveStale
<1> QED  BY <1>7, <1>10, <1>11, <1>12

\* The process that writes the project's store and the others after its step.
LEMMA LsNobodyPromotes ==
  ASSUME LsProtocol, NEW p \in LsProcs, NEW r,
         lsProc[p].pc \in {"merge", "drop"} \/ LsHasProject(lsProc[p]),
         lsProc' = [lsProc EXCEPT ![p] = r], ~LsPromoting(r)
  PROVE  \A q \in LsProcs : ~LsPromoting(lsProc'[q])
<1>1. lsProc'[p] = r /\ \A q \in LsProcs \ {p} : lsProc'[q] = lsProc[q]
  BY DEF LsProtocol, LsProcOK
<1> QED  BY <1>1, LsAlone

\* One candidate's record is replaced by one that goes on from it.
LEMMA LsRecords ==
  ASSUME LsStored, NEW i \in LsIds, NEW c \in LsCand,
         lsLocal' = [lsLocal EXCEPT ![i] = c], c.n >= lsLocal[i].n,
         lsLocal[i].st \in {"promoted", "dismissed"} => c.st = lsLocal[i].st,
         i = "old" => lsLocal[i].st # "none" \/ c.n >= 2, c.st # "none"
  PROVE  lsLocal' \in [LsIds -> LsCand] /\ LsForward /\ LsOldWhole'
<1>1. lsLocal \in [LsIds -> LsCand] /\ "old" \in LsIds
  BY DEF LsStored, LsIds
<1>2. lsLocal' \in [LsIds -> LsCand] /\ lsLocal'[i] = c
      /\ \A j \in LsIds : j # i => lsLocal'[j] = lsLocal[j]
  BY <1>1
<1>3. \A j \in LsIds : lsLocal[j].n \in Nat /\ lsLocal'[j].n \in Nat
  BY <1>1, <1>2, LsNumbers DEF LsCand
<1>4. LsForward
  BY <1>2, <1>3 DEF LsForward
<1>5. LsOldWhole'
  BY <1>1, <1>2, <1>3 DEF LsStored, LsOldWhole
<1> QED  BY <1>2, <1>4, <1>5

\* Nothing of the project's store is written.
LEMMA LsNothingWritten ==
  ASSUME LsStored, UNCHANGED lsLocal
  PROVE  lsLocal' \in [LsIds -> LsCand] /\ LsForward /\ LsOldWhole'
<1>1. \A j \in LsIds : lsLocal[j].n \in Nat
  BY LsNumbers DEF LsStored, LsCand
<1> QED  BY <1>1 DEF LsStored, LsForward, LsOldWhole

\* Another occurrence, or a new candidate.
LEMMA LsCaptured ==
  ASSUME LsStored, NEW p \in LsProcs, LsCapture(p)
  PROVE  lsLocal' \in [LsIds -> LsCand] /\ LsForward /\ LsOldWhole'
<1>1. lsLocal \in [LsIds -> LsCand] /\ "new" \in LsIds /\ LsMaxCount \in Nat
      /\ 1 \in 0..LsMaxCount
  BY LsNumbers DEF LsStored, LsIds
<1>2. ASSUME NEW i \in LsIds, lsLocal[i].st = "candidate",
             lsLocal' = [lsLocal EXCEPT ![i].n = IF @ < LsMaxCount THEN @ + 1 ELSE @]
      PROVE  lsLocal' \in [LsIds -> LsCand] /\ LsForward /\ LsOldWhole'
  <2> DEFINE n == IF lsLocal[i].n < LsMaxCount THEN lsLocal[i].n + 1 ELSE lsLocal[i].n
             c == [n |-> n, st |-> "candidate"]
  <2>1. lsLocal[i] \in LsCand /\ lsLocal[i] = [n |-> lsLocal[i].n, st |-> "candidate"]
    BY <1>1, <1>2 DEF LsCand
  <2>2. lsLocal[i].n \in 0..LsMaxCount
    BY <2>1 DEF LsCand
  <2>3. n \in 0..LsMaxCount /\ n >= lsLocal[i].n
    BY <1>1, <2>2
  <2>4. lsLocal' = [lsLocal EXCEPT ![i] = c]
    <3>1. lsLocal' = [lsLocal EXCEPT ![i].n = n]
      BY <1>1, <1>2
    <3> HIDE DEF n
    <3>2. [lsLocal[i] EXCEPT !.n = n] = c
      BY <2>1 DEF LsCand
    <3>3. [lsLocal EXCEPT ![i].n = n] = [lsLocal EXCEPT ![i] = [lsLocal[i] EXCEPT !.n = n]]
      BY <1>1
    <3> HIDE DEF c
    <3> QED  BY <3>1, <3>2, <3>3
  <2> HIDE DEF n
  <2>5. c \in LsCand /\ c.n = n /\ c.st = "candidate"
    BY <2>3 DEF LsCand
  <2> HIDE DEF c
  <2> QED  BY <1>2, <2>3, <2>4, <2>5, LsRecords
<1>3. ASSUME lsLocal["new"].st = "none",
             lsLocal' = [lsLocal EXCEPT !["new"] = [n |-> 1, st |-> "candidate"]]
      PROVE  lsLocal' \in [LsIds -> LsCand] /\ LsForward /\ LsOldWhole'
  <2> DEFINE c == [n |-> 1, st |-> "candidate"]
  <2>1. c \in LsCand /\ c.n = 1 /\ c.st = "candidate"
    BY <1>1 DEF LsCand
  <2>2. lsLocal["new"].n = 0 /\ lsLocal' = [lsLocal EXCEPT !["new"] = c]
    BY <1>1, <1>3 DEF LsStored, LsOldWhole
  <2> HIDE DEF c
  <2>3. /\ c.n >= lsLocal["new"].n /\ c.st # "none" /\ "new" # "old"
        /\ lsLocal["new"].st \notin {"promoted", "dismissed"}
    BY <1>3, <2>1, <2>2
  <2> QED  BY <1>1, <2>1, <2>2, <2>3, LsRecords
<1>4. CASE UNCHANGED lsLocal
  BY <1>4, LsNothingWritten
<1> QED  BY <1>2, <1>3, <1>4 DEF LsCapture

\* A candidate is promoted or dismissed within the project.
LEMMA LsDecided ==
  ASSUME LsStored, NEW p \in LsProcs, LsDecide(p)
  PROVE  lsLocal' \in [LsIds -> LsCand] /\ LsForward /\ LsOldWhole'
<1>1. lsLocal \in [LsIds -> LsCand]
  BY DEF LsStored
<1>2. ASSUME NEW i \in LsIds, lsLocal[i].st = "candidate", NEW st \in {"promoted", "dismissed"},
             lsLocal' = [lsLocal EXCEPT ![i].st = st]
      PROVE  lsLocal' \in [LsIds -> LsCand] /\ LsForward /\ LsOldWhole'
  <2> DEFINE c == [n |-> lsLocal[i].n, st |-> st]
  <2>1. c \in LsCand /\ c.n = lsLocal[i].n /\ c.st = st /\ lsLocal[i].n \in 0..LsMaxCount
    BY <1>1 DEF LsCand
  <2>2. [lsLocal[i] EXCEPT !.st = st] = c
    BY <1>1 DEF LsCand
  <2>3. [lsLocal EXCEPT ![i].st = st] = [lsLocal EXCEPT ![i] = [lsLocal[i] EXCEPT !.st = st]]
    BY <1>1
  <2> HIDE DEF c
  <2>4. lsLocal' = [lsLocal EXCEPT ![i] = c]
    BY <1>2, <2>2, <2>3
  <2>5. c.n >= lsLocal[i].n /\ c.st # "none"
    BY <1>2, <2>1, LsNumbers
  <2> QED  BY <1>2, <2>1, <2>4, <2>5, LsRecords
<1>3. CASE UNCHANGED lsLocal
  BY <1>3, LsNothingWritten
<1> QED  BY <1>2, <1>3 DEF LsDecide

\* The migration brings the legacy candidate, unless the project has as many.
LEMMA LsMerged ==
  ASSUME LsStored, NEW p \in LsProcs, LsMerge(p)
  PROVE  lsLocal' \in [LsIds -> LsCand] /\ LsForward /\ LsOldWhole'
<1>1. lsLocal \in [LsIds -> LsCand] /\ "old" \in LsIds
  BY DEF LsStored, LsIds
<1>2. lsLocal["old"] \in LsCand /\ lsLocal["old"].n \in 0..LsMaxCount
  BY <1>1 DEF LsCand
<1>3. ASSUME lsLocal["old"].st # "none", ~(LsOld.n > lsLocal["old"].n),
             lsLocal' = [lsLocal EXCEPT !["old"] = lsLocal["old"]]
      PROVE  UNCHANGED lsLocal
  BY <1>1, <1>3
<1>4. ASSUME lsLocal["old"].st = "none" \/ LsOld.n > lsLocal["old"].n,
             lsLocal' = [lsLocal EXCEPT !["old"] = LsOld]
      PROVE  lsLocal' \in [LsIds -> LsCand] /\ LsForward /\ LsOldWhole'
  <2>1. lsLocal["old"].st = "none" /\ lsLocal["old"].n = 0
    BY <1>1, <1>2, <1>4, LsValues, LsNumbers DEF LsStored, LsOldWhole
  <2>2. LsOld.n >= lsLocal["old"].n /\ LsOld.n >= 2 /\ LsOld.st # "none" /\ LsOld \in LsCand
    BY <2>1, LsValues
  <2> QED  BY <1>1, <1>4, <2>1, <2>2, LsRecords
<1>5. CASE UNCHANGED lsLocal
  BY <1>5, LsNothingWritten
<1>6. \/ UNCHANGED lsLocal
      \/ lsLocal' = [lsLocal EXCEPT !["old"] = IF lsLocal["old"].st = "none"
                                                  \/ LsOld.n > lsLocal["old"].n
                                               THEN LsOld ELSE lsLocal["old"]]
  BY DEF LsMerge
<1> QED  BY <1>3, <1>4, <1>5, <1>6

\* The promoted candidate is written back as it was read.
LEMMA LsSettled ==
  ASSUME LsProtocol, LsStored, NEW p \in LsProcs, LsSettle(p)
  PROVE  lsLocal' \in [LsIds -> LsCand] /\ LsForward /\ LsOldWhole'
<1> DEFINE i == lsProc[p].id
           c == [n |-> lsProc[p].copy.n, st |-> "promoted"]
<1>1. lsLocal \in [LsIds -> LsCand] /\ lsProc[p] \in LsRec /\ LsShape(lsProc[p])
      /\ lsProc[p].pc = "settle"
  BY LsHeldFacts DEF LsStored, LsSettle
<1>2. lsProc[p].copy = lsLocal[lsProc[p].id] /\ lsProc[p].copy.st = "candidate"
  BY <1>1 DEF LsStored, LsCopyTrue, LsShape
<1>3. i \in LsIds /\ lsLocal' = [lsLocal EXCEPT ![i] = c]
  BY <1>1 DEF LsRec, LsSettle
<1>4. c \in LsCand /\ c.n = lsProc[p].copy.n /\ c.st = "promoted"
  BY <1>1 DEF LsRec, LsCand
<1>5. lsLocal[i].n \in 0..LsMaxCount /\ lsProc[p].copy = lsLocal[i]
  BY <1>1, <1>2, <1>3 DEF LsCand
<1> HIDE DEF i, c
<1>6. c.n >= lsLocal[i].n /\ lsLocal[i].st = "candidate"
  BY <1>2, <1>4, <1>5, LsNumbers
<1> QED  BY <1>3, <1>4, <1>6, LsRecords

\* The steps that write the project's store.
LEMMA LsLocalSteps ==
  ASSUME LsProtocol, LsStored, NEW p \in LsProcs,
         LsMerge(p) \/ LsCapture(p) \/ LsDecide(p) \/ LsSettle(p)
  PROVE  LsStored' /\ LsForward
<1>1. lsLocal' \in [LsIds -> LsCand] /\ LsForward /\ LsOldWhole'
  BY LsMerged, LsCaptured, LsDecided, LsSettled
<1>2. /\ UNCHANGED lsGlobal
      /\ lsLegacy' \in BOOLEAN /\ lsCrashes' \in 0..LsMaxCrashes
  BY DEF LsStored, LsMerge, LsCapture, LsDecide, LsSettle
<1>3. lsProc[p] \in LsRec /\ LsShape(lsProc[p])
  BY LsHeldFacts
<1>4. CASE LsMerge(p)
  <2>1. PICK pc \in {"drop", "migrated"} : LsGo(p, pc)
    BY <1>4 DEF LsMerge
  <2> DEFINE r == [lsProc[p] EXCEPT !.pc = pc]
  <2>2. lsProc' = [lsProc EXCEPT ![p] = r] /\ r.op = lsProc[p].op /\ r.on = lsProc[p].on
    <3>1. pc \in LsPcs
      BY DEF LsPcs
    <3> QED  BY <2>1, <3>1, LsGoes
  <2> HIDE DEF r
  <2>3. lsProc[p].pc = "merge" /\ ~LsPromoting(r)
    BY <1>3, <1>4, <2>2 DEF LsMerge, LsShape, LsPromoting
  <2>4. \A q \in LsProcs : ~LsPromoting(lsProc'[q])
    BY <2>2, <2>3, LsNobodyPromotes
  <2> QED  BY <1>1, <1>2, <2>4, LsWrites
<1>5. CASE LsCapture(p) \/ LsDecide(p) \/ LsSettle(p)
  <2>1. lsProc' = [lsProc EXCEPT ![p] = LsIdle]
    BY <1>5 DEF LsCapture, LsDecide, LsSettle, LsEnd
  <2>2. LsHasProject(lsProc[p])
    <3>1. \/ lsProc[p].pc = "act" /\ lsProc[p].op = "local"
          \/ lsProc[p].pc = "settle"
      BY <1>5 DEF LsCapture, LsDecide, LsSettle
    <3>2. lsProc[p].on \in {"project", "global"}
      BY <1>3 DEF LsRec
    <3> QED  BY <1>3, <3>1, <3>2 DEF LsShape, LsHasProject, LsPromoting
  <2>3. \A q \in LsProcs : ~LsPromoting(lsProc'[q])
    BY <2>1, <2>2, LsNobodyPromotes, LsValues
  <2> QED  BY <1>1, <1>2, <2>3, LsWrites
<1> QED  BY <1>4, <1>5

\* The global record adds the count of a candidate it does not list yet.
LEMMA LsCounted ==
  ASSUME LsProtocol, LsStored, NEW p \in LsProcs, LsCount(p)
  PROVE  LsStored' /\ LsForward
<1>1. /\ lsLocal \in [LsIds -> LsCand] /\ lsProc[p] \in LsRec /\ LsShape(lsProc[p])
      /\ lsProc[p].pc = "count" /\ lsGlobal.n \in Nat /\ lsGlobal.evidence \subseteq LsIds
      /\ UNCHANGED <<lsLegacy, lsLocal, lsCrashes>>
  BY LsHeldFacts DEF LsStored, LsCount
<1>2. LsPromoting(lsProc[p]) /\ lsProc[p].copy.n = lsLocal[lsProc[p].id].n /\ lsProc[p].id \in LsIds
  BY <1>1 DEF LsStored, LsCopyTrue, LsShape, LsRec
<1>3. \A j \in LsIds : lsLocal[j].n \in Nat
  BY <1>1, LsNumbers DEF LsCand
<1>4. /\ lsGlobal'.n \in Nat /\ lsGlobal'.evidence \subseteq LsIds /\ LsCountedOnce'
  <2>1. CASE lsProc[p].id \in lsGlobal.evidence
    <3>1. UNCHANGED <<lsGlobal, lsLocal>>
      BY <1>1, <2>1 DEF LsCount
    <3> QED  BY <1>1, <3>1 DEF LsStored, LsCountedOnce
  <2>2. CASE lsProc[p].id \notin lsGlobal.evidence
    <3>1. /\ lsGlobal'.n = lsGlobal.n + lsLocal[lsProc[p].id].n
          /\ lsGlobal'.evidence = lsGlobal.evidence \cup {lsProc[p].id}
      BY <1>2, <2>2 DEF LsCount
    <3>2. lsProc[p].id = "old" \/ lsProc[p].id = "new"
      BY <1>2 DEF LsIds
    <3>3. lsLocal["old"].n \in Nat /\ lsLocal["new"].n \in Nat
      BY <1>3 DEF LsIds
    <3>4. LsCountedOnce'
      <4> DEFINE old == IF "old" \in lsGlobal.evidence THEN lsLocal["old"].n ELSE 0
                 new == IF "new" \in lsGlobal.evidence THEN lsLocal["new"].n ELSE 0
                 oldNext == IF "old" \in lsGlobal'.evidence THEN lsLocal["old"].n ELSE 0
                 newNext == IF "new" \in lsGlobal'.evidence THEN lsLocal["new"].n ELSE 0
      <4>1. lsGlobal.n <= old + new
        BY DEF LsStored, LsCountedOnce
      <4>2. old \in Nat /\ new \in Nat /\ oldNext \in Nat /\ newNext \in Nat
        BY <3>3
      <4>3. \/ lsGlobal'.n = lsGlobal.n + oldNext /\ old = 0 /\ newNext = new
            \/ lsGlobal'.n = lsGlobal.n + newNext /\ new = 0 /\ oldNext = old
        BY <2>2, <3>1, <3>2
      <4>4. lsGlobal'.n <= oldNext + newNext
        <5> HIDE DEF old, new, oldNext, newNext
        <5> QED  BY <1>1, <4>1, <4>2, <4>3
      <4> QED  BY <1>1, <4>4 DEF LsCountedOnce
    <3> QED  BY <1>1, <1>2, <1>3, <3>1, <3>4
  <2> QED  BY <2>1, <2>2
<1>5. LsCopyTrue'
  <2> DEFINE r == [lsProc[p] EXCEPT !.pc = "settle"]
  <2>1. /\ lsProc' = [lsProc EXCEPT ![p] = r] /\ r.id = lsProc[p].id
        /\ r.copy = lsProc[p].copy
    BY LsGoes DEF LsCount, LsPcs
  <2> HIDE DEF r
  <2>2. lsProc'[p] = r /\ \A q \in LsProcs \ {p} : lsProc'[q] = lsProc[q]
    BY <2>1 DEF LsProtocol, LsProcOK
  <2> QED  BY <1>1, <1>2, <2>1, <2>2 DEF LsStored, LsCopyTrue
<1>6. LsOldWhole' /\ LsForward
  BY <1>1, LsNothingWritten
<1> QED  BY <1>1, <1>4, <1>5, <1>6 DEF LsStored

\* A dismissal empties the global record.
LEMMA LsRetracted ==
  ASSUME LsProtocol, LsStored, NEW p \in LsProcs, LsRetract(p)
  PROVE  LsStored' /\ LsForward
<1>1. /\ UNCHANGED <<lsLegacy, lsLocal, lsCrashes>> /\ lsGlobal'.n = 0 /\ lsGlobal'.evidence = {}
      /\ lsLocal \in [LsIds -> LsCand] /\ lsProc' = [lsProc EXCEPT ![p] = LsIdle]
  BY DEF LsStored, LsRetract, LsEnd
<1>2. lsProc'[p] = LsIdle /\ \A q \in LsProcs \ {p} : lsProc'[q] = lsProc[q]
  BY <1>1 DEF LsProtocol, LsProcOK
<1>3. LsCopyTrue'
  BY <1>1, <1>2, LsValues DEF LsStored, LsCopyTrue
<1>4. LsOldWhole' /\ LsForward
  BY <1>1, LsNothingWritten
<1>5. LsCountedOnce'
  BY <1>1 DEF LsCountedOnce
<1> QED  BY <1>1, <1>3, <1>4, <1>5 DEF LsStored

\* Every step keeps the invariant and takes nothing back.
LEMMA LsStepInv == LsInv /\ [LsNext]_lsVars => LsInv' /\ LsForward
<1> SUFFICES ASSUME LsInv, [LsNext]_lsVars PROVE LsInv' /\ LsForward
  OBVIOUS
<1>1. LsProtocol /\ LsStored
  BY LsHalves
<1>2. LsProtocol'
  BY <1>1, LsProtocolStep DEF LsStored
<1>3. LsStored' /\ LsForward
  <2>1. CASE UNCHANGED lsVars
    <3>1. LsStored'
      BY <1>1, <2>1 DEF lsVars, LsStored, LsCopyTrue, LsOldWhole, LsCountedOnce
    <3> QED  BY <1>1, <2>1, <3>1, LsNothingWritten DEF lsVars
  <2>2. ASSUME NEW p \in LsProcs,
               \/ \E op \in LsOps : LsCall(p, op)
               \/ LsStep(p) \/ LsTimeout(p) \/ LsCrash(p)
        PROVE  LsStored' /\ LsForward
    <3>1. CASE \/ \E op \in LsOps : LsCall(p, op)
               \/ LsInstallRefused(p) \/ LsDrain(p) \/ LsDropLegacy(p) \/ LsSeek(p)
               \/ LsMigLock(p) \/ LsInstallDone(p) \/ LsMigUnlock(p) \/ LsTimeout(p)
               \/ LsCreate(p) \/ LsRecheck(p) \/ LsRemoveStale(p) \/ LsCrash(p)
      BY <1>1, <3>1, LsLockSteps
    <3>2. CASE LsMerge(p) \/ LsCapture(p) \/ LsDecide(p) \/ LsSettle(p)
      BY <1>1, <3>2, LsLocalSteps
    <3>3. CASE LsPromote(p)
      <4>1. \A q \in LsProcs : LsPromoting(lsProc'[q]) =>
              \/ lsProc'[q] = lsProc[q]
              \/ /\ lsProc'[q].copy = lsLocal[lsProc'[q].id]
                 /\ lsProc'[q].copy.st = "candidate"
        BY <1>1, <3>3, LsPromotes DEF LsStored
      <4>2. /\ UNCHANGED <<lsLocal, lsGlobal>>
            /\ lsLegacy' \in BOOLEAN /\ lsCrashes' \in 0..LsMaxCrashes
        BY <1>1, <3>3 DEF LsPromote, LsStored, lsStores
      <4>3. \A q \in LsProcs : LsPromoting(lsProc'[q]) =>
              \/ /\ LsPromoting(lsProc[q])
                 /\ lsProc'[q].id = lsProc[q].id /\ lsProc'[q].copy = lsProc[q].copy
              \/ /\ lsProc'[q].copy = lsLocal[lsProc'[q].id]
                 /\ lsProc'[q].copy.st = "candidate"
        BY <4>1
      <4> QED  BY <1>1, <4>2, <4>3, LsStands
    <3>4. CASE LsCount(p)
      BY <1>1, <3>4, LsCounted
    <3>5. CASE LsRetract(p)
      BY <1>1, <3>5, LsRetracted
    <3> QED  BY <2>2, <3>1, <3>2, <3>3, <3>4, <3>5 DEF LsStep
  <2> QED  BY <2>1, <2>2 DEF LsNext
<1> QED  BY <1>2, <1>3 DEF LsInv, LsTypeOK, LsProtocol, LsStored, LsCand

\* A migration is alone with the project's stores while it merges: whoever has
\* the project's lock for good is busy there.
LEMMA LsInvAlone == LsInv => LsTypeOK /\ LsMigrationAlone /\ LsCountedOnce
<1> SUFFICES ASSUME LsInv PROVE LsMigrationAlone
  BY DEF LsInv
<1>1. ASSUME NEW p \in LsProcs, NEW q \in LsProcs, lsProc[p].pc \in {"merge", "drop"}
      PROVE  lsMig = p /\ ~(lsLock["project"] = q /\ lsProc[q].pc \in {"act", "count", "settle"})
  <2>1. lsMig = p
    BY <1>1 DEF LsInv, LsLocksHeld, LsHasMig
  <2>2. ~LsBusy(lsProc[q])
    BY <1>1 DEF LsInv, LsQuiet
  <2>3. lsLock["project"] = q => LsHasProject(lsProc[q])
    BY DEF LsInv, LsLocksHeld
  <2> QED  BY <2>1, <2>2, <2>3 DEF LsBusy, LsHasProject
<1> QED  BY <1>1 DEF LsMigrationAlone

\* For any processes, counts and deaths: a migration never shares the project's
\* stores with a writer, the global record counts a candidate once however
\* often its promotion is run again, and neither a rerun of the migration nor a
\* writer with an old copy takes back an occurrence or a decision
\* (candidates.ts:113, :217, :296, :580, :603).
THEOREM StoresAreSafe == LsSpec => LsSafe
<1>1. LsInit => LsInv
  BY LsInitInv
<1>2. LsInv /\ [LsNext]_lsVars => LsInv'
  BY LsStepInv
<1>3. LsInv /\ [LsNext]_lsVars =>
        [\A i \in LsIds : /\ lsLocal'[i].n >= lsLocal[i].n
                          /\ lsLocal[i].st \in {"promoted", "dismissed"} =>
                               lsLocal'[i].st = lsLocal[i].st]_lsVars
  BY LsStepInv DEF LsForward
<1> QED  BY <1>1, <1>2, <1>3, LsInvAlone, PTL DEF LsSpec, LsSafe, LsNoRegress

-----------------------------------------------------------------------------
(* Installing and rolling back *)

\* A set of places of a sequence that is not empty has a last one.
LEMMA LastPlace ==
  ASSUME NEW n \in Nat, NEW S \in SUBSET (1..n), S # {}
  PROVE  \E i \in S : \A j \in S : j <= i
<1> DEFINE T == {m \in Nat : \E j \in S : m = n - j}
<1>1. \A j \in S : j \in Nat /\ n - j \in Nat /\ n - j \in T
  OBVIOUS
<1>2. T \in SUBSET Nat /\ T # {} /\ \A m \in T : \E j \in S : m = n - j
  BY <1>1
<1>3. PICK m \in T : \A k \in T : ~ (<<k, m>> \in OpToRel(<, Nat))
  <2> HIDE DEF T
  <2> QED  BY <1>2, NatLessThanWellFounded, WFMin
<1>4. \A k \in T : ~(k < m)
  <2> HIDE DEF T
  <2> QED  BY <1>2, <1>3 DEF OpToRel
<1>5. PICK i \in S : m = n - i
  BY <1>2
<1>6. ASSUME NEW j \in S PROVE j <= i
  <2>1. n - j \in T
    BY <1>1
  <2>2. ~(n - j < n - i)
    <3> HIDE DEF T
    <3> QED  BY <1>4, <1>5, <2>1
  <2>3. j \in Nat /\ i \in Nat
    BY <1>1
  <2> HIDE DEF T
  <2> QED  BY <2>2, <2>3
<1> QED  BY <1>6

\* At rest, and the first release in place.
LEMMA InInitInv == InInit => InInv
<1> SUFFICES ASSUME InInit PROVE InInv
  OBVIOUS
<1>1. InIdle \in InRec /\ InIdle.pc = "idle" /\ InIdle.made = FALSE
  BY InAssumption DEF InIdle, InRec, InPcs
<1>2. \A p \in InProcs : inProc[p] = InIdle
  BY DEF InInit
<1>3. inHistory = <<InFirst>> /\ inHistory \in Seq(InShas) /\ inHistory # <<>>
      /\ Len(inHistory) = 1 /\ inHistory[1] = InFirst /\ DOMAIN inHistory = {1}
  BY InAssumption DEF InInit
<1>4. InWorld
  BY <1>1, <1>3, InAssumption DEF InInit, InWorld
<1>5. InNobodyDied
  BY <1>1, <1>2, InAssumption DEF InInit, InNobodyDied
<1>6. InKept
  BY <1>3 DEF InInit, InKept, InWas
<1>7. InRecorded
  BY <1>3 DEF InInit, InRecorded
<1>8. InStopped
  BY <1>1, <1>2 DEF InInit, InStopped
<1>9. \A p \in InProcs : InOwn(p, inProc[p])
  BY <1>1, <1>2 DEF InOwn, InInside, InIdle
<1> QED  BY <1>4, <1>5, <1>6, <1>7, <1>8, <1>9 DEF InInv

\* The types, and a process at rest.
LEMMA InFacts ==
  ASSUME InInv
  PROVE  /\ inProc \in [InProcs -> InRec] /\ InIdle \in InRec /\ InIdle.pc = "idle"
         /\ InIdle.made = FALSE
         /\ \A p \in InProcs : inProc[p] \in InRec /\ inProc[p].pc \in InPcs
                               /\ inProc[p].sha \in InShas /\ inProc[p].kind \in {"install", "rollback"}
<1>1. InIdle \in InRec /\ InIdle.pc = "idle" /\ InIdle.made = FALSE
  BY InAssumption DEF InIdle, InRec, InPcs
<1>2. inProc \in [InProcs -> InRec]
  BY DEF InInv, InWorld
<1> QED  BY <1>1, <1>2 DEF InRec

\* A process that goes on to another place only.
LEMMA InGoes ==
  ASSUME InInv, NEW p \in InProcs, NEW pc \in InPcs, InGo(p, pc)
  PROVE  \E x \in InRec :
           /\ inProc' = [inProc EXCEPT ![p] = x]
           /\ x.pc = pc /\ x.kind = inProc[p].kind /\ x.sha = inProc[p].sha
           /\ x.made = inProc[p].made /\ x.stopped = inProc[p].stopped /\ x.copy = inProc[p].copy
<1> DEFINE x == [inProc[p] EXCEPT !.pc = pc]
<1>1. inProc[p] \in InRec
  BY InFacts
<1>2. inProc' = [inProc EXCEPT ![p] = x]
  BY DEF InGo
<1>3. /\ x \in InRec /\ x.pc = pc /\ x.kind = inProc[p].kind /\ x.sha = inProc[p].sha
      /\ x.made = inProc[p].made /\ x.stopped = inProc[p].stopped /\ x.copy = inProc[p].copy
  BY <1>1 DEF InRec
<1> HIDE DEF x
<1> QED  BY <1>2, <1>3

\* What a process relies on outlives a step of another one.
LEMMA InOthers ==
  ASSUME InInv, ~inTheft, NEW p \in InProcs, NEW q \in InProcs, q # p, inProc'[q] = inProc[q],
         InInside(inProc[q]) => /\ inDir' = inDir /\ (inMig = q => inMig' = q)
                                /\ inReleases \subseteq inReleases'
                                /\ UNCHANGED <<inActive, inHistory, inLessons>>
                                /\ inWriter' => inWriter \/ inMig # q,
         \A s \in InShas : InWas(s) => InWas(s)'
  PROVE  InOwn(q, inProc[q])'
<1>1. InOwn(q, inProc[q]) /\ inProc[q] \in InRec /\ inProc[q].sha \in InShas
  BY InFacts DEF InInv
<1>2. CASE ~InInside(inProc[q])
  <2>1. /\ inProc[q].made = FALSE
        /\ inProc[q].kind = "rollback" /\ inProc[q].pc # "idle" => InWas(inProc[q].sha)
    BY <1>1, <1>2 DEF InOwn, InRec
  <2>2. ~InInside(inProc'[q]) /\ inProc'[q].pc \in {"idle", "lock", "reclaim", "again"}
    BY <1>2 DEF InInside
  <2> QED  BY <1>1, <2>1, <2>2 DEF InOwn
<1>3. CASE InInside(inProc[q])
  <2>1. \A s : InWas(s)' <=> InWas(s)
    BY <1>3 DEF InWas
  <2> QED  BY <1>1, <1>3, <2>1 DEF InOwn, InInside
<1> QED  BY <1>2, <1>3

\* A process moves, and nothing of the releases and the learning state is lost.
LEMMA InWalks ==
  ASSUME InInv, NEW p \in InProcs, NEW x \in InRec, inProc' = [inProc EXCEPT ![p] = x],
         UNCHANGED <<inActive, inHistory, inLessons, inWriter, inCrashes, inTheft, inLost>>,
         inGate' \in {"passed", "failed"}, inReleases \subseteq inReleases', inReleases' \subseteq InShas,
         {inDir', inPid', inMig'} \subseteq InProcs \cup {InNone, InDead},
         inPid' # InNone => inDir' # InNone,
         inCrashes = 0 => /\ inDir' # InDead /\ inPid' # InDead
                          /\ x.pc \notin {"reclaim", "again"},
         \A q \in InProcs : q # p => (inDir = q => inDir' = q) /\ (inMig = q => inMig' = q),
         x.pc # "record", inProc[p].pc # "record",
         x.pc \in {"build", "service", "migration"} => x.kind = "install",
         inLegacy' \in {"loaded", "stopped", "gone"},
         inLegacy' = "stopped" => InStops(x) \/ (inLegacy = "stopped" /\ ~InStops(inProc[p])),
         ~inTheft => InOwn(p, x)'
  PROVE  InInv'
<1>1. /\ inProc' \in [InProcs -> InRec] /\ inProc'[p] = x
      /\ \A q \in InProcs : q # p => inProc'[q] = inProc[q]
  BY InFacts
<1>2. InWorld'
  BY <1>1 DEF InInv, InWorld
<1>3. InNobodyDied'
  BY <1>1 DEF InInv, InNobodyDied
<1>4. \A s : InWas(s)' <=> InWas(s)
  BY DEF InWas
<1>5. InKept'
  BY <1>4 DEF InInv, InKept
<1>6. InRecorded'
  BY <1>1 DEF InInv, InRecorded
<1>7. InStopped'
  <2>1. \A q \in InProcs : inProc'[q].pc \in {"build", "service", "migration"}
                             => inProc'[q].kind = "install"
    BY <1>1 DEF InInv, InStopped
  <2>2. ASSUME inCrashes' = 0, inLegacy' = "stopped"
        PROVE  \E q \in InProcs : InStops(inProc'[q])
    <3>1. CASE InStops(x)
      BY <1>1, <3>1
    <3>2. CASE inLegacy = "stopped" /\ ~InStops(inProc[p])
      <4>1. PICK q \in InProcs : InStops(inProc[q])
        BY <2>2, <3>2 DEF InInv, InStopped
      <4> QED  BY <1>1, <3>2, <4>1
    <3> QED  BY <2>2, <3>1, <3>2
  <2>3. \A q \in InProcs : InStops(inProc[q])' <=> InStops(inProc'[q])
    BY DEF InStops
  <2> QED  BY <2>1, <2>2, <2>3 DEF InStopped
<1>8. ASSUME ~inTheft', NEW q \in InProcs PROVE InOwn(q, inProc[q])'
  <2>1. CASE q = p
    BY <1>1, <1>8, <2>1
  <2>2. CASE q # p
    <3>1. InInside(inProc[q]) => inDir = q
      BY <1>8 DEF InInv, InOwn
    <3> QED  BY <1>1, <1>4, <1>8, <2>2, <3>1, InOthers
  <2> QED  BY <2>1, <2>2
<1> QED  BY <1>2, <1>3, <1>5, <1>6, <1>7, <1>8 DEF InInv

\* An install and a rollback go for the lock, the latter with a target of the history.
LEMMA InBegins ==
  ASSUME InInv, NEW p \in InProcs, InRollback(p) \/ \E sha \in InShas : InInstall(p, sha)
  PROVE  InInv'
<1>1. ASSUME NEW x \in InRec, x.pc = "lock", x.made = FALSE,
             x.kind = "rollback" => InWas(x.sha),
             inProc[p].pc = "idle", inProc' = [inProc EXCEPT ![p] = x],
             UNCHANGED <<inLocks, inMig, inReleases, inState, inLegacy, inLearning, inPast>>
      PROVE  InInv'
  <2>2. InOwn(p, x)'
    BY <1>1 DEF InOwn, InInside, InWas, inState
  <2>3. ~InStops(inProc[p])
    BY <1>1 DEF InStops
  <2> QED  BY <1>1, <2>2, <2>3, InWalks
           DEF inLocks, inState, inLearning, inPast, InInv, InWorld, InNobodyDied
<1>2. ASSUME NEW sha \in InShas, InInstall(p, sha) PROVE InInv'
  <2> DEFINE x == [InIdle EXCEPT !.pc = "lock", !.sha = sha]
  <2>1. x \in InRec /\ x.pc = "lock" /\ x.kind = "install" /\ x.made = FALSE
    BY InFacts DEF InRec, InPcs, InIdle
  <2>2. inProc' = [inProc EXCEPT ![p] = x] /\ inProc[p].pc = "idle"
        /\ UNCHANGED <<inLocks, inMig, inReleases, inState, inLegacy, inLearning, inPast>>
    BY <1>2 DEF InInstall
  <2> HIDE DEF x
  <2> QED  BY <1>1, <2>1, <2>2
<1>3. CASE InRollback(p)
  <2> DEFINE others == {i \in DOMAIN inHistory : inHistory[i] # inActive}
             last == CHOOSE i \in others : \A j \in others : j <= i
  <2>1. others # {} /\ inProc[p].pc = "idle"
        /\ inProc' = [inProc EXCEPT ![p] = [InIdle EXCEPT !.pc = "lock", !.kind = "rollback",
                                                         !.sha = inHistory[last]]]
        /\ UNCHANGED <<inLocks, inMig, inReleases, inState, inLegacy, inLearning, inPast>>
    BY <1>3 DEF InRollback
  <2>2. Len(inHistory) \in Nat /\ others \in SUBSET (1..Len(inHistory)) /\ inHistory \in Seq(InShas)
        /\ DOMAIN inHistory = 1..Len(inHistory)
    BY DEF InInv, InWorld
  <2>3. \E i \in others : \A j \in others : j <= i
    <3> HIDE DEF others
    <3> QED  BY <2>1, <2>2, LastPlace
  <2>4. last \in others
    BY <2>3
  <2>5. PICK l \in 1..Len(inHistory) : l = last
    <3> HIDE DEF last, others
    <3> QED  BY <2>2, <2>4
  <2>6. inHistory[l] \in InShas /\ InWas(inHistory[l])
    <3> HIDE DEF last, others
    <3> QED  BY <2>2 DEF InWas
  <2>7. PICK sha \in InShas : sha = inHistory[last] /\ InWas(sha)
    <3> HIDE DEF last, others
    <3> QED  BY <2>5, <2>6
  <2> DEFINE x == [InIdle EXCEPT !.pc = "lock", !.kind = "rollback", !.sha = sha]
  <2>8. x \in InRec /\ x.pc = "lock" /\ x.sha = sha /\ x.made = FALSE
    <3> HIDE DEF last, others
    <3> QED  BY InFacts DEF InRec, InPcs, InIdle
  <2>9. inProc' = [inProc EXCEPT ![p] = x]
    <3> HIDE DEF last, others
    <3> QED  BY <2>1, <2>7
  <2> HIDE DEF last, others, x
  <2> QED  BY <1>1, <2>1, <2>7, <2>8, <2>9
<1> QED  BY <1>2, <1>3

\* The lock directory is made, and the pid written in it.
LEMMA InLocks ==
  ASSUME InInv, NEW p \in InProcs, InMkdir(p) \/ InWritePid(p) PROVE InInv'
<1>0. (inCrashes = 0 => inDir # InDead /\ inPid # InDead) /\ inProc[p] \in InRec
      /\ (~inTheft => InOwn(p, inProc[p]))
  BY InFacts DEF InInv, InNobodyDied
<1>1. CASE InMkdir(p)
  <2>1. PICK x \in InRec :
          /\ inProc' = [inProc EXCEPT ![p] = x] /\ x.pc = "pid"
          /\ x.kind = inProc[p].kind /\ x.sha = inProc[p].sha /\ x.made = inProc[p].made
    BY <1>1, InGoes DEF InMkdir, InPcs
  <2>2. /\ inProc[p].pc \in {"lock", "again"} /\ inDir = InNone /\ inDir' = p
        /\ UNCHANGED <<inPid, inMig, inReleases, inState, inLegacy, inLearning, inPast>>
    BY <1>1 DEF InMkdir
  <2>3. ~InInside(inProc[p]) /\ ~InStops(inProc[p])
    BY <2>2 DEF InInside, InStops
  <2>4. ~inTheft => InOwn(p, x)'
    <3>1. ~inTheft => inProc[p].made # TRUE /\ (inProc[p].kind = "rollback" => InWas(inProc[p].sha))
      BY <1>0, <2>2, <2>3 DEF InOwn
    <3>2. inHistory' = inHistory
      BY <2>2 DEF inState
    <3>3. x.made \in BOOLEAN
      BY <2>1 DEF InRec
    <3> QED  BY <2>1, <2>2, <3>1, <3>2, <3>3 DEF InOwn, InWas
  <2>5. \A q \in InProcs : inDir # q
    BY <2>2, InAssumption
  <2>6. /\ {inDir', inPid', inMig'} \subseteq InProcs \cup {InNone, InDead}
        /\ inPid' # InNone => inDir' # InNone
        /\ inGate' \in {"passed", "failed"} /\ inReleases' \subseteq InShas
        /\ inLegacy' \in {"loaded", "stopped", "gone"} /\ inDir' # InDead
    BY <2>2, InAssumption DEF InInv, InWorld, inState
  <2> QED  BY <1>0, <2>1, <2>2, <2>3, <2>4, <2>5, <2>6, InWalks
           DEF inState, inLearning, inPast
<1>2. CASE InWritePid(p)
  <2> DEFINE pc == IF inProc[p].kind = "install" THEN "build" ELSE "stage"
  <2>0. pc \in InPcs /\ InGo(p, pc)
    BY <1>2 DEF InPcs, InWritePid
  <2>1. PICK x \in InRec :
          /\ inProc' = [inProc EXCEPT ![p] = x] /\ x.pc = pc
          /\ x.kind = inProc[p].kind /\ x.sha = inProc[p].sha /\ x.made = inProc[p].made
    <3> HIDE DEF pc
    <3> QED  BY <2>0, InGoes
  <2>2. /\ inProc[p].pc = "pid" /\ inPid' = IF inDir = InNone THEN inPid ELSE p
        /\ UNCHANGED <<inDir, inMig, inReleases, inState, inLegacy, inLearning, inPast>>
    BY <1>2 DEF InWritePid
  <2>3. InInside(inProc[p]) /\ ~InStops(inProc[p])
    BY <2>2 DEF InInside, InStops
  <2>4. ~inTheft => InOwn(p, x)'
    <3>2. InInside(x) /\ x.pc \in {"build", "stage"} /\ (x.kind = "install" => x.pc = "build")
      BY <2>1 DEF InInside
    <3>3. /\ inHistory' = inHistory /\ inDir' = inDir /\ inActive' = inActive
      BY <2>2 DEF inState
    <3>4. ~inTheft => /\ inDir = p /\ (inProc[p].kind = "rollback" => InWas(inProc[p].sha))
                      /\ inProc[p].made => ~InWas(inProc[p].sha) /\ inProc[p].sha # inActive
      BY <1>0, <2>2, <2>3 DEF InOwn
    <3> HIDE DEF pc
    <3> QED  BY <2>1, <3>2, <3>3, <3>4 DEF InOwn, InWas
  <2>5. /\ {inDir', inPid', inMig'} \subseteq InProcs \cup {InNone, InDead}
        /\ inPid' # InNone => inDir' # InNone
        /\ inGate' \in {"passed", "failed"} /\ inReleases' \subseteq InShas
        /\ inLegacy' \in {"loaded", "stopped", "gone"}
        /\ inPid' # InDead \/ inPid' = inPid
    BY <2>2, InAssumption DEF InInv, InWorld, inState
  <2>6. x.pc \in {"build", "service", "migration"} => x.kind = "install"
    BY <2>1
  <2>7. x.pc \notin {"record", "reclaim", "again"}
    BY <2>1
  <2> HIDE DEF pc
  <2> QED  BY <1>0, <2>1, <2>2, <2>3, <2>4, <2>5, <2>6, <2>7, InWalks
           DEF inState, inLearning, inPast
<1> QED  BY <1>1, <1>2

\* A stale lock is seen, and who is refused rests.
LEMMA InStale ==
  ASSUME InInv, NEW p \in InProcs, InSeeDead(p) \/ InRefused(p) PROVE InInv'
<1>0. /\ inCrashes = 0 => inDir # InDead /\ inPid # InDead
      /\ UNCHANGED <<inLocks, inMig, inReleases, inState, inLegacy, inLearning, inPast>>
      /\ inProc[p].pc \in {"lock", "again"}
  BY DEF InInv, InNobodyDied, InSeeDead, InRefused
<1>1. ~InInside(inProc[p]) /\ ~InStops(inProc[p])
  BY <1>0 DEF InInside, InStops
<1>2. /\ {inDir', inPid', inMig'} \subseteq InProcs \cup {InNone, InDead}
      /\ inPid' # InNone => inDir' # InNone
      /\ inGate' \in {"passed", "failed"} /\ inReleases' \subseteq InShas
      /\ inLegacy' \in {"loaded", "stopped", "gone"}
  BY <1>0 DEF InInv, InWorld, inState, inLocks
<1>3. PICK x \in InRec : /\ inProc' = [inProc EXCEPT ![p] = x]
                         /\ x.pc \in {"idle", "reclaim"}
                         /\ x.pc = "reclaim" => inPid = InDead
                         /\ x.made = FALSE \/ x.made = inProc[p].made
                         /\ x.pc = "idle" \/ (x.kind = inProc[p].kind /\ x.sha = inProc[p].sha)
  <2>1. CASE InSeeDead(p)
    <3>1. InGo(p, "reclaim") /\ inPid = InDead /\ "reclaim" \in InPcs
      BY <2>1 DEF InSeeDead, InPcs
    <3> QED  BY <3>1, InGoes
  <2>2. CASE InRefused(p)
    BY <2>2, InFacts DEF InRefused
  <2> QED  BY <2>1, <2>2
<1>4. ~inTheft => InOwn(p, x)'
  <2>1. ~inTheft => inProc[p].made # TRUE /\ (inProc[p].kind = "rollback" => InWas(inProc[p].sha))
    BY <1>0, <1>1 DEF InInv, InOwn
  <2>2. x.made \in BOOLEAN /\ inProc[p].made \in BOOLEAN
    BY InFacts DEF InRec
  <2>3. inHistory' = inHistory
    BY <1>0 DEF inState
  <2> QED  BY <1>3, <2>1, <2>2, <2>3 DEF InOwn, InInside, InWas
<1> QED  BY <1>0, <1>1, <1>2, <1>3, <1>4, InWalks DEF inState, inLearning, inPast, inLocks

\* A process with the lock goes on inside its transaction.
LEMMA InInner ==
  ASSUME InInv, NEW p \in InProcs, NEW x \in InRec, inProc' = [inProc EXCEPT ![p] = x],
         x.kind = inProc[p].kind, x.sha = inProc[p].sha,
         InInside(inProc[p]), InInside(x), inProc[p].pc # "record", x.pc # "record",
         UNCHANGED <<inLocks, inActive, inHistory, inLearning, inPast>>,
         inGate' \in {"passed", "failed"}, inReleases \subseteq inReleases', inReleases' \subseteq InShas,
         inMig' \in InProcs \cup {InNone, InDead},
         \A q \in InProcs : q # p => (inMig = q => inMig' = q),
         x.pc \in {"build", "service", "migration"} => x.kind = "install",
         inLegacy' \in {"loaded", "stopped", "gone"},
         inLegacy' = "stopped" => InStops(x) \/ (inLegacy = "stopped" /\ ~InStops(inProc[p])),
         x.made = inProc[p].made \/ x.made = (inProc[p].sha \notin inReleases),
         ~inTheft /\ x.kind = "install" =>
           /\ x.pc \in {"service", "migration", "stage", "activate"} => x.sha \in inReleases'
           /\ x.pc \in {"stage", "activate"} => inMig' = p
           /\ x.pc = "activate" => x.copy = inLessons /\ ~inWriter
  PROVE  InInv'
<1>1. ~inTheft => InOwn(p, x)'
  <2>1. ASSUME ~inTheft
        PROVE  /\ inDir = p /\ (inProc[p].kind = "rollback" => InWas(inProc[p].sha))
               /\ inProc[p].made => ~InWas(inProc[p].sha) /\ inProc[p].sha # inActive
               /\ inActive \in inReleases /\ (\A s \in InShas : InWas(s) => s \in inReleases)
    BY <2>1 DEF InInv, InOwn, InKept, InInside
  <2>2. x.sha \in InShas
    BY DEF InRec
  <2>3. ~inTheft /\ x.made => ~InWas(x.sha) /\ x.sha # inActive
    BY <2>1, <2>2
  <2>4. /\ inHistory' = inHistory /\ inDir' = inDir /\ inActive' = inActive /\ inLessons' = inLessons
        /\ inWriter' = inWriter
    BY DEF inLocks, inLearning
  <2> QED  BY <2>1, <2>3, <2>4 DEF InOwn, InWas
<1>2. x.pc \notin {"reclaim", "again"}
  BY DEF InInside
<1>3. /\ {inDir', inPid', inMig'} \subseteq InProcs \cup {InNone, InDead}
      /\ inPid' # InNone => inDir' # InNone
      /\ inCrashes = 0 => inDir' # InDead /\ inPid' # InDead
  BY DEF InInv, InWorld, InNobodyDied, inLocks
<1> QED  BY <1>1, <1>2, <1>3, InWalks DEF inLocks, inLearning, inPast

\* The build, the legacy service, the migration lock, the staging, the check
\* afterwards, and a failure.
LEMMA InWorks ==
  ASSUME InInv, NEW p \in InProcs,
         \/ InBuild(p) \/ InStopLegacy(p) \/ InTakeMigration(p) \/ InStage(p) \/ InVerify(p)
         \/ InFails(p)
  PROVE  InInv'
<1>0. /\ inProc[p] \in InRec /\ inProc[p].sha \in InShas /\ (~inTheft => InOwn(p, inProc[p]))
      /\ inGate \in {"passed", "failed"} /\ inReleases \subseteq InShas
      /\ inMig \in InProcs \cup {InNone, InDead} /\ inLegacy \in {"loaded", "stopped", "gone"}
      /\ inLessons \in Nat /\ inProc \in [InProcs -> InRec]
  BY InFacts DEF InInv, InWorld
<1>1. CASE InBuild(p)
  <2> DEFINE x0 == [inProc[p] EXCEPT !.pc = "service", !.made = inProc[p].sha \notin inReleases]
  <2>0. /\ inProc[p].pc = "build" /\ inReleases' = inReleases \cup {inProc[p].sha}
        /\ inProc' = [inProc EXCEPT ![p] = x0]
        /\ UNCHANGED <<inLocks, inMig, inState, inLegacy, inLearning, inPast>>
    BY <1>1 DEF InBuild
  <2>1. x0 \in InRec /\ x0.pc = "service" /\ x0.kind = inProc[p].kind /\ x0.sha = inProc[p].sha
        /\ x0.made = (inProc[p].sha \notin inReleases)
    BY <1>0 DEF InRec, InPcs
  <2>2. PICK x \in InRec :
          /\ inProc' = [inProc EXCEPT ![p] = x] /\ x.pc = "service" /\ x.kind = inProc[p].kind
          /\ x.sha = inProc[p].sha /\ x.made = (inProc[p].sha \notin inReleases)
    <3> HIDE DEF x0
    <3> QED  BY <2>0, <2>1
  <2>3. InInside(inProc[p]) /\ InInside(x) /\ ~InStops(inProc[p])
    BY <2>0, <2>2 DEF InInside, InStops
  <2>4. x.kind = "install"
    BY <2>0, <2>2 DEF InInv, InStopped
  <2> QED  BY <1>0, <2>0, <2>2, <2>3, <2>4, InInner DEF inState
<1>2. CASE InStopLegacy(p)
  <2> DEFINE x0 == [inProc[p] EXCEPT !.pc = "migration", !.stopped = inLegacy = "loaded"]
  <2>0. /\ inProc[p].pc = "service" /\ inLegacy' = IF inLegacy = "loaded" THEN "stopped" ELSE inLegacy
        /\ inProc' = [inProc EXCEPT ![p] = x0]
        /\ UNCHANGED <<inLocks, inMig, inReleases, inState, inLearning, inPast>>
    BY <1>2 DEF InStopLegacy
  <2>1. x0 \in InRec /\ x0.pc = "migration" /\ x0.kind = inProc[p].kind /\ x0.sha = inProc[p].sha
        /\ x0.made = inProc[p].made /\ x0.stopped = (inLegacy = "loaded")
    BY <1>0 DEF InRec, InPcs
  <2>2. PICK x \in InRec :
          /\ inProc' = [inProc EXCEPT ![p] = x] /\ x.pc = "migration" /\ x.kind = inProc[p].kind
          /\ x.sha = inProc[p].sha /\ x.made = inProc[p].made /\ x.stopped = (inLegacy = "loaded")
    <3> HIDE DEF x0
    <3> QED  BY <2>0, <2>1
  <2>3. InInside(inProc[p]) /\ InInside(x) /\ ~InStops(inProc[p])
    BY <2>0, <2>2 DEF InInside, InStops
  <2>4. x.kind = "install"
    BY <2>0, <2>2 DEF InInv, InStopped
  <2>5. inLegacy' = "stopped" => InStops(x) \/ (inLegacy = "stopped" /\ ~InStops(inProc[p]))
    BY <2>0, <2>2, <2>3, <2>4 DEF InStops
  <2>6. ~inTheft => x.sha \in inReleases'
    BY <1>0, <2>0, <2>2, <2>4 DEF InOwn
  <2> QED  BY <1>0, <2>0, <2>2, <2>3, <2>4, <2>5, <2>6, InInner DEF inState
<1>3. CASE InTakeMigration(p)
  <2>0. /\ inProc[p].pc = "migration" /\ inMig \in {InNone, InDead} /\ inMig' = p
        /\ InGo(p, "stage") /\ "stage" \in InPcs
        /\ UNCHANGED <<inLocks, inReleases, inState, inLegacy, inLearning, inPast>>
    BY <1>3 DEF InTakeMigration, InPcs
  <2>2. PICK x \in InRec :
          /\ inProc' = [inProc EXCEPT ![p] = x] /\ x.pc = "stage" /\ x.kind = inProc[p].kind
          /\ x.sha = inProc[p].sha /\ x.made = inProc[p].made /\ x.stopped = inProc[p].stopped
    BY <2>0, InGoes
  <2>3. InInside(inProc[p]) /\ InInside(x) /\ (InStops(inProc[p]) => InStops(x))
    BY <2>0, <2>2 DEF InInside, InStops
  <2>4. \A q \in InProcs : inMig # q
    BY <2>0, InAssumption
  <2>6. ~inTheft /\ x.kind = "install" => x.sha \in inReleases'
    BY <1>0, <2>0, <2>2 DEF InOwn
  <2> QED  BY <1>0, <2>0, <2>2, <2>3, <2>4, <2>6, InInner DEF inState
<1>4. CASE InStage(p)
  <2> DEFINE x0 == [inProc[p] EXCEPT !.pc = "activate", !.copy = inLessons]
  <2>0. /\ inProc[p].pc = "stage" /\ ~inWriter
        /\ inProc' = [inProc EXCEPT ![p] = x0]
        /\ UNCHANGED <<inLocks, inMig, inReleases, inState, inLegacy, inLearning, inPast>>
    BY <1>4 DEF InStage
  <2>1. x0 \in InRec /\ x0.pc = "activate" /\ x0.kind = inProc[p].kind /\ x0.sha = inProc[p].sha
        /\ x0.made = inProc[p].made /\ x0.stopped = inProc[p].stopped /\ x0.copy = inLessons
    BY <1>0 DEF InRec, InPcs
  <2>2. PICK x \in InRec :
          /\ inProc' = [inProc EXCEPT ![p] = x] /\ x.pc = "activate" /\ x.kind = inProc[p].kind
          /\ x.sha = inProc[p].sha /\ x.made = inProc[p].made /\ x.stopped = inProc[p].stopped
          /\ x.copy = inLessons
    <3> HIDE DEF x0
    <3> QED  BY <2>0, <2>1
  <2>3. InInside(inProc[p]) /\ InInside(x) /\ (InStops(inProc[p]) => InStops(x))
    BY <2>0, <2>2 DEF InInside, InStops
  <2>6. ~inTheft /\ x.kind = "install" => x.sha \in inReleases' /\ inMig' = p
    BY <1>0, <2>0, <2>2 DEF InOwn
  <2> QED  BY <1>0, <2>0, <2>2, <2>3, <2>6, InInner DEF inState
<1>5. CASE InVerify(p)
  <2>0. /\ inProc[p].pc = "verify" /\ inGate' \in {"passed", "failed"}
        /\ InGo(p, "cleanup") /\ "cleanup" \in InPcs
        /\ UNCHANGED <<inLocks, inMig, inReleases, inActive, inHistory, inLegacy, inLearning, inPast>>
    BY <1>0, <1>5 DEF InVerify, InPcs
  <2>2. PICK x \in InRec :
          /\ inProc' = [inProc EXCEPT ![p] = x] /\ x.pc = "cleanup" /\ x.kind = inProc[p].kind
          /\ x.sha = inProc[p].sha /\ x.made = inProc[p].made
    BY <2>0, InGoes
  <2>3. InInside(inProc[p]) /\ InInside(x) /\ ~InStops(inProc[p])
    BY <2>0, <2>2 DEF InInside, InStops
  <2> QED  BY <1>0, <2>0, <2>2, <2>3, InInner
<1>6. CASE InFails(p)
  <2>0. /\ inProc[p].pc \in {"build", "service", "migration", "stage", "activate"}
        /\ InGo(p, "trap") /\ "trap" \in InPcs
        /\ UNCHANGED <<inLocks, inMig, inReleases, inState, inLegacy, inLearning, inPast>>
    BY <1>6 DEF InFails, InPcs
  <2>2. PICK x \in InRec :
          /\ inProc' = [inProc EXCEPT ![p] = x] /\ x.pc = "trap" /\ x.kind = inProc[p].kind
          /\ x.sha = inProc[p].sha /\ x.made = inProc[p].made /\ x.stopped = inProc[p].stopped
    BY <2>0, InGoes
  <2>3. InInside(inProc[p]) /\ InInside(x) /\ (InStops(inProc[p]) => InStops(x))
    BY <2>0, <2>2 DEF InInside, InStops
  <2> QED  BY <1>0, <2>0, <2>2, <2>3, InInner DEF inState
<1> QED  BY <1>1, <1>2, <1>3, <1>4, <1>5, <1>6

\* The activation, and the line in the history.
LEMMA InSwitches ==
  ASSUME InInv, NEW p \in InProcs, InActivate(p) \/ InRecord(p) PROVE InInv'
<1>0. /\ inProc[p] \in InRec /\ inProc[p].sha \in InShas /\ (~inTheft => InOwn(p, inProc[p]))
      /\ inProc[p].copy \in Nat /\ inProc[p].kind \in {"install", "rollback"}
      /\ inProc[p].made \in BOOLEAN /\ inProc \in [InProcs -> InRec]
  BY InFacts DEF InInv, InRec
<1>1. /\ inProc[p].pc \in {"activate", "record"} /\ InInside(inProc[p])
      /\ UNCHANGED <<inDir, inPid, inReleases, inWriter, inCrashes, inTheft>>
  BY DEF InActivate, InRecord, InInside, inLocks, inLearning, inPast
<1>2. \A q \in InProcs : q # p /\ ~inTheft => ~InInside(inProc[q])
  BY <1>0, <1>1 DEF InInv, InOwn
<1>3. CASE InActivate(p)
  <2> DEFINE x0 == [inProc[p] EXCEPT !.pc = "record", !.made = FALSE, !.stopped = FALSE, !.copy = 0]
  <2>0. /\ inProc[p].pc = "activate" /\ inProc' = [inProc EXCEPT ![p] = x0]
        /\ inActive' = inProc[p].sha /\ inGate' = "passed" /\ inLessons' = inProc[p].copy
        /\ inLost' = IF inProc[p].copy < inLessons THEN inLost \cup {inProc[p].kind} ELSE inLost
        /\ inLegacy' = IF inProc[p].kind = "install" /\ inLegacy = "stopped" THEN "gone" ELSE inLegacy
        /\ UNCHANGED <<inMig, inHistory>>
    BY <1>3 DEF InActivate
  <2>1. x0 \in InRec /\ x0.pc = "record" /\ x0.kind = inProc[p].kind /\ x0.sha = inProc[p].sha
        /\ x0.made = FALSE
    BY <1>0 DEF InRec, InPcs
  <2>2. PICK x \in InRec :
          /\ inProc' = [inProc EXCEPT ![p] = x] /\ x.pc = "record" /\ x.kind = inProc[p].kind
          /\ x.sha = inProc[p].sha /\ x.made = FALSE
    <3> HIDE DEF x0
    <3> QED  BY <2>0, <2>1
  <2> HIDE DEF x0
  <2>3. /\ inProc' \in [InProcs -> InRec] /\ inProc'[p] = x
        /\ \A q \in InProcs : q # p => inProc'[q] = inProc[q]
    BY <1>0, <2>2
  <2>4. InWorld'
    BY <1>0, <1>1, <2>0, <2>3 DEF InInv, InWorld
  <2>5. InNobodyDied'
    BY <1>1, <2>0, <2>2, <2>3 DEF InInv, InNobodyDied
  <2>6. \A s : InWas(s)' <=> InWas(s)
    BY <2>0 DEF InWas
  <2>7. InKept'
    <3>1. ASSUME ~inTheft PROVE inProc[p].sha \in inReleases
      <4>1. CASE inProc[p].kind = "install"
        BY <1>0, <2>0, <3>1, <4>1 DEF InOwn
      <4>2. CASE inProc[p].kind = "rollback"
        BY <1>0, <2>0, <3>1, <4>2 DEF InOwn, InInv, InKept
      <4> QED  BY <1>0, <4>1, <4>2
    <3>2. ASSUME ~inTheft PROVE "install" \notin inLost'
      <4>1. CASE inProc[p].kind = "install"
        <5>1. inProc[p].copy = inLessons
          BY <1>0, <2>0, <3>2, <4>1 DEF InOwn
        <5> QED  BY <1>0, <2>0, <3>2, <5>1 DEF InInv, InKept
      <4>2. CASE inProc[p].kind = "rollback"
        BY <2>0, <3>2, <4>2 DEF InInv, InKept
      <4> QED  BY <1>0, <4>1, <4>2
    <3> QED  BY <1>1, <2>0, <2>6, <3>1, <3>2 DEF InInv, InKept
  <2>8. InRecorded'
    BY <2>2, <2>3 DEF InRecorded
  <2>9. InStopped'
    <3>1. \A q \in InProcs : inProc'[q].pc \in {"build", "service", "migration"}
                               => inProc'[q].kind = "install"
      BY <2>2, <2>3 DEF InInv, InStopped
    <3>2. ASSUME inCrashes' = 0, inLegacy' = "stopped"
          PROVE  \E q \in InProcs : InStops(inProc'[q])
      <4>1. inLegacy = "stopped" /\ ~InStops(inProc[p])
        BY <2>0, <3>2 DEF InStops
      <4>2. PICK q \in InProcs : InStops(inProc[q])
        BY <1>1, <3>2, <4>1 DEF InInv, InStopped
      <4> QED  BY <2>3, <4>1, <4>2
    <3>3. \A q \in InProcs : InStops(inProc[q])' <=> InStops(inProc'[q])
      BY DEF InStops
    <3> QED  BY <3>1, <3>2, <3>3 DEF InStopped
  <2>10. ASSUME ~inTheft', NEW q \in InProcs PROVE InOwn(q, inProc[q])'
    <3>0. ~inTheft
      BY <1>1, <2>10
    <3>1. CASE q = p
      <4>1. inDir = p /\ (inProc[p].kind = "rollback" => InWas(inProc[p].sha))
        BY <1>0, <1>1, <3>0 DEF InOwn
      <4> QED  BY <1>1, <2>0, <2>2, <2>3, <2>6, <3>1, <4>1 DEF InOwn
    <3>2. CASE q # p
      BY <1>2, <2>3, <2>6, <3>0, <3>2, InOthers
    <3> QED  BY <3>1, <3>2
  <2> QED  BY <2>4, <2>5, <2>7, <2>8, <2>9, <2>10 DEF InInv
<1>4. CASE InRecord(p)
  <2>0. /\ inProc[p].pc = "record" /\ InGo(p, "verify") /\ "verify" \in InPcs
        /\ inMig' = IF inProc[p].kind = "install" THEN InNone ELSE inMig
        /\ inHistory' = Append(inHistory, inProc[p].sha)
        /\ UNCHANGED <<inActive, inGate, inLegacy, inLessons, inLost>>
    BY <1>4 DEF InRecord, inLearning, inPast, InPcs
  <2>2. PICK x \in InRec :
          /\ inProc' = [inProc EXCEPT ![p] = x] /\ x.pc = "verify" /\ x.kind = inProc[p].kind
          /\ x.sha = inProc[p].sha /\ x.made = inProc[p].made
    BY <2>0, InGoes
  <2>3. /\ inProc' \in [InProcs -> InRec] /\ inProc'[p] = x
        /\ \A q \in InProcs : q # p => inProc'[q] = inProc[q]
    BY <1>0, <2>2
  <2>a. inHistory \in Seq(InShas)
    BY DEF InInv, InWorld
  <2>b. /\ inHistory' \in Seq(InShas) /\ inHistory' # <<>> /\ Len(inHistory') = Len(inHistory) + 1
        /\ inHistory'[Len(inHistory')] = inProc[p].sha
        /\ \A i \in 1..Len(inHistory) : inHistory'[i] = inHistory[i]
        /\ DOMAIN inHistory' = 1..Len(inHistory')
    BY <1>0, <2>0, <2>a
  <2>4. InWorld'
    BY <1>0, <1>1, <2>0, <2>3, <2>b DEF InInv, InWorld
  <2>5. InNobodyDied'
    BY <1>1, <2>0, <2>2, <2>3 DEF InInv, InNobodyDied
  <2>6. \A s : InWas(s)' <=> (InWas(s) \/ s = inProc[p].sha)
    <3>1. /\ Len(inHistory) \in Nat /\ DOMAIN inHistory = 1..Len(inHistory)
          /\ Len(inHistory') \in 1..Len(inHistory')
      BY <2>a, <2>b
    <3>2. \A i \in 1..Len(inHistory') : i \in 1..Len(inHistory) \/ i = Len(inHistory')
      BY <2>b, <3>1
    <3>3. \A i \in 1..Len(inHistory) : i \in 1..Len(inHistory')
      BY <2>b, <3>1
    <3> QED  BY <2>b, <3>1, <3>2, <3>3 DEF InWas
  <2>c. ~inTheft => inProc[p].sha = inActive
    BY <1>0, <2>0 DEF InOwn
  <2>7. InKept'
    BY <1>1, <2>0, <2>6, <2>c DEF InInv, InKept
  <2>8. InRecorded'
    BY <1>1, <2>0, <2>b, <2>c DEF InInv, InNobodyDied, InRecorded
  <2>9. InStopped'
    <3>1. \A q \in InProcs : inProc'[q].pc \in {"build", "service", "migration"}
                               => inProc'[q].kind = "install"
      BY <2>2, <2>3 DEF InInv, InStopped
    <3>2. ASSUME inCrashes' = 0, inLegacy' = "stopped"
          PROVE  \E q \in InProcs : InStops(inProc'[q])
      <4>1. inLegacy = "stopped" /\ ~InStops(inProc[p])
        BY <2>0, <3>2 DEF InStops
      <4>2. PICK q \in InProcs : InStops(inProc[q])
        BY <1>1, <3>2, <4>1 DEF InInv, InStopped
      <4> QED  BY <2>3, <4>1, <4>2
    <3>3. \A q \in InProcs : InStops(inProc[q])' <=> InStops(inProc'[q])
      BY DEF InStops
    <3> QED  BY <3>1, <3>2, <3>3 DEF InStopped
  <2>10. ASSUME ~inTheft', NEW q \in InProcs PROVE InOwn(q, inProc[q])'
    <3>0. ~inTheft
      BY <1>1, <2>10
    <3>1. CASE q = p
      <4>1. inDir' = p /\ ~x.made /\ x.pc = "verify"
        BY <1>0, <1>1, <2>2, <2>c, <3>0 DEF InOwn
      <4>2. InWas(x.sha)'
        BY <2>2, <2>6
      <4> QED  BY <2>2, <2>3, <3>1, <4>1, <4>2 DEF InOwn, InInside
    <3>2. CASE q # p
      BY <1>2, <2>3, <2>6, <3>0, <3>2, InOthers
    <3> QED  BY <3>1, <3>2
  <2> QED  BY <2>4, <2>5, <2>7, <2>8, <2>9, <2>10 DEF InInv
<1> QED  BY <1>3, <1>4

\* The lock is taken away, by who found it stale and by who is through.
LEMMA InFrees ==
  ASSUME InInv, NEW p \in InProcs, InReclaim(p) \/ InUnlock(p) PROVE InInv'
<1>0. /\ inProc[p] \in InRec /\ (~inTheft => InOwn(p, inProc[p]))
      /\ inProc[p].made \in BOOLEAN /\ inProc \in [InProcs -> InRec]
  BY InFacts DEF InInv, InRec
<1>1. /\ inDir' = InNone /\ inPid' = InNone /\ inProc[p].pc \in {"reclaim", "cleanup"}
      /\ UNCHANGED <<inMig, inReleases, inActive, inGate, inHistory, inLegacy, inLessons, inWriter,
                     inCrashes, inLost>>
      /\ inTheft' \in BOOLEAN /\ (~inTheft' => ~inTheft)
  BY DEF InReclaim, InUnlock, inState, inLearning, InInv, InWorld
<1>2. PICK x \in InRec :
        /\ inProc' = [inProc EXCEPT ![p] = x] /\ x.pc \in {"idle", "again"}
        /\ x.pc = "again" => inProc[p].pc = "reclaim" /\ x.kind = inProc[p].kind
                             /\ x.sha = inProc[p].sha
        /\ x.made => inProc[p].made
        /\ x.pc = "idle" => ~x.made /\ inProc[p].pc = "cleanup"
  <2>1. CASE InReclaim(p)
    <3>1. InGo(p, "again") /\ "again" \in InPcs /\ inProc[p].pc = "reclaim"
      BY <2>1 DEF InReclaim, InPcs
    <3> QED  BY <3>1, InGoes
  <2>2. CASE InUnlock(p)
    <3>1. inProc' = [inProc EXCEPT ![p] = InIdle] /\ inProc[p].pc = "cleanup"
      BY <2>2 DEF InUnlock
    <3>2. InIdle \in InRec /\ InIdle.pc = "idle" /\ ~InIdle.made
      BY InFacts
    <3> QED  BY <3>1, <3>2
  <2> QED  BY <2>1, <2>2
<1>3. /\ inProc' \in [InProcs -> InRec] /\ inProc'[p] = x
      /\ \A q \in InProcs : q # p => inProc'[q] = inProc[q]
  BY <1>0, <1>2
<1>4. ~inTheft' => \A q \in InProcs : q # p => ~InInside(inProc[q])
  <2>1. CASE InReclaim(p)
    <3>1. ~inTheft' => inDir \notin InProcs /\ ~inTheft
      BY <2>1 DEF InReclaim
    <3> QED  BY <3>1 DEF InInv, InOwn
  <2>2. CASE InUnlock(p)
    <3>1. ~inTheft' => inDir \in {p, InNone} /\ ~inTheft
      BY <2>2 DEF InUnlock
    <3> QED  BY <3>1, InAssumption DEF InInv, InOwn
  <2> QED  BY <2>1, <2>2
<1>5. InWorld'
  BY <1>1, <1>3, InAssumption DEF InInv, InWorld
<1>6. InNobodyDied'
  <2>1. ASSUME inCrashes' = 0 PROVE ~inTheft'
    <3>1. InUnlock(p) /\ ~inTheft
      BY <1>1, <2>1 DEF InInv, InNobodyDied, InReclaim
    <3>2. inDir = p
      BY <1>0, <3>1 DEF InUnlock, InOwn, InInside
    <3> QED  BY <3>1, <3>2 DEF InUnlock
  <2>2. ASSUME inCrashes' = 0 PROVE x.pc = "idle"
    BY <1>1, <1>2, <2>2 DEF InInv, InNobodyDied
  <2>3. ASSUME inCrashes' = 0, NEW q \in InProcs PROVE inProc'[q].pc \notin {"reclaim", "again"}
    <3>1. CASE q = p
      BY <1>3, <2>2, <2>3, <3>1
    <3>2. CASE q # p
      BY <1>1, <1>3, <2>3, <3>2 DEF InInv, InNobodyDied
    <3> QED  BY <3>1, <3>2
  <2> QED  BY <1>1, <2>1, <2>3, InAssumption DEF InNobodyDied
<1>7. \A s : InWas(s)' <=> InWas(s)
  BY <1>1 DEF InWas
<1>8. InKept'
  BY <1>1, <1>7 DEF InInv, InKept
<1>9. InRecorded'
  BY <1>1, <1>3 DEF InInv, InRecorded
<1>10. InStopped'
  <2>1. \A q \in InProcs : inProc'[q].pc \in {"build", "service", "migration"}
                             => inProc'[q].kind = "install"
    BY <1>2, <1>3 DEF InInv, InStopped
  <2>2. ASSUME inCrashes' = 0, inLegacy' = "stopped"
        PROVE  \E q \in InProcs : InStops(inProc'[q])
    <3>1. PICK q \in InProcs : InStops(inProc[q])
      BY <1>1, <2>2 DEF InInv, InStopped
    <3>2. ~InStops(inProc[p])
      BY <1>1 DEF InStops
    <3> QED  BY <1>3, <3>1, <3>2
  <2>3. \A q \in InProcs : InStops(inProc[q])' <=> InStops(inProc'[q])
    BY DEF InStops
  <2> QED  BY <2>1, <2>2, <2>3 DEF InStopped
<1>11. ASSUME ~inTheft', NEW q \in InProcs PROVE InOwn(q, inProc[q])'
  <2>0. ~inTheft
    BY <1>1, <1>11
  <2>1. CASE q = p
    <3>1. CASE x.pc = "idle"
      BY <1>2, <1>3, <2>1, <3>1 DEF InOwn, InInside
    <3>2. CASE x.pc = "again"
      <4>1. ~x.made /\ (x.kind = "rollback" => InWas(x.sha))
        BY <1>0, <1>2, <2>0, <3>2 DEF InOwn, InInside
      <4> QED  BY <1>3, <1>7, <2>1, <3>2, <4>1 DEF InOwn, InInside
    <3> QED  BY <1>2, <3>1, <3>2
  <2>2. CASE q # p
    BY <1>3, <1>4, <1>7, <1>11, <2>0, <2>2, InOthers
  <2> QED  BY <2>1, <2>2
<1> QED  BY <1>5, <1>6, <1>8, <1>9, <1>10, <1>11 DEF InInv

\* What a failed transaction takes back.
LEMMA InTakesBack ==
  ASSUME InInv, NEW p \in InProcs, InTrap(p) PROVE InInv'
<1>0. /\ inProc[p] \in InRec /\ (~inTheft => InOwn(p, inProc[p]))
      /\ inProc[p].made \in BOOLEAN /\ inProc \in [InProcs -> InRec]
  BY InFacts DEF InInv, InRec
<1>1. /\ inProc[p].pc = "trap" /\ InGo(p, "cleanup") /\ "cleanup" \in InPcs
      /\ inMig' = (IF inMig = p THEN InNone ELSE inMig)
      /\ inReleases' = (IF inProc[p].made THEN inReleases \ {inProc[p].sha} ELSE inReleases)
      /\ inLegacy' = (IF inProc[p].stopped THEN "loaded" ELSE inLegacy)
      /\ UNCHANGED <<inDir, inPid, inActive, inGate, inHistory, inLessons, inWriter, inCrashes,
                     inTheft, inLost>>
  BY DEF InTrap, InPcs, inLocks, inState, inLearning, inPast
<1>2. PICK x \in InRec :
        /\ inProc' = [inProc EXCEPT ![p] = x] /\ x.pc = "cleanup" /\ x.kind = inProc[p].kind
        /\ x.sha = inProc[p].sha /\ x.made = inProc[p].made
  BY <1>1, InGoes
<1>3. /\ inProc' \in [InProcs -> InRec] /\ inProc'[p] = x
      /\ \A q \in InProcs : q # p => inProc'[q] = inProc[q]
  BY <1>0, <1>2
<1>4. ~inTheft => /\ inDir = p /\ (inProc[p].kind = "rollback" => InWas(inProc[p].sha))
                  /\ inProc[p].made => ~InWas(inProc[p].sha) /\ inProc[p].sha # inActive
  BY <1>0, <1>1 DEF InOwn, InInside
<1>5. \A q \in InProcs : q # p /\ ~inTheft => ~InInside(inProc[q])
  BY <1>4 DEF InInv, InOwn
<1>6. InWorld'
  BY <1>1, <1>3 DEF InInv, InWorld
<1>7. InNobodyDied'
  BY <1>1, <1>2, <1>3 DEF InInv, InNobodyDied
<1>8. \A s : InWas(s)' <=> InWas(s)
  BY <1>1 DEF InWas
<1>9. InKept'
  BY <1>1, <1>4, <1>8 DEF InInv, InKept
<1>10. InRecorded'
  BY <1>1, <1>2, <1>3 DEF InInv, InRecorded
<1>11. InStopped'
  <2>1. \A q \in InProcs : inProc'[q].pc \in {"build", "service", "migration"}
                             => inProc'[q].kind = "install"
    BY <1>2, <1>3 DEF InInv, InStopped
  <2>2. ASSUME inCrashes' = 0, inLegacy' = "stopped"
        PROVE  \E q \in InProcs : InStops(inProc'[q])
    <3>1. inLegacy = "stopped" /\ ~InStops(inProc[p])
      BY <1>1, <2>2 DEF InStops
    <3>2. PICK q \in InProcs : InStops(inProc[q])
      BY <1>1, <2>2, <3>1 DEF InInv, InStopped
    <3> QED  BY <1>3, <3>1, <3>2
  <2>3. \A q \in InProcs : InStops(inProc[q])' <=> InStops(inProc'[q])
    BY DEF InStops
  <2> QED  BY <2>1, <2>2, <2>3 DEF InStopped
<1>12. ASSUME ~inTheft', NEW q \in InProcs PROVE InOwn(q, inProc[q])'
  <2>0. ~inTheft
    BY <1>1, <1>12
  <2>1. CASE q = p
    BY <1>1, <1>2, <1>3, <1>4, <1>8, <2>0, <2>1 DEF InOwn, InInside
  <2>2. CASE q # p
    BY <1>3, <1>5, <1>8, <2>0, <2>2, InOthers
  <2> QED  BY <2>1, <2>2
<1> QED  BY <1>6, <1>7, <1>9, <1>10, <1>11, <1>12 DEF InInv

\* A writer of lessons is not there while an install goes from staging to activation.
LEMMA InWrites ==
  ASSUME InInv, InWriterLocks \/ InWriterWrites PROVE InInv'
<1>1. /\ UNCHANGED <<inDir, inPid, inMig, inReleases, inActive, inGate, inHistory, inLegacy, inProc,
                     inCrashes, inTheft, inLost>>
      /\ inWriter' \in BOOLEAN /\ inLessons' \in Nat
      /\ inWriter \/ inMig = InNone
      /\ inWriter \/ inLessons' = inLessons
  <2>1. inLessons \in Nat
    BY DEF InInv, InWorld
  <2>2. CASE InWriterLocks
    <3>1. inWriter' = TRUE /\ inMig = InNone /\ inLessons' = inLessons
      BY <2>2 DEF InWriterLocks
    <3>2. UNCHANGED <<inDir, inPid, inMig, inReleases, inActive, inGate, inHistory, inLegacy, inProc,
                      inCrashes, inTheft, inLost>>
      BY <2>2 DEF InWriterLocks, inLocks, inState, inPast
    <3> QED  BY <2>1, <3>1, <3>2
  <2>3. CASE InWriterWrites
    <3>1. inWriter /\ inWriter' = FALSE /\ inLessons' = inLessons + 1
      BY <2>3 DEF InWriterWrites
    <3>2. UNCHANGED <<inDir, inPid, inMig, inReleases, inActive, inGate, inHistory, inLegacy, inProc,
                      inCrashes, inTheft, inLost>>
      BY <2>3 DEF InWriterWrites, inLocks, inState, inPast
    <3>3. inLessons' \in Nat
      BY <2>1, <3>1
    <3>4. inWriter' \in BOOLEAN
      BY <3>1
    <3> QED  BY <3>1, <3>2, <3>3, <3>4, Zenon
  <2> QED  BY <2>2, <2>3
<1>2. InWorld' /\ InNobodyDied' /\ InRecorded'
  BY <1>1 DEF InInv, InWorld, InNobodyDied, InRecorded
<1>3. \A s : InWas(s)' <=> InWas(s)
  BY <1>1 DEF InWas
<1>4. InKept'
  BY <1>1, <1>3 DEF InInv, InKept
<1>5. InStopped'
  BY <1>1 DEF InInv, InStopped, InStops
<1>6. ASSUME ~inTheft', NEW q \in InProcs PROVE InOwn(q, inProc[q])'
  <2>1. InOwn(q, inProc[q])
    BY <1>1, <1>6 DEF InInv
  <2>2. ~(inProc[q].kind = "install" /\ inProc[q].pc = "activate")
    BY <1>1, <2>1, InAssumption DEF InOwn
  <2> QED  BY <1>1, <1>3, <2>1, <2>2 DEF InOwn
<1> QED  BY <1>2, <1>4, <1>5, <1>6 DEF InInv

\* A death leaves the locks to a dead owner.
LEMMA InDies ==
  ASSUME InInv, NEW p \in InProcs, InCrash(p) PROVE InInv'
<1>0. inProc \in [InProcs -> InRec] /\ inCrashes \in Nat
  BY DEF InInv, InWorld
<1>1. /\ inCrashes' = inCrashes + 1
      /\ inDir' = (IF inDir = p THEN InDead ELSE inDir)
      /\ inPid' = (IF inPid = p THEN InDead ELSE inPid)
      /\ inMig' = (IF inMig = p THEN InDead ELSE inMig)
      /\ inProc' = [inProc EXCEPT ![p] = InIdle]
      /\ UNCHANGED <<inReleases, inActive, inGate, inHistory, inLegacy, inLessons, inWriter,
                     inTheft, inLost>>
  BY DEF InCrash, inState, inLearning
<1>2. inCrashes' \in Nat /\ inCrashes' # 0
  BY <1>0, <1>1
<1>3. /\ inProc' \in [InProcs -> InRec] /\ inProc'[p] = InIdle
      /\ InIdle.pc = "idle" /\ ~InIdle.made
      /\ \A q \in InProcs : q # p => inProc'[q] = inProc[q]
  BY <1>0, <1>1, InFacts
<1>4. InWorld'
  BY <1>1, <1>2, <1>3, InAssumption DEF InInv, InWorld
<1>5. InNobodyDied' /\ InRecorded'
  BY <1>2 DEF InNobodyDied, InRecorded
<1>6. \A s : InWas(s)' <=> InWas(s)
  BY <1>1 DEF InWas
<1>7. InKept'
  BY <1>1, <1>6 DEF InInv, InKept
<1>8. InStopped'
  BY <1>2, <1>3 DEF InInv, InStopped
<1>9. ASSUME ~inTheft', NEW q \in InProcs PROVE InOwn(q, inProc[q])'
  <2>0. ~inTheft
    BY <1>1, <1>9
  <2>1. CASE q = p
    BY <1>3, <2>1 DEF InOwn, InInside
  <2>2. CASE q # p
    <3>1. InInside(inProc[q]) => inDir = q
      BY <2>0 DEF InInv, InOwn
    <3> QED  BY <1>1, <1>3, <1>6, <2>0, <2>2, <3>1, InOthers
  <2> QED  BY <2>1, <2>2
<1> QED  BY <1>4, <1>5, <1>7, <1>8, <1>9 DEF InInv

\* Every step keeps the invariant.
LEMMA InStep == InInv /\ [InNext]_inVars => InInv'
<1> SUFFICES ASSUME InInv, [InNext]_inVars PROVE InInv'
  OBVIOUS
<1>1. CASE UNCHANGED inVars
  BY <1>1 DEF inVars, InInv, InWorld, InNobodyDied, InKept, InWas, InRecorded, InStopped, InStops,
              InOwn, InInside
<1>2. ASSUME NEW p \in InProcs, InRollback(p) \/ \E sha \in InShas : InInstall(p, sha) PROVE InInv'
  BY <1>2, InBegins
<1>3. ASSUME NEW p \in InProcs, InMkdir(p) \/ InWritePid(p) PROVE InInv'
  BY <1>3, InLocks
<1>4. ASSUME NEW p \in InProcs, InSeeDead(p) \/ InRefused(p) PROVE InInv'
  BY <1>4, InStale
<1>5. ASSUME NEW p \in InProcs,
             \/ InBuild(p) \/ InStopLegacy(p) \/ InTakeMigration(p) \/ InStage(p) \/ InVerify(p)
             \/ InFails(p)
      PROVE InInv'
  BY <1>5, InWorks
<1>6. ASSUME NEW p \in InProcs, InActivate(p) \/ InRecord(p) PROVE InInv'
  BY <1>6, InSwitches
<1>7. ASSUME NEW p \in InProcs, InReclaim(p) \/ InUnlock(p) PROVE InInv'
  BY <1>7, InFrees
<1>8. ASSUME NEW p \in InProcs, InTrap(p) PROVE InInv'
  BY <1>8, InTakesBack
<1>9. ASSUME NEW p \in InProcs, InCrash(p) PROVE InInv'
  BY <1>9, InDies
<1>10. CASE InWriterLocks \/ InWriterWrites
  BY <1>10, InWrites
<1> QED  BY <1>1, <1>2, <1>3, <1>4, <1>5, <1>6, <1>7, <1>8, <1>9, <1>10 DEF InNext

\* Whatever installs and rollbacks do to one another, fail or die: one
\* transaction at a time and the active release in its directory unless a live
\* lock was taken for stale, and without a death the last line of the history is
\* the active release and the legacy service is not left stopped.
THEOREM InstallsAreSafe == InSpec => []InSafe
<1>1. InInv => InSafe
  <2> SUFFICES ASSUME InInv PROVE InSafe
    OBVIOUS
  <2>0. \A p \in InProcs : p \in InHolding <=>
          inProc[p].pc \in {"build", "service", "migration", "stage", "activate", "record",
                            "verify", "trap", "cleanup"}
    BY DEF InHolding
  <2>1. InTypeOK
    BY DEF InInv, InWorld, InTypeOK
  <2>2. InOneTransaction
    <3>1. \A p \in InProcs : ~inTheft /\ p \in InHolding => inDir = p
      BY <2>0 DEF InInv, InOwn, InInside
    <3>2. InHolding \subseteq InProcs
      BY DEF InHolding
    <3> QED  BY <3>1, <3>2 DEF InOneTransaction
  <2>3. InActiveIsThere /\ InInstallKeepsLessons
    BY DEF InInv, InKept, InActiveIsThere, InInstallKeepsLessons
  <2>4. InHistoryTrue
    <3>1. Last(inHistory) = inHistory[Len(inHistory)]
      BY DEF Last
    <3> QED  BY <2>0, <3>1 DEF InInv, InRecorded, InHistoryTrue
  <2>5. InLegacyRestored
    BY <2>0 DEF InInv, InStopped, InStops, InLegacyRestored
  <2> QED  BY <2>1, <2>2, <2>3, <2>4, <2>5 DEF InSafe
<1> QED  BY <1>1, InInitInv, InStep, PTL DEF InSpec
-----------------------------------------------------------------------------
(* The installer of the harness pin *)

\* The paths and their order.
LEMMA PnOrder ==
  /\ Len(PnManaged) = 8
  /\ \A i \in 1..8 : PnManaged[i] \in PnPaths
  /\ \A m \in PnPaths : \E i \in 1..8 : m = PnManaged[i]
  /\ \A i, j \in 1..8 : PnManaged[i] = PnManaged[j] => i = j
  /\ PnManaged[8] = "record"
  /\ PnPaths = {"runtime", "web", "headless", "kernel", "control", "codex", "launcher", "record"}
<1>1. /\ Len(PnManaged) = 8 /\ DOMAIN PnManaged = 1..8
      /\ PnManaged[1] = "runtime" /\ PnManaged[2] = "web" /\ PnManaged[3] = "headless"
      /\ PnManaged[4] = "kernel" /\ PnManaged[5] = "control" /\ PnManaged[6] = "codex"
      /\ PnManaged[7] = "launcher" /\ PnManaged[8] = "record"
  BY DEF PnManaged
<1>2. 1..8 = {1, 2, 3, 4, 5, 6, 7, 8}
  OBVIOUS
<1>3. PnPaths = {PnManaged[i] : i \in 1..8}
  BY <1>1 DEF PnPaths
<1>4. PnPaths = {"runtime", "web", "headless", "kernel", "control", "codex", "launcher", "record"}
  BY <1>1, <1>2, <1>3
<1>5. \A i, j \in 1..8 : PnManaged[i] = PnManaged[j] => i = j
  BY <1>1, <1>2
<1> QED  BY <1>1, <1>3, <1>4, <1>5

\* Either nothing is installed or everything is.
LEMMA PnInitInv == PnInit => PnInv
<1> SUFFICES ASSUME PnInit PROVE PnInv
  OBVIOUS
<1>1. /\ pnPc = "rest" /\ pnAt = 1 /\ pnBackup = PnNothing /\ pnExisting = {}
      /\ pnAppAside = PnNone /\ pnCount = 0 /\ pnFate = "none" /\ pnKilled = FALSE
      /\ pnPrior = [path |-> pnPath, app |-> pnApp]
  BY DEF PnInit
<1>2. PnNone \in PnFiles /\ 0 \in PnFiles /\ 0 \in 0..PnMaxInstalls /\ PnNothing \in [PnPaths -> PnFiles]
  BY PnAssumption DEF PnFiles, PnNothing
<1>3. pnPath \in [PnPaths -> PnFiles] /\ pnApp \in PnFiles \cup {PnForeign}
  BY <1>2 DEF PnInit
<1>4. PnWhole(pnPath, pnApp)
  <2>1. "record" \in PnPaths
    BY PnOrder
  <2> QED  BY <2>1 DEF PnInit, PnWhole, PnNothing
<1>5. PnWhole(pnPrior.path, pnPrior.app)
  BY <1>1, <1>4
<1>6. PnWorldOK
  BY <1>1, <1>2, <1>3 DEF PnWorldOK
<1> QED  BY <1>1, <1>4, <1>5, <1>6
         DEF PnInv, PnSetting, PnStaging, PnSteps, PnRemoving, PnRestoring, PnAllOrNothing

\* The types.
LEMMA PnFacts ==
  ASSUME PnInv
  PROVE  /\ pnPath \in [PnPaths -> PnFiles] /\ pnBackup \in [PnPaths -> PnFiles]
         /\ pnApp \in PnFiles \cup {PnForeign} /\ pnAppAside \in PnFiles \cup {PnForeign}
         /\ pnExisting \subseteq PnPaths /\ pnAt \in 1..9 /\ pnCount \in 0..PnMaxInstalls
         /\ pnPrior \in [path : [PnPaths -> PnFiles], app : PnFiles \cup {PnForeign}]
         /\ pnPc # "rest" => pnCount # 0
         /\ PnNone \in PnFiles /\ pnCount \in PnFiles /\ pnCount # PnNone
         /\ "record" \in PnPaths /\ "launcher" \in PnPaths
BY PnAssumption, PnOrder DEF PnInv, PnWorldOK, PnFiles

\* A transaction is opened.
LEMMA PnOpens == ASSUME PnInv, PnStart PROVE PnInv'
<1>1. /\ pnPc = "rest" /\ pnPc' = "aside" /\ pnAt' = 1 /\ pnCount' = pnCount + 1
      /\ pnBackup' = PnNothing /\ pnExisting' = {} /\ pnAppAside' = PnNone /\ pnAppOn' = FALSE
      /\ pnPrior' = [path |-> pnPath, app |-> pnApp] /\ pnFate' = "none"
      /\ UNCHANGED <<pnPath, pnApp, pnKilled>> /\ pnCount < PnMaxInstalls
  BY DEF PnStart
<1>2. PnNothing \in [PnPaths -> PnFiles]
  BY PnFacts DEF PnNothing
<1>3. pnCount' \in 0..PnMaxInstalls /\ pnCount' # 0
  BY <1>1, PnFacts, PnAssumption
<1>4. PnWorldOK'
  BY <1>1, <1>2, <1>3, PnFacts DEF PnWorldOK
<1>5. pnPrior'.path = pnPath /\ pnPrior'.app = pnApp
  BY <1>1
<1>6. PnSetting'
  <2>1. \A i \in 1..8 : ~(i < 1)
    OBVIOUS
  <2>2. \A i \in 1..8 : PnNothing[PnManaged[i]] = PnNone
    BY PnOrder DEF PnNothing
  <2> QED  BY <1>1, <1>5, <2>1, <2>2 DEF PnSetting
<1>7. ~pnKilled' => PnWhole(pnPrior.path, pnPrior.app)'
  BY <1>1, <1>5 DEF PnInv, PnWhole
<1> QED  BY <1>1, <1>4, <1>6, <1>7
         DEF PnInv, PnStaging, PnSteps, PnRemoving, PnRestoring, PnAllOrNothing

\* One more path is set aside.
LEMMA PnSetsAside == ASSUME PnInv, PnSetAside PROVE PnInv'
<1>0. PICK m \in PnPaths : m = PnManaged[pnAt]
  <2>1. pnAt \in 1..8
    BY PnFacts, PnOrder DEF PnSetAside
  <2> QED  BY <2>1, PnOrder
<1>1. /\ pnPc = "aside" /\ pnAt \in 1..8 /\ pnAt' = pnAt + 1 /\ pnAt' \in 1..9 /\ m \in PnPaths
      /\ UNCHANGED <<pnApp, pnPc, pnAppAside, pnAppOn, pnCount, pnPrior, pnFate, pnKilled>>
  BY PnFacts, PnOrder DEF PnSetAside
<1>2. m \notin pnExisting /\ pnBackup[m] = PnNone /\ pnPath[m] = pnPrior.path[m]
  <2>1. ~(pnAt < pnAt)
    BY <1>1
  <2> QED  BY <1>0, <1>1, <2>1 DEF PnInv, PnSetting
<1>3. \/ /\ pnPath[m] # PnNone
         /\ pnExisting' = pnExisting \cup {m}
         /\ pnBackup' = [pnBackup EXCEPT ![m] = pnPath[m]]
         /\ pnPath' = [pnPath EXCEPT ![m] = PnNone]
      \/ pnPath[m] = PnNone /\ UNCHANGED <<pnExisting, pnBackup, pnPath>>
  BY <1>0 DEF PnSetAside
<1>4. /\ pnPath' \in [PnPaths -> PnFiles] /\ pnBackup' \in [PnPaths -> PnFiles]
      /\ pnExisting' \subseteq PnPaths
      /\ \A x \in PnPaths : x # m => /\ pnPath'[x] = pnPath[x] /\ pnBackup'[x] = pnBackup[x]
                                     /\ x \in pnExisting' <=> x \in pnExisting
  BY <1>1, <1>3, PnFacts
<1>5. PnWorldOK'
  BY <1>1, <1>4, PnFacts DEF PnWorldOK
<1>6. (PnAside(m) /\ pnPath[m] = PnNone)'
  BY <1>1, <1>2, <1>3, PnFacts DEF PnAside
<1>7. PnSetting'
  <2>1. ASSUME NEW i \in 1..8
        PROVE  IF i < pnAt' THEN (PnAside(PnManaged[i]) /\ pnPath[PnManaged[i]] = PnNone)'
               ELSE /\ PnManaged[i] \notin pnExisting' /\ pnBackup'[PnManaged[i]] = PnNone
                    /\ pnPath'[PnManaged[i]] = pnPrior'.path[PnManaged[i]]
    <3>1. IF i < pnAt THEN PnAside(PnManaged[i]) /\ pnPath[PnManaged[i]] = PnNone
          ELSE /\ PnManaged[i] \notin pnExisting /\ pnBackup[PnManaged[i]] = PnNone
               /\ pnPath[PnManaged[i]] = pnPrior.path[PnManaged[i]]
      BY <1>1 DEF PnInv, PnSetting
    <3>2. CASE i = pnAt
      <4>1. i < pnAt'
        BY <1>1, <3>2
      <4>2. PnManaged[i] = m
        BY <1>0, <3>2
      <4> QED  BY <1>6, <4>1, <4>2 DEF PnAside
    <3>3. CASE i # pnAt
      <4>1. PnManaged[i] # m /\ PnManaged[i] \in PnPaths
        BY <1>0, <1>1, <3>3, PnOrder
      <4>2. i < pnAt' <=> i < pnAt
        BY <1>1, <3>3
      <4> QED  BY <1>1, <1>4, <3>1, <4>1, <4>2 DEF PnAside
    <3> QED  BY <3>2, <3>3
  <2> QED  BY <1>1, <2>1 DEF PnInv, PnSetting
<1>8. ~pnKilled' => PnWhole(pnPrior.path, pnPrior.app)'
  BY <1>1 DEF PnInv, PnWhole
<1> QED  BY <1>1, <1>5, <1>7, <1>8
         DEF PnInv, PnStaging, PnSteps, PnRemoving, PnRestoring, PnAllOrNothing

\* The app is set aside: everything is.
LEMMA PnSetsAppAside == ASSUME PnInv, PnSetAppAside PROVE PnInv'
<1>1. /\ pnPc = "aside" /\ pnAt = 9 /\ pnPc' = "profiles" /\ pnAppAside' = pnApp /\ pnApp' = PnNone
      /\ UNCHANGED <<pnPath, pnAt, pnBackup, pnExisting, pnAppOn, pnCount, pnPrior, pnFate, pnKilled>>
  BY PnFacts, PnOrder DEF PnSetAppAside
<1>2. \A i \in 1..8 : i < pnAt
  BY <1>1
<1>3. \A m \in PnPaths : PnAside(m) /\ pnPath[m] = PnNone
  BY <1>1, <1>2, PnOrder DEF PnInv, PnSetting
<1>4. pnApp = pnPrior.app /\ ~pnAppOn
  BY <1>1 DEF PnInv, PnSetting
<1>5. PnWorldOK'
  BY <1>1, PnFacts DEF PnWorldOK
<1>6. PnStaging'
  <2>1. PnAllAside'
    BY <1>1, <1>3 DEF PnAllAside, PnAside
  <2>2. PnStaged["profiles"] = {}
    BY DEF PnStaged, PnSteps
  <2> QED  BY <1>1, <1>3, <1>4, <2>1, <2>2, PnFacts DEF PnStaging
<1>7. ~pnKilled' => PnWhole(pnPrior.path, pnPrior.app)'
  BY <1>1 DEF PnInv, PnWhole
<1> QED  BY <1>1, <1>5, <1>6, <1>7
         DEF PnInv, PnSetting, PnSteps, PnRemoving, PnRestoring, PnAllOrNothing

\* A step of the staging that leaves app and record alone.
LEMMA PnStages ==
  ASSUME PnInv, NEW pc \in PnSteps \ {"record", "commit"}, NEW next \in PnSteps \ {"record", "commit"},
         NEW paths \in SUBSET (PnPaths \ {"record"}), PnStage(pc, paths, next),
         PnStaged[next] \subseteq PnStaged[pc] \cup paths
  PROVE  PnInv'
<1>1. /\ pnPc = pc /\ pnPc' = next
      /\ pnPath' = [m \in PnPaths |-> IF m \in paths THEN pnCount ELSE pnPath[m]]
      /\ UNCHANGED <<pnApp, pnAt, pnBackup, pnExisting, pnAppAside, pnAppOn, pnCount, pnPrior,
                     pnFate, pnKilled>>
  BY DEF PnStage, PnOther
<1>2. pc \notin {"rest", "aside", "remove", "restore"} /\ next \notin {"rest", "aside", "remove", "restore"}
  BY DEF PnSteps
<1>3. PnWorldOK'
  BY <1>1, <1>2, PnFacts DEF PnWorldOK
<1>4. PnStaging'
  <2>1. PnAllAside' <=> PnAllAside
    BY <1>1 DEF PnAllAside, PnAside
  <2>2. /\ PnAllAside /\ pnAppAside = pnPrior.app /\ ~pnAppOn /\ pnApp = PnNone
        /\ \A m \in PnStaged[pc] : pnPath[m] = pnCount
        /\ pnPath["record"] = PnNone
    BY <1>1 DEF PnInv, PnStaging
  <2>3. \A m \in PnStaged[next] : m \in PnPaths
    BY PnOrder DEF PnStaged, PnSteps
  <2>4. \A m \in PnStaged[next] : pnPath'[m] = pnCount
    BY <1>1, <2>2, <2>3
  <2>5. pnPath'["record"] = PnNone
    BY <1>1, <2>2, PnFacts
  <2> QED  BY <1>1, <2>1, <2>2, <2>4, <2>5 DEF PnStaging
<1>5. ~pnKilled' => PnWhole(pnPrior.path, pnPrior.app)'
  BY <1>1 DEF PnInv, PnWhole
<1> QED  BY <1>1, <1>2, <1>3, <1>4, <1>5
         DEF PnInv, PnSetting, PnRemoving, PnRestoring, PnAllOrNothing

\* All of them, in their order.
LEMMA PnStagesAll ==
  ASSUME PnInv,
         \/ PnStageProfiles \/ PnStageKernel \/ PnStageCodexHome \/ PnStageNamedHomes
         \/ PnInstallPackages \/ PnStagePreset \/ PnLinkKernelRuntime \/ PnLinkKernelBundle
         \/ PnLinkShared \/ PnStageControlPlane
  PROVE  PnInv'
<1>1. PICK pc \in PnSteps \ {"record", "commit"}, next \in PnSteps \ {"record", "commit"},
           paths \in SUBSET (PnPaths \ {"record"}) :
         PnStage(pc, paths, next) /\ PnStaged[next] \subseteq PnStaged[pc] \cup paths
  <2>0. /\ PnStaged["profiles"] = {} /\ PnStaged["kernel"] = {"web", "headless"}
        /\ PnStaged["codex"] = {"web", "headless", "kernel"}
        /\ PnStaged["named"] = {"web", "headless", "kernel", "codex"}
        /\ PnStaged["packages"] = {"web", "headless", "kernel", "codex"}
        /\ PnStaged["preset"] = {"web", "headless", "kernel", "codex", "runtime"}
        /\ PnStaged["link"] = {"web", "headless", "kernel", "codex", "runtime"}
        /\ PnStaged["bundle"] = {"web", "headless", "kernel", "codex", "runtime"}
        /\ PnStaged["shared"] = {"web", "headless", "kernel", "codex", "runtime"}
        /\ PnStaged["control"] = {"web", "headless", "kernel", "codex", "runtime"}
        /\ PnStaged["verify"] = {"web", "headless", "kernel", "codex", "runtime", "control"}
    BY DEF PnStaged, PnSteps
  <2>1. CASE PnStageProfiles
    BY <2>0, <2>1, PnOrder DEF PnStageProfiles, PnSteps
  <2>2. CASE PnStageKernel
    BY <2>0, <2>2, PnOrder DEF PnStageKernel, PnSteps
  <2>3. CASE PnStageCodexHome
    BY <2>0, <2>3, PnOrder DEF PnStageCodexHome, PnSteps
  <2>4. CASE PnStageNamedHomes
    BY <2>0, <2>4, PnOrder DEF PnStageNamedHomes, PnSteps
  <2>5. CASE PnInstallPackages
    BY <2>0, <2>5, PnOrder DEF PnInstallPackages, PnSteps
  <2>6. CASE PnStagePreset
    BY <2>0, <2>6, PnOrder DEF PnStagePreset, PnSteps
  <2>7. CASE PnLinkKernelRuntime
    BY <2>0, <2>7, PnOrder DEF PnLinkKernelRuntime, PnSteps
  <2>8. CASE PnLinkKernelBundle
    BY <2>0, <2>8, PnOrder DEF PnLinkKernelBundle, PnSteps
  <2>9. CASE PnLinkShared
    BY <2>0, <2>9, PnOrder DEF PnLinkShared, PnSteps
  <2>10. CASE PnStageControlPlane
    BY <2>0, <2>10, PnOrder DEF PnStageControlPlane, PnSteps
  <2> QED  BY <2>1, <2>2, <2>3, <2>4, <2>5, <2>6, <2>7, <2>8, <2>9, <2>10
<1> QED  BY <1>1, PnStages

\* The check of the profiles changes nothing.
LEMMA PnVerifies == ASSUME PnInv, PnVerify PROVE PnInv'
<1>1. /\ pnPc = "verify" /\ pnPc' = "app"
      /\ UNCHANGED <<pnPath, pnApp, pnAt, pnBackup, pnExisting, pnAppAside, pnAppOn, pnCount, pnPrior,
                     pnFate, pnKilled>>
  BY DEF PnVerify, PnOther
<1>2. PnStaged["app"] = PnStaged["verify"]
  BY DEF PnStaged, PnSteps
<1>3. PnWorldOK'
  BY <1>1, PnFacts DEF PnWorldOK
<1>4. PnStaging'
  <2>1. PnAllAside' <=> PnAllAside
    BY <1>1 DEF PnAllAside, PnAside
  <2>2. PnStaging
    BY DEF PnInv
  <2>3. "verify" \in PnSteps
    BY DEF PnSteps
  <2> QED  BY <1>1, <1>2, <2>1, <2>2, <2>3 DEF PnStaging
<1>5. ~pnKilled' => PnWhole(pnPrior.path, pnPrior.app)'
  BY <1>1 DEF PnInv, PnWhole
<1> QED  BY <1>1, <1>3, <1>4, <1>5
         DEF PnInv, PnSetting, PnRemoving, PnRestoring, PnAllOrNothing, PnSteps

\* The launcher and the app are staged.
LEMMA PnStagesApp == ASSUME PnInv, PnStageApp PROVE PnInv'
<1>1. /\ pnPc = "app" /\ pnPc' = "record" /\ pnAppOn' = TRUE /\ pnApp' = pnCount
      /\ pnPath' = [pnPath EXCEPT !["launcher"] = pnCount]
      /\ UNCHANGED <<pnAt, pnBackup, pnExisting, pnAppAside, pnCount, pnPrior, pnFate, pnKilled>>
  BY DEF PnStageApp
<1>2. PnStaged["record"] \subseteq PnStaged["app"] \cup {"launcher"} /\ "record" \notin PnStaged["record"]
  BY PnOrder DEF PnStaged, PnSteps
<1>3. PnStaged["record"] \subseteq PnPaths
  BY DEF PnStaged, PnSteps
<1>4. /\ pnPath' \in [PnPaths -> PnFiles] /\ pnPath'["launcher"] = pnCount
      /\ \A m \in PnPaths : m # "launcher" => pnPath'[m] = pnPath[m]
  BY <1>1, PnFacts
<1>5. PnWorldOK'
  BY <1>1, <1>4, PnFacts DEF PnWorldOK
<1>6. PnStaging'
  <2>1. PnAllAside' <=> PnAllAside
    BY <1>1 DEF PnAllAside, PnAside
  <2>2. /\ PnAllAside /\ pnAppAside = pnPrior.app
        /\ \A m \in PnStaged["app"] : pnPath[m] = pnCount
        /\ pnPath["record"] = PnNone
    <3>1. "app" \in PnSteps
      BY DEF PnSteps
    <3> QED  BY <1>1, <3>1 DEF PnInv, PnStaging
  <2>3. \A m \in PnStaged["record"] : pnPath'[m] = pnCount
    BY <1>2, <1>3, <1>4, <2>2
  <2>4. pnPath'["record"] = PnNone
    BY <1>4, <2>2, PnFacts
  <2> QED  BY <1>1, <2>1, <2>2, <2>3, <2>4 DEF PnStaging
<1>7. ~pnKilled' => PnWhole(pnPrior.path, pnPrior.app)'
  BY <1>1 DEF PnInv, PnWhole
<1> QED  BY <1>1, <1>5, <1>6, <1>7
         DEF PnInv, PnSetting, PnRemoving, PnRestoring, PnAllOrNothing, PnSteps

\* The record is written: everything is the install's.
LEMMA PnRecords == ASSUME PnInv, PnRecord PROVE PnInv'
<1>1. /\ pnPc = "record" /\ pnPc' = "commit"
      /\ pnPath' = [m \in PnPaths |-> IF m \in {"record"} THEN pnCount ELSE pnPath[m]]
      /\ UNCHANGED <<pnApp, pnAt, pnBackup, pnExisting, pnAppAside, pnAppOn, pnCount, pnPrior,
                     pnFate, pnKilled>>
  BY DEF PnRecord, PnStage, PnOther
<1>2. PnStaged["record"] = PnPaths \ {"record"} /\ PnStaged["commit"] = PnPaths
  BY DEF PnStaged, PnSteps
<1>3. pnPath' \in [PnPaths -> PnFiles]
  BY <1>1, PnFacts
<1>4. PnWorldOK'
  BY <1>1, <1>3, PnFacts DEF PnWorldOK
<1>5. PnStaging'
  <2>1. PnAllAside' <=> PnAllAside
    BY <1>1 DEF PnAllAside, PnAside
  <2>2. /\ PnAllAside /\ pnAppAside = pnPrior.app /\ pnAppOn /\ pnApp = pnCount
        /\ \A m \in PnPaths \ {"record"} : pnPath[m] = pnCount
    <3>1. "record" \in PnSteps
      BY DEF PnSteps
    <3> QED  BY <1>1, <1>2, <3>1 DEF PnInv, PnStaging
  <2>3. \A m \in PnPaths : pnPath'[m] = pnCount
    BY <1>1, <2>2
  <2> QED  BY <1>1, <1>2, <2>1, <2>2, <2>3 DEF PnStaging
<1>6. ~pnKilled' => PnWhole(pnPrior.path, pnPrior.app)'
  BY <1>1 DEF PnInv, PnWhole
<1> QED  BY <1>1, <1>4, <1>5, <1>6
         DEF PnInv, PnSetting, PnRemoving, PnRestoring, PnAllOrNothing, PnSteps

\* The install is over with everything in place.
LEMMA PnCommits == ASSUME PnInv, PnCommit PROVE PnInv'
<1>1. /\ pnPc = "commit" /\ pnPc' = "rest" /\ pnFate' = "installed"
      /\ pnBackup' = PnNothing /\ pnAppAside' = PnNone
      /\ UNCHANGED <<pnPath, pnApp, pnAt, pnExisting, pnAppOn, pnCount, pnPrior, pnKilled>>
  BY DEF PnCommit
<1>2. pnApp = pnCount /\ \A m \in PnPaths : pnPath[m] = pnCount
  <2>1. "commit" \in PnSteps /\ PnStaged["commit"] = PnPaths
    BY DEF PnSteps, PnStaged
  <2> QED  BY <1>1, <2>1 DEF PnInv, PnStaging
<1>3. PnNothing \in [PnPaths -> PnFiles]
  BY PnFacts DEF PnNothing
<1>4. PnWorldOK'
  BY <1>1, <1>3, PnFacts DEF PnWorldOK
<1>5. PnWhole(pnPath, pnApp)'
  BY <1>1, <1>2, PnFacts DEF PnWhole
<1>6. PnAllOrNothing'
  BY <1>1, <1>2 DEF PnAllOrNothing
<1>7. ~pnKilled' => PnWhole(pnPrior.path, pnPrior.app)'
  BY <1>1 DEF PnInv, PnWhole
<1> QED  BY <1>1, <1>4, <1>5, <1>6, <1>7
         DEF PnInv, PnSetting, PnStaging, PnRemoving, PnRestoring, PnSteps

\* The trap takes over.
LEMMA PnTrapped == ASSUME PnInv, PnFails PROVE PnInv'
<1>1. /\ pnPc' = "remove" /\ pnAt' = 1 /\ pnPc \notin {"rest", "remove", "restore"}
      /\ pnFate' = IF pnPc = "aside" /\ pnAt <= 8 THEN "cut short" ELSE "rolled back"
      /\ UNCHANGED <<pnPath, pnApp, pnBackup, pnExisting, pnAppAside, pnAppOn, pnCount, pnPrior, pnKilled>>
  BY PnOrder DEF PnFails, PnInTransaction
<1>2. PnWorldOK'
  <2>1. pnCount # 0
    BY <1>1, PnFacts
  <2>2. pnAt' = 1
    BY DEF PnFails
  <2>3. pnAt' \in 1..9
    BY <2>2
  <2> QED  BY <1>1, <2>1, <2>3, PnFacts DEF PnWorldOK
<1>3. PnAllAside' <=> PnAllAside
  BY <1>1 DEF PnAllAside, PnAside
<1>4. \A i \in 1..8 : ~(i < 1)
  OBVIOUS
<1>5. PnRemoving'
  <2>1. CASE pnPc = "aside" /\ pnAt <= 8
    <3>1. ~(8 < pnAt) /\ 8 \in 1..8
      BY <2>1, PnFacts
    <3>2. "record" \notin pnExisting
      BY <2>1, <3>1, PnOrder DEF PnInv, PnSetting
    <3> QED  BY <1>1, <1>4, <2>1, <3>2 DEF PnRemoving, PnBroken
  <2>2. CASE pnPc = "aside" /\ ~(pnAt <= 8)
    <3>1. \A i \in 1..8 : i < pnAt
      BY <2>2, PnFacts
    <3>2. PnAllAside
      BY <2>2, <3>1, PnOrder DEF PnInv, PnSetting, PnAllAside
    <3>3. pnApp = pnPrior.app /\ pnAppAside = PnNone /\ ~pnAppOn
      BY <2>2 DEF PnInv, PnSetting
    <3> QED  BY <1>1, <1>3, <1>4, <2>2, <3>2, <3>3 DEF PnRemoving, PnBroken
  <2>3. CASE pnPc # "aside"
    <3>1. pnPc \in PnSteps
      BY <1>1, <2>3 DEF PnInv
    <3>2. /\ PnAllAside /\ pnAppAside = pnPrior.app
          /\ ~pnAppOn => pnApp = PnNone
      BY <3>1 DEF PnInv, PnStaging
    <3> QED  BY <1>1, <1>3, <1>4, <2>3, <3>2 DEF PnRemoving, PnBroken
  <2> QED  BY <2>1, <2>2, <2>3
<1>6. ~pnKilled' => PnWhole(pnPrior.path, pnPrior.app)'
  BY <1>1 DEF PnInv, PnWhole
<1> QED  BY <1>1, <1>2, <1>5, <1>6
         DEF PnInv, PnSetting, PnStaging, PnRestoring, PnAllOrNothing, PnSteps

\* The trap removes one more path.
LEMMA PnRemoves == ASSUME PnInv, PnRemove PROVE PnInv'
<1>0. PICK m \in PnPaths : m = PnManaged[pnAt]
  <2>1. pnAt \in 1..8
    BY PnFacts, PnOrder DEF PnRemove
  <2> QED  BY <2>1, PnOrder
<1>1. /\ pnPc = "remove" /\ pnAt \in 1..8 /\ pnAt' = pnAt + 1 /\ pnAt' \in 1..9
      /\ pnPath' = [pnPath EXCEPT ![m] = PnNone]
      /\ UNCHANGED <<pnApp, pnPc, pnBackup, pnExisting, pnAppAside, pnAppOn, pnCount, pnPrior, pnFate, pnKilled>>
  BY <1>0, PnFacts, PnOrder DEF PnRemove
<1>2. /\ pnPath' \in [PnPaths -> PnFiles] /\ pnPath'[m] = PnNone
      /\ \A x \in PnPaths : x # m => pnPath'[x] = pnPath[x]
  BY <1>1, PnFacts
<1>3. PnWorldOK'
  BY <1>1, <1>2, PnFacts DEF PnWorldOK
<1>4. PnRemoving'
  <2>1. /\ PnBroken
        /\ \A i \in 1..8 : i < pnAt => pnPath[PnManaged[i]] = PnNone
        /\ pnFate = "rolled back" =>
             IF pnAppAside # PnNone THEN pnAppAside = pnPrior.app
             ELSE pnPrior.app = IF pnAppOn THEN PnNone ELSE pnApp
    BY <1>1 DEF PnInv, PnRemoving
  <2>2. PnBroken'
    BY <1>1, <2>1 DEF PnBroken, PnAllAside, PnAside
  <2>3. ASSUME NEW i \in 1..8, i < pnAt' PROVE pnPath'[PnManaged[i]] = PnNone
    <3>1. CASE i = pnAt
      BY <1>0, <1>2, <3>1
    <3>2. CASE i # pnAt
      <4>1. i < pnAt
        BY <1>1, <2>3, <3>2
      <4>2. PnManaged[i] \in PnPaths
        BY PnOrder
      <4> QED  BY <1>2, <2>1, <4>1, <4>2
    <3> QED  BY <3>1, <3>2
  <2> QED  BY <1>1, <2>1, <2>2, <2>3 DEF PnRemoving
<1>5. ~pnKilled' => PnWhole(pnPrior.path, pnPrior.app)'
  BY <1>1 DEF PnInv, PnWhole
<1> QED  BY <1>1, <1>3, <1>4, <1>5
         DEF PnInv, PnSetting, PnStaging, PnRestoring, PnAllOrNothing, PnSteps

\* The app is as it was.
LEMMA PnRestoresApp == ASSUME PnInv, PnRestoreApp PROVE PnInv'
<1>1. /\ pnPc = "remove" /\ pnAt = 9 /\ pnPc' = "restore" /\ pnAt' = 1 /\ pnAppAside' = PnNone
      /\ pnApp' = IF pnAppAside # PnNone THEN pnAppAside ELSE IF pnAppOn THEN PnNone ELSE pnApp
      /\ UNCHANGED <<pnPath, pnBackup, pnExisting, pnAppOn, pnCount, pnPrior, pnFate, pnKilled>>
  BY PnFacts, PnOrder DEF PnRestoreApp
<1>2. pnApp' \in PnFiles \cup {PnForeign}
  BY <1>1, PnFacts
<1>3. PnWorldOK'
  BY <1>1, <1>2, PnFacts DEF PnWorldOK
<1>4. \A i \in 1..8 : i < pnAt /\ ~(i < 1)
  BY <1>1
<1>5. /\ PnBroken
      /\ \A m \in PnPaths : pnPath[m] = PnNone
      /\ pnFate = "rolled back" =>
           IF pnAppAside # PnNone THEN pnAppAside = pnPrior.app
           ELSE pnPrior.app = IF pnAppOn THEN PnNone ELSE pnApp
  <2>1. /\ PnBroken
        /\ \A i \in 1..8 : i < pnAt => pnPath[PnManaged[i]] = PnNone
        /\ pnFate = "rolled back" =>
             IF pnAppAside # PnNone THEN pnAppAside = pnPrior.app
             ELSE pnPrior.app = IF pnAppOn THEN PnNone ELSE pnApp
    BY <1>1 DEF PnInv, PnRemoving
  <2>2. ASSUME NEW m \in PnPaths PROVE pnPath[m] = PnNone
    <3>1. PICK i \in 1..8 : m = PnManaged[i]
      BY PnOrder
    <3> QED  BY <1>4, <2>1, <3>1
  <2> QED  BY <2>1, <2>2
<1>6. PnRestoring'
  <2>1. pnFate = "rolled back" => pnApp' = pnPrior.app
    BY <1>1, <1>5
  <2>2. \A i \in 1..8 : pnPath[PnManaged[i]] = PnNone
    BY <1>5, PnOrder
  <2>3. \A i \in 1..8 : (pnFate = "rolled back" => PnAside(PnManaged[i]))
    BY <1>5, PnOrder DEF PnBroken, PnAllAside
  <2>4. \A i \in 1..8 : PnAside(PnManaged[i]) => PnAside(PnManaged[i])'
    BY <1>1 DEF PnAside
  <2>5. pnPath["record"] = PnNone
    BY <1>5, PnFacts
  <2>6. pnFate \in {"rolled back", "cut short"} /\ (pnFate = "cut short" => "record" \notin pnExisting)
    BY <1>5 DEF PnBroken
  <2> QED  BY <1>1, <1>4, <2>1, <2>2, <2>3, <2>4, <2>5, <2>6 DEF PnRestoring
<1>7. ~pnKilled' => PnWhole(pnPrior.path, pnPrior.app)'
  BY <1>1 DEF PnInv, PnWhole
<1> QED  BY <1>1, <1>3, <1>6, <1>7
         DEF PnInv, PnSetting, PnStaging, PnRemoving, PnAllOrNothing, PnSteps

\* One more path is put back.
LEMMA PnRestores == ASSUME PnInv, PnRestore PROVE PnInv'
<1>0. PICK m \in PnPaths : m = PnManaged[pnAt]
  <2>1. pnAt \in 1..8
    BY PnFacts, PnOrder DEF PnRestore
  <2> QED  BY <2>1, PnOrder
<1>1. /\ pnPc = "restore" /\ pnAt \in 1..8 /\ pnAt' = pnAt + 1 /\ pnAt' \in 1..9
      /\ UNCHANGED <<pnApp, pnPc, pnExisting, pnAppAside, pnAppOn, pnCount, pnPrior, pnFate, pnKilled>>
  BY <1>0, PnFacts, PnOrder DEF PnRestore
<1>2. \/ /\ m \in pnExisting
         /\ pnPath' = [pnPath EXCEPT ![m] = pnBackup[m]] /\ pnBackup' = [pnBackup EXCEPT ![m] = PnNone]
      \/ m \notin pnExisting /\ UNCHANGED <<pnPath, pnBackup>>
  BY <1>0 DEF PnRestore
<1>3. /\ pnPath' \in [PnPaths -> PnFiles] /\ pnBackup' \in [PnPaths -> PnFiles]
      /\ m \in pnExisting => pnPath'[m] = pnBackup[m]
      /\ m \notin pnExisting => pnPath'[m] = pnPath[m]
      /\ \A x \in PnPaths : x # m => pnPath'[x] = pnPath[x] /\ pnBackup'[x] = pnBackup[x]
  BY <1>2, PnFacts
<1>4. PnWorldOK'
  BY <1>1, <1>3, PnFacts DEF PnWorldOK
<1>5. PnRestoring'
  <2>1. /\ pnFate \in {"rolled back", "cut short"}
        /\ pnFate = "rolled back" => pnApp = pnPrior.app
        /\ \A i \in 1..8 :
             IF i < pnAt THEN pnFate = "rolled back" => pnPath[PnManaged[i]] = pnPrior.path[PnManaged[i]]
             ELSE /\ pnPath[PnManaged[i]] = PnNone
                  /\ (pnFate = "rolled back" => PnAside(PnManaged[i]))
        /\ pnFate = "cut short" => "record" \notin pnExisting /\ pnPath["record"] = PnNone
    BY <1>1 DEF PnInv, PnRestoring
  <2>2. pnPath[m] = PnNone /\ (pnFate = "rolled back" => PnAside(m))
    <3>1. ~(pnAt < pnAt)
      BY <1>1
    <3> QED  BY <1>0, <1>1, <2>1, <3>1
  <2>3. pnFate = "rolled back" => pnPath'[m] = pnPrior.path[m]
    BY <1>3, <2>2 DEF PnAside
  <2>4. ASSUME NEW i \in 1..8
        PROVE  IF i < pnAt' THEN pnFate = "rolled back" => pnPath'[PnManaged[i]] = pnPrior.path[PnManaged[i]]
               ELSE /\ pnPath'[PnManaged[i]] = PnNone
                    /\ (pnFate = "rolled back" => PnAside(PnManaged[i])')
    <3>1. CASE i = pnAt
      <4>1. i < pnAt'
        BY <1>1, <3>1
      <4>2. PnManaged[i] = m
        BY <1>0, <3>1
      <4> QED  BY <2>3, <4>1, <4>2
    <3>2. CASE i # pnAt
      <4>1. PnManaged[i] # m /\ PnManaged[i] \in PnPaths
        BY <1>0, <1>1, <3>2, PnOrder
      <4>2. i < pnAt' <=> i < pnAt
        BY <1>1, <3>2
      <4>3. pnPath'[PnManaged[i]] = pnPath[PnManaged[i]] /\ pnBackup'[PnManaged[i]] = pnBackup[PnManaged[i]]
        BY <1>3, <4>1
      <4>4. PnAside(PnManaged[i])' <=> PnAside(PnManaged[i])
        BY <1>1, <4>3 DEF PnAside
      <4> QED  BY <2>1, <4>2, <4>3, <4>4
    <3> QED  BY <3>1, <3>2
  <2>5. pnFate = "cut short" => pnPath'["record"] = PnNone
    BY <1>3, <2>1, PnFacts
  <2> QED  BY <1>1, <2>1, <2>4, <2>5 DEF PnRestoring
<1>6. ~pnKilled' => PnWhole(pnPrior.path, pnPrior.app)'
  BY <1>1 DEF PnInv, PnWhole
<1> QED  BY <1>1, <1>4, <1>5, <1>6
         DEF PnInv, PnSetting, PnStaging, PnRemoving, PnAllOrNothing, PnSteps

\* The old state is back, or what is left of it has no record.
LEMMA PnEndsRestoring == ASSUME PnInv, PnRestored PROVE PnInv'
<1>1. /\ pnPc = "restore" /\ pnAt = 9 /\ pnPc' = "rest"
      /\ UNCHANGED <<pnPath, pnApp, pnAt, pnBackup, pnExisting, pnAppAside, pnAppOn, pnCount, pnPrior,
                     pnFate, pnKilled>>
  BY PnFacts, PnOrder DEF PnRestored, PnOther
<1>2. \A i \in 1..8 : i < pnAt
  BY <1>1
<1>3. /\ pnFate \in {"rolled back", "cut short"}
      /\ pnFate = "rolled back" => pnApp = pnPrior.app /\ \A m \in PnPaths : pnPath[m] = pnPrior.path[m]
      /\ pnFate = "cut short" => pnPath["record"] = PnNone
  <2>1. /\ pnFate \in {"rolled back", "cut short"}
        /\ pnFate = "rolled back" => pnApp = pnPrior.app
        /\ \A i \in 1..8 : i < pnAt =>
             (pnFate = "rolled back" => pnPath[PnManaged[i]] = pnPrior.path[PnManaged[i]])
        /\ pnFate = "cut short" => pnPath["record"] = PnNone
    BY <1>1 DEF PnInv, PnRestoring
  <2>2. ASSUME pnFate = "rolled back", NEW m \in PnPaths PROVE pnPath[m] = pnPrior.path[m]
    <3>1. PICK i \in 1..8 : m = PnManaged[i]
      BY PnOrder
    <3> QED  BY <1>2, <2>1, <2>2, <3>1
  <2> QED  BY <2>1, <2>2
<1>4. PnWorldOK'
  BY <1>1, PnFacts DEF PnWorldOK
<1>5. pnFate = "rolled back" => pnPath = pnPrior.path /\ pnApp = pnPrior.app
  <2>1. /\ pnPath = [m \in PnPaths |-> pnPath[m]]
        /\ pnPrior.path = [m \in PnPaths |-> pnPrior.path[m]]
    BY PnFacts
  <2>2. pnFate = "rolled back" => [m \in PnPaths |-> pnPath[m]] = [m \in PnPaths |-> pnPrior.path[m]]
    BY <1>3
  <2> QED  BY <1>3, <2>1, <2>2
<1>6. PnAllOrNothing'
  <2>1. pnPrior = [path |-> pnPrior.path, app |-> pnPrior.app]
    BY PnFacts
  <2> QED  BY <1>1, <1>3, <1>5, <2>1 DEF PnAllOrNothing
<1>7. ~pnKilled => PnWhole(pnPrior.path, pnPrior.app)
  BY DEF PnInv
<1>8. ~pnKilled => PnWhole(pnPath, pnApp)
  <2>1. CASE pnFate = "rolled back"
    BY <1>5, <1>7, <2>1 DEF PnWhole
  <2>2. CASE pnFate = "cut short"
    BY <1>3, <2>2 DEF PnWhole
  <2> QED  BY <1>3, <2>1, <2>2
<1>9. ~pnKilled' => PnWhole(pnPrior.path, pnPrior.app)' /\ PnWhole(pnPath, pnApp)'
  BY <1>1, <1>7, <1>8 DEF PnWhole
<1> QED  BY <1>1, <1>4, <1>6, <1>9
         DEF PnInv, PnSetting, PnStaging, PnRemoving, PnRestoring, PnSteps

\* Killed outright.
LEMMA PnDies == ASSUME PnInv, PnKilled PROVE PnInv'
<1>1. /\ pnPc' = "rest" /\ pnFate' = "killed" /\ pnKilled' = TRUE
      /\ UNCHANGED <<pnPath, pnApp, pnAt, pnBackup, pnExisting, pnAppAside, pnAppOn, pnCount, pnPrior>>
  BY DEF PnKilled
<1>2. PnWorldOK'
  BY <1>1, PnFacts DEF PnWorldOK
<1> QED  BY <1>1, <1>2
         DEF PnInv, PnSetting, PnStaging, PnRemoving, PnRestoring, PnSteps, PnAllOrNothing

\* Every step keeps the invariant.
LEMMA PnStep == ASSUME PnInv, [PnNext]_pnVars PROVE PnInv'
<1>1. CASE UNCHANGED pnVars
  <2>1. UNCHANGED <<pnPath, pnApp, pnPc, pnAt, pnBackup, pnExisting, pnAppAside, pnAppOn, pnCount,
                    pnPrior, pnFate, pnKilled>>
    BY <1>1 DEF pnVars
  <2>2. (\A m \in PnPaths : PnAside(m)' <=> PnAside(m)) /\ (PnAllAside' <=> PnAllAside)
    BY <2>1 DEF PnAllAside, PnAside
  <2>3. \A i \in 1..8 : PnAside(PnManaged[i])' <=> PnAside(PnManaged[i])
    BY <2>2, PnOrder
  <2>4. PnWorldOK' /\ PnAllOrNothing'
    BY <2>1 DEF PnInv, PnWorldOK, PnAllOrNothing
  <2>5. PnSetting'
    BY <2>1, <2>3 DEF PnInv, PnSetting
  <2>6. PnStaging'
    BY <2>1, <2>2 DEF PnInv, PnStaging
  <2>7. PnRemoving'
    BY <2>1, <2>2 DEF PnInv, PnRemoving, PnBroken
  <2>8. PnRestoring'
    BY <2>1, <2>3 DEF PnInv, PnRestoring
  <2>9. PnWhole(pnPrior.path, pnPrior.app)' <=> PnWhole(pnPrior.path, pnPrior.app)
    BY <2>1 DEF PnWhole
  <2>10. PnWhole(pnPath, pnApp)' <=> PnWhole(pnPath, pnApp)
    BY <2>1 DEF PnWhole
  <2> QED  BY <2>1, <2>4, <2>5, <2>6, <2>7, <2>8, <2>9, <2>10 DEF PnInv
<1>2. CASE PnStart \/ PnSetAside \/ PnSetAppAside
  BY <1>2, PnOpens, PnSetsAside, PnSetsAppAside
<1>3. CASE \/ PnStageProfiles \/ PnStageKernel \/ PnStageCodexHome \/ PnStageNamedHomes
           \/ PnInstallPackages \/ PnStagePreset \/ PnLinkKernelRuntime \/ PnLinkKernelBundle
           \/ PnLinkShared \/ PnStageControlPlane
  BY <1>3, PnStagesAll
<1>4. CASE PnVerify \/ PnStageApp \/ PnRecord \/ PnCommit
  BY <1>4, PnVerifies, PnStagesApp, PnRecords, PnCommits
<1>5. CASE PnFails \/ PnRemove \/ PnRestoreApp \/ PnRestore \/ PnRestored \/ PnKilled
  BY <1>5, PnTrapped, PnRemoves, PnRestoresApp, PnRestores, PnEndsRestoring, PnDies
<1> QED  BY <1>1, <1>2, <1>3, <1>4, <1>5 DEF PnNext

\* An install of the pinned harness that ends by itself is whole or undone, and
\* a record stands beside a whole harness unless an install was killed outright:
\* scripts/install-deepseek-harness-pin.sh, its EXIT trap included.
THEOREM PinsAreWhole == PnSpec => []PnSafe
<1>1. PnInit => PnInv
  BY PnInitInv
<1>2. PnInv /\ [PnNext]_pnVars => PnInv'
  BY PnStep
<1>3. PnInv => PnSafe
  <2> SUFFICES ASSUME PnInv PROVE PnSafe
    OBVIOUS
  <2>1. Len(PnManaged) + 1 = 9
    BY PnOrder
  <2>2. PnTypeOK
    BY <2>1, PnFacts DEF PnTypeOK, PnFiles
  <2>3. PnRecordIsWhole
    BY DEF PnInv, PnRecordIsWhole, PnWhole
  <2> QED  BY <2>2, <2>3 DEF PnSafe, PnInv
<1> QED  BY <1>1, <1>2, <1>3, PTL DEF PnSpec
-----------------------------------------------------------------------------
(* The clean-up of the machine *)

USE McAssumption

\* The rollback target, of any history: the newest line of another release.
McOthers(h, sha) == {i \in DOMAIN h : h[i] # sha}
McBefore(h, sha) == IF McOthers(h, sha) = {} THEN {}
                    ELSE {h[CHOOSE i \in McOthers(h, sha) : \A j \in McOthers(h, sha) : j <= i]}

\* It is what readGcRoots computes, before and after a step.
LEMMA McRollbackIsBefore ==
  /\ McRollbackShas = McBefore(mcHistory, mcActive)
  /\ McRollbackShas' = McBefore(mcHistory', mcActive')
BY DEF McRollbackShas, McPredecessor, McBefore, McOthers

\* The chosen line is a line of another release.
LEMMA McBeforeFacts ==
  ASSUME NEW h \in Seq(McShas), NEW sha
  PROVE  /\ McBefore(h, sha) \subseteq McShas /\ sha \notin McBefore(h, sha)
         /\ McOthers(h, sha) # {} =>
              (CHOOSE i \in McOthers(h, sha) : \A j \in McOthers(h, sha) : j <= i) \in McOthers(h, sha)
<1>1. Len(h) \in Nat /\ DOMAIN h = 1..Len(h) /\ \A i \in 1..Len(h) : h[i] \in McShas
  OBVIOUS
<1>2. McOthers(h, sha) \in SUBSET (1..Len(h))
  BY <1>1 DEF McOthers
<1>3. CASE McOthers(h, sha) = {}
  BY <1>3 DEF McBefore
<1>4. CASE McOthers(h, sha) # {}
  <2>1. \E i \in McOthers(h, sha) : \A j \in McOthers(h, sha) : j <= i
    BY <1>1, <1>2, <1>4, LastPlace
  <2> DEFINE k == CHOOSE i \in McOthers(h, sha) : \A j \in McOthers(h, sha) : j <= i
  <2>2. k \in McOthers(h, sha)
    BY <2>1
  <2>3. k \in 1..Len(h) /\ h[k] # sha
    BY <2>2, <1>1 DEF McOthers
  <2>4. McBefore(h, sha) = {h[k]}
    BY <1>4 DEF McBefore
  <2> HIDE DEF k
  <2>5. McBefore(h, sha) \subseteq McShas /\ sha \notin McBefore(h, sha)
    BY <1>1, <2>3, <2>4
  <2> QED  BY <2>2, <2>5 DEF k
<1> QED  BY <1>3, <1>4

\* The last line, when it is of another release.
LEMMA McBeforeLast ==
  ASSUME NEW h \in Seq(McShas), h # <<>>, NEW sha, h[Len(h)] # sha
  PROVE  McBefore(h, sha) = {h[Len(h)]}
<1>1. Len(h) \in Nat /\ Len(h) # 0 /\ DOMAIN h = 1..Len(h)
  OBVIOUS
<1>2. Len(h) \in 1..Len(h)
  BY <1>1
<1>3. Len(h) \in McOthers(h, sha) /\ \A j \in McOthers(h, sha) : j \in 1..Len(h)
  BY <1>1, <1>2 DEF McOthers
<1>4. \A j \in McOthers(h, sha) : j <= Len(h)
  BY <1>1, <1>3
<1>5. \A i \in McOthers(h, sha) : (\A j \in McOthers(h, sha) : j <= i) => i = Len(h)
  <2> TAKE i \in McOthers(h, sha)
  <2>1. i \in 1..Len(h)
    BY <1>3
  <2>2. (\A j \in McOthers(h, sha) : j <= i) => Len(h) <= i
    BY <1>3
  <2>3. \A n \in Nat : \A k \in 1..n : n <= k => k = n
    OBVIOUS
  <2>4. Len(h) <= i => i = Len(h)
    BY <1>1, <2>1, <2>3
  <2> QED  BY <2>2, <2>4
<1>6. (CHOOSE i \in McOthers(h, sha) : \A j \in McOthers(h, sha) : j <= i) = Len(h)
  BY <1>3, <1>4, <1>5
<1> QED  BY <1>3, <1>6 DEF McBefore

\* A line of the same release changes nothing.
LEMMA McBeforeAppend ==
  ASSUME NEW h \in Seq(McShas), NEW sha \in McShas
  PROVE  McBefore(Append(h, sha), sha) = McBefore(h, sha)
<1> DEFINE g == Append(h, sha)
<1>1. /\ Len(h) \in Nat /\ DOMAIN h = 1..Len(h) /\ DOMAIN g = 1..Len(h) + 1
      /\ g[Len(h) + 1] = sha /\ \A i \in 1..Len(h) : g[i] = h[i]
  OBVIOUS
<1> HIDE DEF g
<1>2. \A i \in 1..Len(h) + 1 : i \in 1..Len(h) \/ i = Len(h) + 1
  BY <1>1
<1>3. \A i \in 1..Len(h) : i \in 1..Len(h) + 1
  BY <1>1
<1>4. McOthers(g, sha) = McOthers(h, sha)
  BY <1>1, <1>2, <1>3 DEF McOthers
<1>5. \A i \in McOthers(h, sha) : g[i] = h[i]
  BY <1>1 DEF McOthers
<1> QED
  <2>1. CASE McOthers(h, sha) = {}
    BY <1>4, <2>1 DEF McBefore, g
  <2>2. CASE McOthers(h, sha) # {}
    <3> DEFINE k == CHOOSE i \in McOthers(h, sha) : \A j \in McOthers(h, sha) : j <= i
    <3>1. k \in McOthers(h, sha)
      BY <2>2, McBeforeFacts
    <3>2. McBefore(g, sha) = {g[k]} /\ McBefore(h, sha) = {h[k]}
      BY <1>4, <2>2 DEF McBefore
    <3> HIDE DEF k
    <3> QED  BY <1>5, <3>1, <3>2 DEF g
  <2> QED  BY <2>1, <2>2

\* At the start one release is installed.
LEMMA McInitInv == McInit => McInv
<1> SUFFICES ASSUME McInit PROVE McInv
  OBVIOUS
<1>1. /\ mcTree = {McFirst} /\ mcVms = {McFirst} /\ mcActive = McFirst /\ mcWorker = McFirst
      /\ mcHistory = <<McFirst>> /\ mcInst = McNoInstall /\ mcDropped = {}
      /\ mcArch = [s \in McShas |-> "none"] /\ mcRun = [r \in 1..McRuns |-> "none"]
      /\ mcOld = {} /\ mcLive = 0 /\ mcGuest = {} /\ mcCl = [c \in McCleaners |-> McQuiet]
  BY DEF McInit
<1>2. McQuiet \in McPlan /\ McNoInstall \in McInstall /\ McNoInstall.pc = "idle" /\ McNoInstall.made = {}
  BY DEF McQuiet, McPlan, McNoInstall, McInstall
<1>3. mcHistory \in Seq(McShas) /\ mcHistory # <<>> /\ Len(mcHistory) = 1 /\ mcHistory[1] = McFirst
  BY <1>1
<1>4. McRollbackShas = {}
  BY <1>1, <1>3 DEF McRollbackShas, McPredecessor
<1>5. McWorld
  BY <1>1, <1>2, <1>3 DEF McWorld
<1>6. McRootsThere
  BY <1>1, <1>2, <1>3, <1>4 DEF McRootsThere, McNeeded
<1>7. \A c \in McCleaners : McPlanOK(mcCl[c])
  BY <1>1 DEF McQuiet, McPlanOK
<1> QED  BY <1>1, <1>5, <1>6, <1>7 DEF McInv, McNewestOnly

\* The types.
LEMMA McFacts ==
  ASSUME McInv
  PROVE  /\ McWorld /\ Len(mcHistory) \in Nat \ {0} /\ mcHistory[Len(mcHistory)] \in McShas
         /\ McNeeded \subseteq McShas /\ mcActive \in McNeeded
         /\ \A c \in McCleaners : mcCl[c] \in McPlan /\ McPlanOK(mcCl[c])
<1>1. McWorld /\ mcHistory \in Seq(McShas) /\ mcHistory # <<>> /\ mcActive \in McShas
  BY DEF McInv, McWorld
<1>2. Len(mcHistory) \in Nat \ {0} /\ mcHistory[Len(mcHistory)] \in McShas
  BY <1>1
<1>3. McRollbackShas \subseteq McShas
  BY <1>1, McRollbackIsBefore, McBeforeFacts
<1> QED  BY <1>1, <1>2, <1>3 DEF McNeeded, McInv, McWorld

\* As long as active release and history stay, so do the roots.
LEMMA McSameNeeded ==
  ASSUME UNCHANGED <<mcActive, mcHistory>>
  PROVE  McNeeded' = McNeeded
BY McRollbackIsBefore DEF McNeeded

\* The plans stay good while roots and plans stay and no run goes.
LEMMA McSamePlans ==
  ASSUME McInv, McNeeded' = McNeeded, mcCl' = mcCl,
         \A n \in 1..McRuns : mcRun[n] # "none" => mcRun'[n] # "none"
  PROVE  \A c \in McCleaners : McPlanOK(mcCl[c])'
<1> SUFFICES ASSUME NEW c \in McCleaners PROVE McPlanOK(mcCl[c])'
  OBVIOUS
<1>1. McPlanOK(mcCl[c]) /\ mcCl[c] \in McPlan
  BY McFacts
<1>2. \A r \in mcCl[c].runs : \A n \in r+1..McRuns : n \in 1..McRuns
  BY <1>1 DEF McPlan
<1> QED  BY <1>1, <1>2 DEF McPlanOK

\* A release is placed.
LEMMA McPlaces == ASSUME McInv, NEW s \in McShas, McPlace(s) PROVE McInv'
<1> DEFINE made == (IF s \in mcTree THEN {} ELSE {"tree"}) \cup (IF s \in mcVms THEN {} ELSE {"vm"})
<1>1. /\ mcInst.pc = "idle"
      /\ mcTree' = mcTree \cup {s} /\ mcVms' = mcVms \cup {s} /\ mcDropped' = mcDropped \ {s}
      /\ mcInst' = [pc |-> "placed", sha |-> s, made |-> made]
      /\ McTogether \/ ~McCleaning
      /\ UNCHANGED <<mcArch, mcActive, mcWorker, mcHistory, mcRun, mcOld, mcLive, mcGuest, mcCl>>
  BY DEF McPlace, mcRoots, mcRunState
<1>2. made \in SUBSET {"tree", "vm"} /\ (made # {} => s \notin mcTree \cap mcVms)
  OBVIOUS
<1> HIDE DEF made
<1>3. mcInst' \in McInstall /\ mcInst'.pc = "placed" /\ mcInst'.sha = s /\ mcInst'.made = made
  BY <1>1, <1>2 DEF McInstall
<1>4. McNeeded' = McNeeded
  BY <1>1, McSameNeeded
<1>5. McWorld'
  BY <1>1, <1>3 DEF McInv, McWorld
<1>6. McRootsThere'
  <2> SUFFICES ASSUME ~McTogether PROVE McRootsThere'
    BY DEF McRootsThere
  <2>1. /\ mcWorker = mcActive /\ McNeeded \subseteq mcTree \cap mcVms
        /\ mcHistory[Len(mcHistory)] = mcActive
    BY <1>1 DEF McInv, McRootsThere
  <2>2. \A c \in McCleaners : mcCl[c].pc = "idle"
    BY <1>1 DEF McCleaning
  <2> QED  BY <1>1, <1>2, <1>3, <1>4, <2>1, <2>2 DEF McRootsThere
<1>7. \A c \in McCleaners : McPlanOK(mcCl[c])'
  BY <1>1, <1>4, McSamePlans
<1> QED  BY <1>1, <1>5, <1>6, <1>7 DEF McInv, McNewestOnly

\* A rollback chooses its target.
LEMMA McRollsBack == ASSUME McInv, McRollback PROVE McInv'
<1>1. PICK s \in McRollbackShas \cap mcTree : mcInst' = [pc |-> "placed", sha |-> s, made |-> {}]
  BY DEF McRollback
<1>2. /\ mcInst.pc = "idle"
      /\ McTogether \/ ~McCleaning
      /\ UNCHANGED <<mcTree, mcArch, mcVms, mcActive, mcWorker, mcHistory, mcRun, mcOld, mcLive, mcGuest,
                     mcCl, mcDropped>>
  BY DEF McRollback, mcRoots, mcRunState, mcDisk
<1>3. s \in McShas /\ s \in McNeeded
  BY <1>1, McFacts DEF McNeeded
<1>4. mcInst' \in McInstall /\ mcInst'.pc = "placed" /\ mcInst'.sha = s /\ mcInst'.made = {}
  BY <1>1, <1>3 DEF McInstall
<1>5. McNeeded' = McNeeded
  BY <1>2, McSameNeeded
<1>6. McWorld'
  BY <1>2, <1>3, <1>4 DEF McInv, McWorld
<1>7. McRootsThere'
  <2> SUFFICES ASSUME ~McTogether PROVE McRootsThere'
    BY DEF McRootsThere
  <2>1. /\ mcWorker = mcActive /\ McNeeded \subseteq mcTree \cap mcVms
        /\ mcHistory[Len(mcHistory)] = mcActive
    BY <1>2 DEF McInv, McRootsThere
  <2>2. \A c \in McCleaners : mcCl[c].pc = "idle"
    BY <1>2 DEF McCleaning
  <2> QED  BY <1>2, <1>3, <1>4, <1>5, <2>1, <2>2 DEF McRootsThere
<1>8. \A c \in McCleaners : McPlanOK(mcCl[c])'
  BY <1>2, <1>5, McSamePlans
<1> QED  BY <1>2, <1>6, <1>7, <1>8 DEF McInv, McNewestOnly

\* The roots move while nobody cleans: the release that was active is the new
\* rollback target.
LEMMA McActivates == ASSUME McInv, McActivate PROVE McInv'
<1>1. /\ mcInst.pc = "placed" /\ mcActive' = mcInst.sha /\ mcWorker' = mcInst.sha
      /\ mcInst' = [mcInst EXCEPT !.pc = "record"]
      /\ UNCHANGED <<mcTree, mcArch, mcVms, mcHistory, mcRun, mcOld, mcLive, mcGuest, mcCl, mcDropped>>
  BY DEF McActivate, mcRunState, mcDisk
<1>2. mcInst \in McInstall /\ mcInst.sha \in McShas
  BY <1>1 DEF McInv, McWorld
<1>3. mcInst' \in McInstall /\ mcInst'.pc = "record" /\ mcInst'.sha = mcInst.sha
  BY <1>1, <1>2 DEF McInstall
<1>4. McWorld'
  BY <1>1, <1>2, <1>3 DEF McInv, McWorld
<1>5. McRootsThere'
  <2> SUFFICES ASSUME ~McTogether PROVE McRootsThere'
    BY DEF McRootsThere
  <2>1. /\ McNeeded \subseteq mcTree \cap mcVms /\ mcHistory[Len(mcHistory)] = mcActive
        /\ mcInst.sha \in mcTree \cap mcVms /\ \A c \in McCleaners : mcCl[c].pc = "idle"
    BY <1>1 DEF McInv, McRootsThere
  <2>2. McRollbackShas' \subseteq mcTree \cap mcVms
    <3>1. McRollbackShas' = McBefore(mcHistory, mcInst.sha)
      BY <1>1, McRollbackIsBefore
    <3>2. CASE mcInst.sha = mcActive
      BY <2>1, <3>1, <3>2, McRollbackIsBefore DEF McNeeded
    <3>3. CASE mcInst.sha # mcActive
      <4>1. McBefore(mcHistory, mcInst.sha) = {mcActive}
        BY <2>1, <3>3, McBeforeLast DEF McInv, McWorld
      <4> QED  BY <2>1, <3>1, <4>1 DEF McNeeded
    <3> QED  BY <3>2, <3>3
  <2>3. McNeeded' \subseteq mcTree \cap mcVms
    BY <1>1, <2>1, <2>2 DEF McNeeded
  <2> QED  BY <1>1, <1>3, <2>1, <2>3 DEF McRootsThere
<1>6. ASSUME NEW c \in McCleaners PROVE McPlanOK(mcCl[c])'
  <2>1. McPlanOK(mcCl[c])
    BY McFacts
  <2>2. ~McTogether => mcCl[c].pc = "idle"
    BY <1>1 DEF McInv, McRootsThere
  <2> QED  BY <1>1, <2>1, <2>2 DEF McPlanOK
<1> QED  BY <1>1, <1>4, <1>5, <1>6 DEF McInv, McNewestOnly

\* The line of the history.
LEMMA McRecords == ASSUME McInv, McRecord PROVE McInv'
<1>1. /\ mcInst.pc = "record" /\ mcHistory' = Append(mcHistory, mcInst.sha) /\ mcInst' = McNoInstall
      /\ UNCHANGED <<mcTree, mcArch, mcVms, mcActive, mcWorker, mcRun, mcOld, mcLive, mcGuest, mcCl,
                     mcDropped>>
  BY DEF McRecord, mcRunState, mcDisk
<1>2. mcInst.sha \in McShas /\ mcHistory \in Seq(McShas) /\ mcActive \in McShas
  BY <1>1 DEF McInv, McWorld
<1>3. /\ mcHistory' \in Seq(McShas) /\ mcHistory' # <<>>
      /\ mcHistory'[Len(mcHistory')] = mcInst.sha
  BY <1>1, <1>2
<1>4. McNoInstall \in McInstall /\ McNoInstall.pc = "idle"
  BY DEF McNoInstall, McInstall
<1>5. McWorld'
  BY <1>1, <1>3, <1>4 DEF McInv, McWorld
<1>6. ~McTogether => mcInst.sha = mcActive /\ McNeeded' = McNeeded
  <2> SUFFICES ASSUME ~McTogether PROVE mcInst.sha = mcActive /\ McNeeded' = McNeeded
    OBVIOUS
  <2>1. mcInst.sha = mcActive
    BY <1>1 DEF McInv, McRootsThere
  <2>2. McBefore(mcHistory', mcActive) = McBefore(mcHistory, mcActive)
    BY <1>1, <1>2, <2>1, McBeforeAppend
  <2> QED  BY <1>1, <2>1, <2>2, McRollbackIsBefore DEF McNeeded
<1>7. McRootsThere'
  BY <1>1, <1>3, <1>4, <1>6 DEF McInv, McRootsThere
<1>8. ASSUME NEW c \in McCleaners PROVE McPlanOK(mcCl[c])'
  <2>1. McPlanOK(mcCl[c])
    BY McFacts
  <2>2. ~McTogether => McNeeded' = McNeeded
    BY <1>6
  <2> QED  BY <1>1, <2>1, <2>2 DEF McPlanOK
<1> QED  BY <1>1, <1>5, <1>7, <1>8 DEF McInv, McNewestOnly

\* A failed install removes what it made, which is no root.
LEMMA McAbandons == ASSUME McInv, McAbandon PROVE McInv'
<1>1. /\ mcInst.pc = "placed" /\ mcInst' = McNoInstall
      /\ mcTree' = IF "tree" \in mcInst.made THEN mcTree \ {mcInst.sha} ELSE mcTree
      /\ mcVms' = IF "vm" \in mcInst.made THEN mcVms \ {mcInst.sha} ELSE mcVms
      /\ mcDropped' = IF "tree" \in mcInst.made THEN mcDropped \cup {mcInst.sha} ELSE mcDropped
      /\ UNCHANGED <<mcArch, mcActive, mcWorker, mcHistory, mcRun, mcOld, mcLive, mcGuest, mcCl>>
  BY DEF McAbandon, mcRoots, mcRunState
<1>2. mcInst.sha \in McShas
  BY <1>1 DEF McInv, McWorld
<1>3. McNoInstall \in McInstall /\ McNoInstall.pc = "idle"
  BY DEF McNoInstall, McInstall
<1>4. McNeeded' = McNeeded
  BY <1>1, McSameNeeded
<1>5. mcTree' \subseteq mcTree /\ mcVms' \subseteq mcVms /\ mcDropped' \subseteq McShas
  BY <1>1, <1>2 DEF McInv, McWorld
<1>6. McWorld'
  BY <1>1, <1>3, <1>5 DEF McInv, McWorld
<1>7. McRootsThere'
  <2> SUFFICES ASSUME ~McTogether PROVE McRootsThere'
    BY DEF McRootsThere
  <2>1. /\ mcWorker = mcActive /\ McNeeded \subseteq mcTree \cap mcVms
        /\ mcHistory[Len(mcHistory)] = mcActive
        /\ mcInst.made # {} => mcInst.sha \notin McNeeded
    BY <1>1 DEF McInv, McRootsThere
  <2>2. McNeeded \subseteq mcTree' \cap mcVms'
    <3>1. CASE mcInst.made = {}
      BY <1>1, <2>1, <3>1
    <3>2. CASE mcInst.made # {}
      BY <1>1, <2>1, <3>2
    <3> QED  BY <3>1, <3>2
  <2> QED  BY <1>1, <1>3, <1>4, <2>1, <2>2 DEF McRootsThere
<1>8. \A c \in McCleaners : McPlanOK(mcCl[c])'
  BY <1>1, <1>4, McSamePlans
<1> QED  BY <1>1, <1>6, <1>7, <1>8 DEF McInv, McNewestOnly

\* A run starts: what was pending is reconciled first.
LEMMA McStarts == ASSUME McInv, NEW r \in 1..McRuns, McRunStarts(r) PROVE McInv'
<1>1. /\ \A n \in r..McRuns : mcRun[n] = "none"
      /\ mcRun' = [n \in 1..McRuns |-> IF n = r THEN "pending"
                                       ELSE IF mcRun[n] = "pending" THEN "terminal" ELSE mcRun[n]]
      /\ mcLive' = r /\ mcGuest' = {r} \cup {n \in mcGuest : mcRun[n] # "pending"}
      /\ UNCHANGED <<mcTree, mcArch, mcVms, mcActive, mcWorker, mcHistory, mcInst, mcOld, mcCl, mcDropped>>
  BY DEF McRunStarts, mcRoots, mcDisk
<1>2. /\ mcRun \in [1..McRuns -> {"none", "pending", "terminal"}] /\ mcGuest \subseteq 1..McRuns
      /\ \A g \in mcGuest : mcRun[g] = "pending"
  BY DEF McInv, McWorld, McNewestOnly
<1>3. mcGuest' = {r}
  BY <1>1, <1>2
<1>4. /\ mcRun' \in [1..McRuns -> {"none", "pending", "terminal"}] /\ mcRun'[r] = "pending"
      /\ \A n \in 1..McRuns : mcRun[n] # "none" => mcRun'[n] # "none"
      /\ \A n \in 1..McRuns : n # r /\ mcRun[n] = "none" => mcRun'[n] = "none"
  BY <1>1, <1>2
<1>5. \A n \in r+1..McRuns : n \in 1..McRuns /\ n \in r..McRuns /\ n # r
  OBVIOUS
<1>6. McNeeded' = McNeeded
  BY <1>1, McSameNeeded
<1>7. mcLive' \in 0..McRuns
  BY <1>1
<1>8. McWorld'
  BY <1>1, <1>3, <1>4, <1>7 DEF McInv, McWorld
<1>9. McNewestOnly'
  BY <1>1, <1>3, <1>4, <1>5 DEF McNewestOnly
<1>10. McRootsThere'
  BY <1>1, <1>6 DEF McInv, McRootsThere
<1>11. \A c \in McCleaners : McPlanOK(mcCl[c])'
  BY <1>1, <1>4, <1>6, McSamePlans
<1> QED  BY <1>8, <1>9, <1>10, <1>11 DEF McInv

\* A run ends, or is killed and leaves its paths behind.
LEMMA McEnds == ASSUME McInv, McRunEnds PROVE McInv'
<1>1. /\ mcLive # 0 /\ mcLive' = 0
      /\ UNCHANGED <<mcTree, mcArch, mcVms, mcActive, mcWorker, mcHistory, mcInst, mcOld, mcCl, mcDropped>>
      /\ \/ mcRun' = [mcRun EXCEPT ![mcLive] = "terminal"] /\ mcGuest' = mcGuest \ {mcLive}
         \/ UNCHANGED <<mcRun, mcGuest>>
  BY DEF McRunEnds, mcRoots, mcDisk
<1>2. /\ mcRun \in [1..McRuns -> {"none", "pending", "terminal"}] /\ mcGuest \subseteq 1..McRuns
      /\ mcLive \in mcGuest
      /\ \A g \in mcGuest : mcRun[g] = "pending" /\ \A n \in g+1..McRuns : mcRun[n] = "none"
  BY <1>1 DEF McInv, McWorld, McNewestOnly
<1>3. mcGuest' \subseteq mcGuest /\ mcRun' \in [1..McRuns -> {"none", "pending", "terminal"}]
  BY <1>1, <1>2
<1>4. \A n \in 1..McRuns : /\ mcRun[n] # "none" => mcRun'[n] # "none"
                           /\ mcRun[n] = "none" => mcRun'[n] = "none"
                           /\ n \in mcGuest' => mcRun'[n] = "pending"
  BY <1>1, <1>2
<1>5. \A g \in 1..McRuns : \A n \in g+1..McRuns : n \in 1..McRuns
  OBVIOUS
<1>6. McNeeded' = McNeeded
  BY <1>1, McSameNeeded
<1>7. 0 \in 0..McRuns
  OBVIOUS
<1>8. McWorld'
  BY <1>1, <1>2, <1>3, <1>7 DEF McInv, McWorld
<1>9. McNewestOnly'
  BY <1>1, <1>2, <1>3, <1>4, <1>5 DEF McNewestOnly
<1>10. McRootsThere'
  BY <1>1, <1>6 DEF McInv, McRootsThere
<1>11. \A c \in McCleaners : McPlanOK(mcCl[c])'
  BY <1>1, <1>4, <1>6, McSamePlans
<1> QED  BY <1>8, <1>9, <1>10, <1>11 DEF McInv

\* Runs age.
LEMMA McAges == ASSUME McInv, McAge PROVE McInv'
<1>1. PICK r \in 1..McRuns : mcOld' = mcOld \cup 1..r
  BY DEF McAge
<1>2. UNCHANGED <<mcTree, mcArch, mcVms, mcActive, mcWorker, mcHistory, mcInst, mcRun, mcLive, mcGuest,
                  mcCl, mcDropped>>
  BY DEF McAge, mcRoots, mcDisk
<1>3. mcOld' \subseteq 1..McRuns
  BY <1>1 DEF McInv, McWorld
<1>4. McNeeded' = McNeeded
  BY <1>2, McSameNeeded
<1>5. McWorld'
  BY <1>2, <1>3 DEF McInv, McWorld
<1>6. McRootsThere'
  BY <1>2, <1>4 DEF McInv, McRootsThere
<1>7. \A c \in McCleaners : McPlanOK(mcCl[c])'
  BY <1>2, <1>4, McSamePlans
<1> QED  BY <1>2, <1>5, <1>6, <1>7 DEF McInv, McNewestOnly

\* A planned run that is removed has a newer one, so that it is not the newest,
\* and whoever relied on it can rely on that one.
LEMMA McRunsStay ==
  ASSUME McInv, NEW c \in McCleaners,
         \/ mcRun' = mcRun
         \/ mcCl[c].pc = "apply" /\ \E r \in mcCl[c].runs : mcRun' = [mcRun EXCEPT ![r] = "none"]
  PROVE  /\ mcRun' \in [1..McRuns -> {"none", "pending", "terminal"}]
         /\ \A q \in 1..McRuns : (\E n \in q+1..McRuns : mcRun[n] # "none")
                                   => \E n \in q+1..McRuns : mcRun'[n] # "none"
         /\ \A g \in mcGuest : mcRun'[g] = mcRun[g]
         /\ \A n \in 1..McRuns : mcRun[n] = "none" => mcRun'[n] = "none"
<1>1. /\ mcRun \in [1..McRuns -> {"none", "pending", "terminal"}] /\ mcGuest \subseteq 1..McRuns
      /\ \A g \in mcGuest : mcRun[g] = "pending" /\ \A n \in g+1..McRuns : mcRun[n] = "none"
  BY DEF McInv, McWorld, McNewestOnly
<1>2. CASE mcRun' = mcRun
  BY <1>1, <1>2
<1>3. CASE mcCl[c].pc = "apply" /\ \E r \in mcCl[c].runs : mcRun' = [mcRun EXCEPT ![r] = "none"]
  <2>1. PICK r \in mcCl[c].runs : mcRun' = [mcRun EXCEPT ![r] = "none"]
    BY <1>3
  <2>2. PICK m \in r+1..McRuns : mcRun[m] # "none"
    BY <1>3, <2>1, McFacts DEF McPlanOK
  <2>3. r \in 1..McRuns
    BY McFacts DEF McPlan
  <2>4. m \in 1..McRuns /\ m # r
    BY <2>2, <2>3
  <2>5. /\ mcRun' \in [1..McRuns -> {"none", "pending", "terminal"}] /\ mcRun'[r] = "none"
        /\ \A n \in 1..McRuns : n # r => mcRun'[n] = mcRun[n]
    BY <1>1, <2>1, <2>3
  <2>6. r \notin mcGuest
    BY <1>1, <2>2
  <2>7. ASSUME NEW q \in 1..McRuns, NEW n \in q+1..McRuns, mcRun[n] # "none"
        PROVE  \E k \in q+1..McRuns : mcRun'[k] # "none"
    <3>1. n \in 1..McRuns
      BY <2>7
    <3>2. CASE n # r
      BY <2>5, <2>7, <3>1, <3>2
    <3>3. CASE n = r
      <4>1. m \in q+1..McRuns
        BY <2>2, <2>3, <2>7, <3>3
      <4> QED  BY <2>2, <2>4, <2>5, <4>1
    <3> QED  BY <3>2, <3>3
  <2> QED  BY <1>1, <2>3, <2>5, <2>6, <2>7
<1> QED  BY <1>2, <1>3

\* One cleaner moves.
LEMMA McCleanerMoves ==
  ASSUME McInv, NEW c \in McCleaners, NEW p \in McPlan,
         mcCl' = [mcCl EXCEPT ![c] = p], McPlanOK(p)',
         McTogether \/ mcInst.pc = "idle",
         UNCHANGED <<mcActive, mcWorker, mcHistory, mcInst, mcOld, mcLive, mcGuest>>,
         mcTree' \subseteq mcTree, mcVms' \subseteq mcVms, mcDropped' \subseteq McShas,
         mcArch' \in [McShas -> {"none", "part", "full"}],
         ~McTogether => McNeeded \subseteq mcTree' \cap mcVms',
         \/ mcRun' = mcRun
         \/ mcCl[c].pc = "apply" /\ \E r \in mcCl[c].runs : mcRun' = [mcRun EXCEPT ![r] = "none"]
  PROVE  McInv'
<1>1. McNeeded' = McNeeded
  BY McSameNeeded
<1>2. /\ mcRun' \in [1..McRuns -> {"none", "pending", "terminal"}]
      /\ \A q \in 1..McRuns : (\E n \in q+1..McRuns : mcRun[n] # "none")
                                => \E n \in q+1..McRuns : mcRun'[n] # "none"
      /\ \A g \in mcGuest : mcRun'[g] = mcRun[g]
      /\ \A n \in 1..McRuns : mcRun[n] = "none" => mcRun'[n] = "none"
  BY McRunsStay
<1>3. mcCl \in [McCleaners -> McPlan]
  BY DEF McInv, McWorld
<1>4. /\ mcCl' \in [McCleaners -> McPlan] /\ mcCl'[c] = p
      /\ \A d \in McCleaners : d # c => mcCl'[d] = mcCl[d]
  BY <1>3
<1>5. McWorld'
  BY <1>2, <1>4 DEF McInv, McWorld
<1>6. McRootsThere'
  BY <1>1 DEF McInv, McRootsThere
<1>7. McNewestOnly'
  <2>1. \A g \in 1..McRuns : \A n \in g+1..McRuns : n \in 1..McRuns
    OBVIOUS
  <2>2. mcGuest \subseteq 1..McRuns
    BY DEF McInv, McWorld
  <2> QED  BY <1>2, <2>1, <2>2 DEF McInv, McNewestOnly
<1>8. ASSUME NEW d \in McCleaners PROVE McPlanOK(mcCl[d])'
  <2>1. CASE d = c
    <3>1. mcCl'[d] = p
      BY <1>4, <2>1
    <3> QED  BY <3>1 DEF McPlanOK
  <2>2. CASE d # c
    <3>1. mcCl'[d] = mcCl[d] /\ McPlanOK(mcCl[d]) /\ mcCl[d].runs \subseteq 1..McRuns
      BY <1>4, <2>2, McFacts DEF McPlan
    <3> QED  BY <1>1, <1>2, <3>1 DEF McPlanOK
  <2> QED  BY <2>1, <2>2
<1> QED  BY <1>5, <1>6, <1>7, <1>8 DEF McInv

\* A plan of which something is done is still good.
LEMMA McSmallerPlan ==
  ASSUME McInv, NEW c \in McCleaners, NEW p \in McPlan,
         UNCHANGED <<mcActive, mcHistory>>,
         mcCl[c].pc \in {"apply", "tar", "reclaim"},
         p.vms \subseteq mcCl[c].vms, p.rels \subseteq mcCl[c].rels,
         p.runs \subseteq mcCl[c].runs, p.compact \subseteq mcCl[c].compact,
         (p.cur = McNone) = (p.pc \notin {"tar", "reclaim"}),
         p.pc = "apply" \/ p.cur \in p.compact,
         \/ mcRun' = mcRun
         \/ mcCl[c].pc = "apply" /\ \E r \in mcCl[c].runs : mcRun' = [mcRun EXCEPT ![r] = "none"]
  PROVE  McPlanOK(p)'
<1>1. McNeeded' = McNeeded
  BY McSameNeeded
<1>2. \A q \in 1..McRuns : (\E n \in q+1..McRuns : mcRun[n] # "none")
                             => \E n \in q+1..McRuns : mcRun'[n] # "none"
  BY McRunsStay
<1>3. /\ ~McTogether => (mcCl[c].vms \cup mcCl[c].rels \cup mcCl[c].compact) \cap McNeeded = {}
      /\ \A r \in mcCl[c].runs : \E n \in r+1..McRuns : mcRun[n] # "none"
  BY McFacts DEF McPlanOK
<1>4. p.runs \subseteq 1..McRuns
  BY DEF McPlan
<1>5. \A r \in p.runs : \E n \in r+1..McRuns : mcRun'[n] # "none"
  BY <1>2, <1>3, <1>4
<1>6. ~McTogether => (p.vms \cup p.rels \cup p.compact) \cap McNeeded = {}
  BY <1>3
<1> QED  BY <1>1, <1>5, <1>6 DEF McPlanOK

\* What a cleaner at work knows.
LEMMA McWorking ==
  ASSUME McInv, NEW c \in McCleaners, mcCl[c].pc # "idle"
  PROVE  /\ McTogether \/ mcInst.pc = "idle"
         /\ ~McTogether => McNeeded \subseteq mcTree \cap mcVms /\ mcWorker = mcActive
         /\ mcTree \subseteq McShas /\ mcDropped \subseteq McShas
         /\ mcArch \in [McShas -> {"none", "part", "full"}]
         /\ mcCl[c] \in McPlan /\ McPlanOK(mcCl[c])
BY McFacts DEF McInv, McRootsThere, McWorld

\* The workers are listed.
LEMMA McLists == ASSUME McInv, NEW c \in McCleaners, NEW a \in BOOLEAN, McList(c, a) PROVE McInv'
<1>1. PICK listed \in {mcVms, {}} :
        mcCl' = [mcCl EXCEPT ![c] = [McQuiet EXCEPT !.pc = "scan", !.vms = listed, !.aggressive = a]]
  BY DEF McList
<1>2. /\ McTogether \/ mcInst.pc = "idle"
      /\ UNCHANGED <<mcTree, mcArch, mcVms, mcActive, mcWorker, mcHistory, mcInst, mcRun, mcOld, mcLive,
                     mcGuest, mcDropped>>
  BY DEF McList, mcRoots, mcRunState, mcDisk
<1>3. PICK p \in McPlan : mcCl' = [mcCl EXCEPT ![c] = p] /\ p.pc = "scan" /\ p.cur = McNone
  <2>1. listed \subseteq McShas
    BY <1>1 DEF McInv, McWorld
  <2>2. [McQuiet EXCEPT !.pc = "scan", !.vms = listed, !.aggressive = a] \in McPlan
    BY <2>1 DEF McQuiet, McPlan
  <2> QED  BY <1>1, <2>2 DEF McQuiet
<1>4. McPlanOK(p)'
  BY <1>3 DEF McPlanOK
<1>5. /\ ~McTogether => McNeeded \subseteq mcTree \cap mcVms
      /\ mcDropped \subseteq McShas /\ mcArch \in [McShas -> {"none", "part", "full"}]
  BY DEF McInv, McWorld, McRootsThere
<1> QED  BY <1>2, <1>3, <1>4, <1>5, McCleanerMoves

\* The plan names what the inventory says now.
LEMMA McScans == ASSUME McInv, NEW c \in McCleaners, McScan(c) PROVE McInv'
<1> DEFINE cold == {s \in mcTree : McCold(s)}
           q == [mcCl[c] EXCEPT !.pc = "apply",
                                !.vms = {s \in mcCl[c].vms : McOrphanVm(s)},
                                !.rels = IF mcCl[c].aggressive THEN cold ELSE {},
                                !.runs = {r \in 1..McRuns : McExpiredRun(r)},
                                !.compact = IF mcCl[c].aggressive THEN {} ELSE cold]
<1>1. /\ mcCl[c].pc = "scan" /\ mcCl' = [mcCl EXCEPT ![c] = q]
      /\ UNCHANGED <<mcTree, mcArch, mcVms, mcActive, mcWorker, mcHistory, mcInst, mcRun, mcOld, mcLive,
                     mcGuest, mcDropped>>
  BY DEF McScan, mcRoots, mcRunState, mcDisk
<1>2. /\ McTogether \/ mcInst.pc = "idle"
      /\ ~McTogether => McNeeded \subseteq mcTree \cap mcVms
      /\ mcTree \subseteq McShas /\ mcDropped \subseteq McShas
      /\ mcArch \in [McShas -> {"none", "part", "full"}]
      /\ mcCl[c] \in McPlan /\ McPlanOK(mcCl[c])
  BY <1>1, McWorking
<1>3. cold \subseteq McShas /\ cold \cap McNeeded = {}
  BY <1>2 DEF McCold, McNeeded
<1>4. {s \in mcCl[c].vms : McOrphanVm(s)} \cap McNeeded = {}
  BY DEF McOrphanVm, McNeeded
<1>5. \A r \in {r \in 1..McRuns : McExpiredRun(r)} : \E n \in r+1..McRuns : mcRun[n] # "none"
  <2> SUFFICES ASSUME NEW r \in 1..McRuns, McExpiredRun(r) PROVE \E n \in r+1..McRuns : mcRun[n] # "none"
    OBVIOUS
  <2>1. PICK newer \in SUBSET {n \in r+1..McRuns : mcRun[n] # "none"} :
          \E f \in [1..McKeepNewest -> newer] : TRUE
    BY DEF McExpiredRun
  <2>2. 1 \in 1..McKeepNewest
    OBVIOUS
  <2> QED  BY <2>1, <2>2
<1>6. PICK p \in McPlan :
        /\ mcCl' = [mcCl EXCEPT ![c] = p] /\ p.pc = "apply" /\ p.cur = McNone
        /\ (p.vms \cup p.rels \cup p.compact) \cap McNeeded = {}
        /\ \A r \in p.runs : \E n \in r+1..McRuns : mcRun[n] # "none"
  <2>1. mcCl[c].cur = McNone
    BY <1>1, <1>2 DEF McPlanOK
  <2>2. /\ q.pc = "apply" /\ q.cur = McNone
        /\ q.vms = {s \in mcCl[c].vms : McOrphanVm(s)}
        /\ q.rels \in {{}, cold} /\ q.compact \in {{}, cold}
        /\ q.runs = {r \in 1..McRuns : McExpiredRun(r)}
    BY <1>2, <2>1 DEF McPlan
  <2>3. q \in McPlan
    <3>1. {s \in mcCl[c].vms : McOrphanVm(s)} \subseteq McShas
      BY <1>2 DEF McPlan
    <3> HIDE DEF cold
    <3> QED  BY <1>2, <1>3, <3>1 DEF McPlan
  <2> HIDE DEF q, cold
  <2>4. (q.vms \cup q.rels \cup q.compact) \cap McNeeded = {}
    BY <1>3, <1>4, <2>2
  <2>5. \A r \in q.runs : \E n \in r+1..McRuns : mcRun[n] # "none"
    BY <1>5, <2>2
  <2> QED  BY <1>1, <2>2, <2>3, <2>4, <2>5
<1>7. McPlanOK(p)'
  <2>1. McNeeded' = McNeeded
    BY <1>1, McSameNeeded
  <2> QED  BY <1>1, <1>6, <2>1 DEF McPlanOK
<1> HIDE DEF cold, q
<1> QED  BY <1>1, <1>2, <1>6, <1>7, McCleanerMoves

\* A worker is removed, or its removal fails.
LEMMA McRemovesVm == ASSUME McInv, NEW c \in McCleaners, McRemoveVm(c) PROVE McInv'
<1>1. PICK s \in mcCl[c].vms : /\ mcCl' = [mcCl EXCEPT ![c].vms = @ \ {s}]
                               /\ mcVms' \in {mcVms, mcVms \ {s}}
  BY DEF McRemoveVm
<1>2. /\ mcCl[c].pc = "apply"
      /\ UNCHANGED <<mcTree, mcArch, mcActive, mcWorker, mcHistory, mcInst, mcRun, mcOld, mcLive,
                     mcGuest, mcDropped>>
  BY DEF McRemoveVm, mcRoots, mcRunState
<1>3. /\ McTogether \/ mcInst.pc = "idle"
      /\ ~McTogether => McNeeded \subseteq mcTree \cap mcVms
      /\ mcTree \subseteq McShas /\ mcDropped \subseteq McShas
      /\ mcArch \in [McShas -> {"none", "part", "full"}]
      /\ mcCl[c] \in McPlan /\ McPlanOK(mcCl[c])
  BY <1>2, McWorking
<1>4. PICK p \in McPlan :
        /\ mcCl' = [mcCl EXCEPT ![c] = p] /\ p.pc = "apply" /\ p.cur = McNone
        /\ p.vms \subseteq mcCl[c].vms /\ p.rels \subseteq mcCl[c].rels
        /\ p.runs \subseteq mcCl[c].runs /\ p.compact \subseteq mcCl[c].compact
  <2> DEFINE q == [mcCl[c] EXCEPT !.vms = @ \ {s}]
  <2>1. mcCl' = [mcCl EXCEPT ![c] = q]
    BY <1>1
  <2>2. /\ q \in McPlan /\ q.pc = "apply" /\ q.cur = mcCl[c].cur /\ q.vms \subseteq mcCl[c].vms
        /\ q.rels = mcCl[c].rels /\ q.runs = mcCl[c].runs /\ q.compact = mcCl[c].compact
    BY <1>2, <1>3 DEF McPlan
  <2>3. mcCl[c].cur = McNone
    BY <1>2, <1>3 DEF McPlanOK
  <2> HIDE DEF q
  <2> QED  BY <2>1, <2>2, <2>3
<1>5. McPlanOK(p)'
  BY <1>2, <1>4, McSmallerPlan
<1>6. ~McTogether => McNeeded \subseteq mcTree' \cap mcVms'
  BY <1>1, <1>2, <1>3 DEF McPlanOK
<1> QED  BY <1>1, <1>2, <1>3, <1>4, <1>5, <1>6, McCleanerMoves

\* A snapshot is removed.
LEMMA McRemovesRelease == ASSUME McInv, NEW c \in McCleaners, McRemoveRelease(c) PROVE McInv'
<1>1. PICK s \in mcCl[c].rels : /\ mcCl' = [mcCl EXCEPT ![c].rels = @ \ {s}]
                                /\ mcTree' = mcTree \ {s} /\ mcDropped' = mcDropped \cup {s}
  BY DEF McRemoveRelease
<1>2. /\ mcCl[c].pc = "apply"
      /\ UNCHANGED <<mcVms, mcArch, mcActive, mcWorker, mcHistory, mcInst, mcRun, mcOld, mcLive, mcGuest>>
  BY DEF McRemoveRelease, mcRoots, mcRunState
<1>3. /\ McTogether \/ mcInst.pc = "idle"
      /\ ~McTogether => McNeeded \subseteq mcTree \cap mcVms
      /\ mcTree \subseteq McShas /\ mcDropped \subseteq McShas
      /\ mcArch \in [McShas -> {"none", "part", "full"}]
      /\ mcCl[c] \in McPlan /\ McPlanOK(mcCl[c])
  BY <1>2, McWorking
<1>4. PICK p \in McPlan :
        /\ mcCl' = [mcCl EXCEPT ![c] = p] /\ p.pc = "apply" /\ p.cur = McNone
        /\ p.vms \subseteq mcCl[c].vms /\ p.rels \subseteq mcCl[c].rels
        /\ p.runs \subseteq mcCl[c].runs /\ p.compact \subseteq mcCl[c].compact
  <2> DEFINE q == [mcCl[c] EXCEPT !.rels = @ \ {s}]
  <2>1. mcCl' = [mcCl EXCEPT ![c] = q]
    BY <1>1
  <2>2. /\ q \in McPlan /\ q.pc = "apply" /\ q.cur = mcCl[c].cur /\ q.vms = mcCl[c].vms
        /\ q.rels \subseteq mcCl[c].rels /\ q.runs = mcCl[c].runs /\ q.compact = mcCl[c].compact
    BY <1>2, <1>3 DEF McPlan
  <2>3. mcCl[c].cur = McNone
    BY <1>2, <1>3 DEF McPlanOK
  <2> HIDE DEF q
  <2> QED  BY <2>1, <2>2, <2>3
<1>5. McPlanOK(p)'
  BY <1>2, <1>4, McSmallerPlan
<1>6. ~McTogether => McNeeded \subseteq mcTree' \cap mcVms'
  BY <1>1, <1>2, <1>3 DEF McPlanOK
<1>7. mcDropped' \subseteq McShas
  BY <1>1, <1>3 DEF McPlan
<1> QED  BY <1>1, <1>2, <1>3, <1>4, <1>5, <1>6, <1>7, McCleanerMoves

\* A run directory is removed.
LEMMA McRemovesRun == ASSUME McInv, NEW c \in McCleaners, McRemoveRun(c) PROVE McInv'
<1>1. PICK r \in mcCl[c].runs : /\ mcCl' = [mcCl EXCEPT ![c].runs = @ \ {r}]
                                /\ mcRun' = [mcRun EXCEPT ![r] = "none"]
  BY DEF McRemoveRun
<1>2. /\ mcCl[c].pc = "apply"
      /\ UNCHANGED <<mcTree, mcVms, mcArch, mcActive, mcWorker, mcHistory, mcInst, mcOld, mcLive, mcGuest,
                     mcDropped>>
  BY DEF McRemoveRun, mcRoots, mcDisk
<1>3. /\ McTogether \/ mcInst.pc = "idle"
      /\ ~McTogether => McNeeded \subseteq mcTree \cap mcVms
      /\ mcTree \subseteq McShas /\ mcDropped \subseteq McShas
      /\ mcArch \in [McShas -> {"none", "part", "full"}]
      /\ mcCl[c] \in McPlan /\ McPlanOK(mcCl[c])
  BY <1>2, McWorking
<1>4. PICK p \in McPlan :
        /\ mcCl' = [mcCl EXCEPT ![c] = p] /\ p.pc = "apply" /\ p.cur = McNone
        /\ p.vms \subseteq mcCl[c].vms /\ p.rels \subseteq mcCl[c].rels
        /\ p.runs \subseteq mcCl[c].runs /\ p.compact \subseteq mcCl[c].compact
  <2> DEFINE q == [mcCl[c] EXCEPT !.runs = @ \ {r}]
  <2>1. mcCl' = [mcCl EXCEPT ![c] = q]
    BY <1>1
  <2>2. /\ q \in McPlan /\ q.pc = "apply" /\ q.cur = mcCl[c].cur /\ q.vms = mcCl[c].vms
        /\ q.rels = mcCl[c].rels /\ q.runs \subseteq mcCl[c].runs /\ q.compact = mcCl[c].compact
    BY <1>2, <1>3 DEF McPlan
  <2>3. mcCl[c].cur = McNone
    BY <1>2, <1>3 DEF McPlanOK
  <2> HIDE DEF q
  <2> QED  BY <2>1, <2>2, <2>3
<1>5. mcCl[c].pc = "apply" /\ \E x \in mcCl[c].runs : mcRun' = [mcRun EXCEPT ![x] = "none"]
  BY <1>1, <1>2
<1>6. McPlanOK(p)'
  BY <1>2, <1>4, <1>5, McSmallerPlan
<1> QED  BY <1>2, <1>3, <1>4, <1>5, <1>6, McCleanerMoves

\* The next cold snapshot is taken in hand.
LEMMA McArchives == ASSUME McInv, NEW c \in McCleaners, McArchive(c) PROVE McInv'
<1>1. PICK s \in mcCl[c].compact :
        IF mcArch[s] # "none"
        THEN mcCl' = [mcCl EXCEPT ![c].pc = "reclaim", ![c].cur = s] /\ UNCHANGED mcArch
        ELSE /\ mcCl' = [mcCl EXCEPT ![c].pc = "tar", ![c].cur = s]
             /\ mcArch' = [mcArch EXCEPT ![s] = "part"]
  BY DEF McArchive
<1>2. /\ mcCl[c].pc = "apply"
      /\ UNCHANGED <<mcTree, mcVms, mcActive, mcWorker, mcHistory, mcInst, mcRun, mcOld, mcLive, mcGuest,
                     mcDropped>>
  BY DEF McArchive, mcRoots, mcRunState
<1>3. /\ McTogether \/ mcInst.pc = "idle"
      /\ ~McTogether => McNeeded \subseteq mcTree \cap mcVms
      /\ mcTree \subseteq McShas /\ mcDropped \subseteq McShas
      /\ mcArch \in [McShas -> {"none", "part", "full"}]
      /\ mcCl[c] \in McPlan /\ McPlanOK(mcCl[c])
  BY <1>2, McWorking
<1>4. s \in McShas /\ s # McNone
  BY <1>3 DEF McPlan
<1>5. PICK p \in McPlan :
        /\ mcCl' = [mcCl EXCEPT ![c] = p] /\ p.pc \in {"tar", "reclaim"} /\ p.cur = s
        /\ p.vms \subseteq mcCl[c].vms /\ p.rels \subseteq mcCl[c].rels
        /\ p.runs \subseteq mcCl[c].runs /\ p.compact = mcCl[c].compact
  <2>1. PICK pc \in {"tar", "reclaim"} : mcCl' = [mcCl EXCEPT ![c].pc = pc, ![c].cur = s]
    BY <1>1
  <2> DEFINE q == [mcCl[c] EXCEPT !.pc = pc, !.cur = s]
  <2>2. mcCl' = [mcCl EXCEPT ![c] = q]
    BY <2>1
  <2>3. /\ q \in McPlan /\ q.pc = pc /\ q.cur = s /\ q.vms = mcCl[c].vms
        /\ q.rels = mcCl[c].rels /\ q.runs = mcCl[c].runs /\ q.compact = mcCl[c].compact
    BY <1>3, <1>4 DEF McPlan
  <2> HIDE DEF q
  <2> QED  BY <2>1, <2>2, <2>3
<1>6. McPlanOK(p)'
  BY <1>2, <1>4, <1>5, McSmallerPlan
<1>7. mcArch' \in [McShas -> {"none", "part", "full"}]
  BY <1>1, <1>3
<1> QED  BY <1>2, <1>3, <1>5, <1>6, <1>7, McCleanerMoves

\* tar ends, one way or the other.
LEMMA McEndsTar == ASSUME McInv, NEW c \in McCleaners, McTarEnds(c) PROVE McInv'
<1> DEFINE s == mcCl[c].cur
<1>1. /\ mcCl[c].pc = "tar"
      /\ UNCHANGED <<mcTree, mcVms, mcActive, mcWorker, mcHistory, mcInst, mcRun, mcOld, mcLive, mcGuest,
                     mcDropped>>
      /\ \/ /\ mcArch' = [mcArch EXCEPT ![s] = "full"]
            /\ mcCl' = [mcCl EXCEPT ![c].pc = "reclaim"]
         \/ /\ mcCl' = [mcCl EXCEPT ![c].pc = "apply", ![c].cur = McNone, ![c].compact = @ \ {s}]
            /\ UNCHANGED mcArch
  BY DEF McTarEnds, mcRoots, mcRunState
<1>2. /\ McTogether \/ mcInst.pc = "idle"
      /\ ~McTogether => McNeeded \subseteq mcTree \cap mcVms
      /\ mcTree \subseteq McShas /\ mcDropped \subseteq McShas
      /\ mcArch \in [McShas -> {"none", "part", "full"}]
      /\ mcCl[c] \in McPlan /\ McPlanOK(mcCl[c])
  BY <1>1, McWorking
<1>3. s \in mcCl[c].compact /\ s # McNone
  BY <1>1, <1>2 DEF McPlanOK
<1>4. PICK p \in McPlan :
        /\ mcCl' = [mcCl EXCEPT ![c] = p]
        /\ p.vms \subseteq mcCl[c].vms /\ p.rels \subseteq mcCl[c].rels
        /\ p.runs \subseteq mcCl[c].runs /\ p.compact \subseteq mcCl[c].compact
        /\ (p.cur = McNone) = (p.pc \notin {"tar", "reclaim"})
        /\ p.pc = "apply" \/ p.cur \in p.compact
  <2>1. CASE mcCl' = [mcCl EXCEPT ![c].pc = "reclaim"]
    <3> DEFINE q == [mcCl[c] EXCEPT !.pc = "reclaim"]
    <3>1. mcCl' = [mcCl EXCEPT ![c] = q]
      BY <2>1
    <3>2. /\ q \in McPlan /\ q.pc = "reclaim" /\ q.cur = s /\ q.vms = mcCl[c].vms
          /\ q.rels = mcCl[c].rels /\ q.runs = mcCl[c].runs /\ q.compact = mcCl[c].compact
      BY <1>2 DEF McPlan
    <3> HIDE DEF q
    <3> QED  BY <1>3, <3>1, <3>2
  <2>2. CASE mcCl' = [mcCl EXCEPT ![c].pc = "apply", ![c].cur = McNone, ![c].compact = @ \ {s}]
    <3> DEFINE q == [mcCl[c] EXCEPT !.pc = "apply", !.cur = McNone, !.compact = @ \ {s}]
    <3>1. mcCl' = [mcCl EXCEPT ![c] = q]
      BY <2>2
    <3>2. /\ q \in McPlan /\ q.pc = "apply" /\ q.cur = McNone /\ q.vms = mcCl[c].vms
          /\ q.rels = mcCl[c].rels /\ q.runs = mcCl[c].runs /\ q.compact \subseteq mcCl[c].compact
      BY <1>2 DEF McPlan
    <3> HIDE DEF q
    <3> QED  BY <3>1, <3>2
  <2> QED  BY <1>1, <2>1, <2>2
<1>5. McPlanOK(p)'
  BY <1>1, <1>4, McSmallerPlan
<1>6. mcArch' \in [McShas -> {"none", "part", "full"}]
  BY <1>1, <1>2
<1> QED  BY <1>1, <1>2, <1>4, <1>5, <1>6, McCleanerMoves

\* The tree of an archived snapshot is removed; it is no root.
LEMMA McReclaims == ASSUME McInv, NEW c \in McCleaners, McReclaim(c) PROVE McInv'
<1> DEFINE s == mcCl[c].cur
<1>1. /\ mcCl[c].pc = "reclaim"
      /\ UNCHANGED <<mcArch, mcVms, mcActive, mcWorker, mcHistory, mcInst, mcRun, mcOld, mcLive, mcGuest,
                     mcDropped>>
      /\ mcTree' \in {mcTree, mcTree \ {s}}
      /\ mcCl' = [mcCl EXCEPT ![c].pc = "apply", ![c].cur = McNone, ![c].compact = @ \ {s}]
  BY DEF McReclaim, mcRoots, mcRunState
<1>2. /\ McTogether \/ mcInst.pc = "idle"
      /\ ~McTogether => McNeeded \subseteq mcTree \cap mcVms
      /\ mcTree \subseteq McShas /\ mcDropped \subseteq McShas
      /\ mcArch \in [McShas -> {"none", "part", "full"}]
      /\ mcCl[c] \in McPlan /\ McPlanOK(mcCl[c])
  BY <1>1, McWorking
<1>3. s \in mcCl[c].compact /\ (~McTogether => s \notin McNeeded)
  BY <1>1, <1>2 DEF McPlanOK
<1>4. PICK p \in McPlan :
        /\ mcCl' = [mcCl EXCEPT ![c] = p] /\ p.pc = "apply" /\ p.cur = McNone
        /\ p.vms \subseteq mcCl[c].vms /\ p.rels \subseteq mcCl[c].rels
        /\ p.runs \subseteq mcCl[c].runs /\ p.compact \subseteq mcCl[c].compact
  <2> DEFINE q == [mcCl[c] EXCEPT !.pc = "apply", !.cur = McNone, !.compact = @ \ {s}]
  <2>1. mcCl' = [mcCl EXCEPT ![c] = q]
    BY <1>1
  <2>2. /\ q \in McPlan /\ q.pc = "apply" /\ q.cur = McNone /\ q.vms = mcCl[c].vms
        /\ q.rels = mcCl[c].rels /\ q.runs = mcCl[c].runs /\ q.compact \subseteq mcCl[c].compact
    BY <1>2 DEF McPlan
  <2> HIDE DEF q
  <2> QED  BY <2>1, <2>2
<1>5. McPlanOK(p)'
  BY <1>1, <1>4, McSmallerPlan
<1>6. mcTree' \subseteq mcTree /\ (~McTogether => McNeeded \subseteq mcTree' \cap mcVms')
  BY <1>1, <1>2, <1>3
<1> QED  BY <1>1, <1>2, <1>4, <1>5, <1>6, McCleanerMoves

\* A cleaner is done or dies.
LEMMA McStops == ASSUME McInv, NEW c \in McCleaners, McCleanEnds(c) PROVE McInv'
<1>1. /\ mcCl[c].pc # "idle" /\ mcCl' = [mcCl EXCEPT ![c] = McQuiet]
      /\ UNCHANGED <<mcTree, mcArch, mcVms, mcActive, mcWorker, mcHistory, mcInst, mcRun, mcOld, mcLive,
                     mcGuest, mcDropped>>
  BY DEF McCleanEnds, mcRoots, mcRunState, mcDisk
<1>2. /\ McTogether \/ mcInst.pc = "idle"
      /\ ~McTogether => McNeeded \subseteq mcTree \cap mcVms
      /\ mcTree \subseteq McShas /\ mcDropped \subseteq McShas
      /\ mcArch \in [McShas -> {"none", "part", "full"}]
  BY <1>1, McWorking
<1>3. PICK p \in McPlan : mcCl' = [mcCl EXCEPT ![c] = p] /\ p.pc = "idle" /\ p.cur = McNone
  <2>1. McQuiet \in McPlan /\ McQuiet.pc = "idle" /\ McQuiet.cur = McNone
    BY DEF McQuiet, McPlan
  <2> QED  BY <1>1, <2>1
<1>4. McPlanOK(p)'
  BY <1>3 DEF McPlanOK
<1> QED  BY <1>1, <1>2, <1>3, <1>4, McCleanerMoves

\* Every step keeps the invariant.
LEMMA McStep == ASSUME McInv, [McNext]_mcVars PROVE McInv'
<1>1. CASE UNCHANGED mcVars
  <2>1. UNCHANGED <<mcTree, mcArch, mcVms, mcActive, mcWorker, mcHistory, mcInst, mcRun, mcOld, mcLive,
                    mcGuest, mcCl, mcDropped>>
    BY <1>1 DEF mcVars, mcDisk, mcRoots, mcRunState
  <2>2. McNeeded' = McNeeded
    BY <2>1, McSameNeeded
  <2>3. McWorld' /\ McNewestOnly'
    BY <2>1 DEF McInv, McWorld, McNewestOnly
  <2>4. McRootsThere'
    BY <2>1, <2>2 DEF McInv, McRootsThere
  <2>5. \A c \in McCleaners : McPlanOK(mcCl[c])'
    BY <2>1, <2>2, McSamePlans
  <2> QED  BY <2>1, <2>3, <2>4, <2>5 DEF McInv
<1>2. CASE (\E s \in McShas : McPlace(s)) \/ McRollback \/ McActivate \/ McRecord \/ McAbandon
  BY <1>2, McPlaces, McRollsBack, McActivates, McRecords, McAbandons
<1>3. CASE (\E r \in 1..McRuns : McRunStarts(r)) \/ McRunEnds \/ McAge
  BY <1>3, McStarts, McEnds, McAges
<1>4. ASSUME NEW c \in McCleaners,
             \/ \E aggressive \in BOOLEAN : McList(c, aggressive)
             \/ McScan(c) \/ McRemoveVm(c) \/ McRemoveRelease(c) \/ McRemoveRun(c)
             \/ McArchive(c) \/ McTarEnds(c) \/ McReclaim(c) \/ McCleanEnds(c)
      PROVE  McInv'
  BY <1>4, McLists, McScans, McRemovesVm, McRemovesRelease, McRemovesRun, McArchives, McEndsTar,
     McReclaims, McStops
<1> QED  BY <1>1, <1>2, <1>3, <1>4 DEF McNext

\* No clean-up takes the snapshot or the worker of the installed release, the
\* snapshot of the rollback target, or the manifest of a run whose guest paths
\* are still to be removed, however many cleaners work and wherever they die, as
\* long as no installer works beside one: planCleanup and applyCleanup
\* (src/resources/cleanup.ts), classifyResource (src/resources/inventory.ts).
THEOREM CleanupIsSafe == McSpec => []McSafe
<1>1. McInv => McSafe
  <2> SUFFICES ASSUME McInv PROVE McSafe
    OBVIOUS
  <2>1. McTypeOK
    <3>1. /\ mcTree \subseteq McShas /\ mcVms \subseteq McShas
          /\ mcArch \in [McShas -> {"none", "part", "full"}]
          /\ mcActive \in McShas /\ mcWorker \in McShas /\ mcHistory \in Seq(McShas)
          /\ mcRun \in [1..McRuns -> {"none", "pending", "terminal"}]
          /\ mcOld \subseteq 1..McRuns /\ mcLive \in 0..McRuns /\ mcGuest \subseteq 1..McRuns
          /\ mcDropped \subseteq McShas /\ mcInst \in McInstall
      BY DEF McInv, McWorld
    <3>2. mcInst.pc \in {"idle", "placed", "record"}
      BY <3>1 DEF McInstall
    <3>3. \A c \in McCleaners : /\ mcCl[c].pc \in {"idle", "scan", "apply", "tar", "reclaim"}
                                /\ (mcCl[c].cur = McNone) = (mcCl[c].pc \notin {"tar", "reclaim"})
      BY McFacts DEF McPlan, McPlanOK
    <3> QED  BY <3>1, <3>2, <3>3 DEF McTypeOK
  <2>2. McRootsKept
    BY McFacts DEF McInv, McRootsThere, McNeeded, McRootsKept
  <2>3. McPendingRunKept
    BY DEF McInv, McNewestOnly, McPendingRunKept
  <2> QED  BY <2>1, <2>2, <2>3 DEF McSafe
<1> QED  BY <1>1, McInitInv, McStep, PTL DEF McSpec
=============================================================================
