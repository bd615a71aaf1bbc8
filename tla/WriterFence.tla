---------------------------- MODULE WriterFence ----------------------------
(***************************************************************************)
(* The repository writer fence (src/src/supervisor/                         *)
(* repository-writer-fence.ts) at the granularity of its file operations,   *)
(* and the two kinds of caller it has: an integration owner that takes the  *)
(* fence, passes it to a worker and commits under it, and a worker that     *)
(* takes a fence of its own (src/src/supervisor/worker.ts, runWorker).      *)
(*                                                                          *)
(* The lock is a file: whoever unlinks it by name removes whatever file has *)
(* the name at that moment.                                                 *)
(***************************************************************************)
EXTENDS Naturals

CONSTANTS WfProcs,        \* processes that may write one source tree
          WfMaxCrashes,   \* bound: processes that may die
          WfNone, WfDead  \* no file; the pid of a process that is gone

ASSUME WfAssumption == WfMaxCrashes \in Nat /\ WfNone \notin WfProcs
                          /\ WfDead \notin WfProcs /\ WfNone # WfDead

VARIABLES
  wfLock,       \* the lock file: who created it, is its text there, is it old
  wfContended,  \* does the contention file exist
  wfPc,         \* where each process is
  wfKind,       \* "owner" or "worker"
  wfMarked,     \* history: a refusal was recorded since p had the fence
  wfTheft,      \* history: a file of a live process was unlinked
  wfLeaked,     \* history: processes that left a rejected call with a fence
  wfCrashes

wfVars == <<wfLock, wfContended, wfPc, wfKind, wfMarked, wfTheft, wfLeaked, wfCrashes>>

WfNoFile == [by |-> WfNone, text |-> FALSE, old |-> FALSE]
WfFile == [by : WfProcs \cup {WfNone, WfDead}, text : BOOLEAN, old : BOOLEAN]
WfPcs == {"idle", "unlink", "create", "write", "clear", "held", "running",
          "asserted", "release"}

\* The states in which a process may change the source tree or its records.
WfHolds(p) == wfPc[p] \in {"held", "running", "asserted"}

WfInit == /\ wfLock = WfNoFile
          /\ wfContended = FALSE
          /\ wfPc = [p \in WfProcs |-> "idle"]
          /\ wfKind = [p \in WfProcs |-> "owner"]
          /\ wfMarked = [p \in WfProcs |-> FALSE]
          /\ wfTheft = FALSE
          /\ wfLeaked = {}
          /\ wfCrashes = 0

\* markContention: an append to the contention file, seen by every holder.
WfMark == /\ wfContended' = TRUE
          /\ wfMarked' = [q \in WfProcs |-> wfMarked[q] \/ WfHolds(q)]

WfGo(p, pc) == wfPc' = [wfPc EXCEPT ![p] = pc]

\* A young file, and a file that names a living pid, refuse the caller.
WfRefuses == wfLock.by # WfNone /\ (~wfLock.old \/ (wfLock.text /\ wfLock.by # WfDead))

\* The first look: refused, on to the unlink of a stale file, or on to openSync.
WfLook(p, kind) ==
  /\ wfPc[p] = "idle"
  /\ wfKind' = [wfKind EXCEPT ![p] = kind]
  /\ \/ /\ WfRefuses
        /\ WfMark /\ WfGo(p, "idle")
     \/ /\ ~WfRefuses
        /\ WfGo(p, IF wfLock.by = WfNone THEN "create" ELSE "unlink")
        /\ UNCHANGED <<wfContended, wfMarked>>
  /\ UNCHANGED <<wfLock, wfTheft, wfLeaked, wfCrashes>>

\* unlinkSync(lock) by name; it throws when the file is gone already.
WfUnlink(p) ==
  /\ wfPc[p] = "unlink"
  /\ WfGo(p, IF wfLock.by = WfNone THEN "idle" ELSE "create")
  /\ wfTheft' = (wfTheft \/ wfLock.by \in WfProcs)
  /\ wfLock' = WfNoFile
  /\ UNCHANGED <<wfContended, wfKind, wfMarked, wfLeaked, wfCrashes>>

\* Slip: the lock file is opened without the exclusive flag.
WfCreate_NotExclusive(p) ==
  /\ wfPc[p] = "create"
  /\ \/ /\ TRUE
        /\ wfLock' = [by |-> p, text |-> FALSE, old |-> FALSE]
        /\ WfGo(p, "write")
        /\ UNCHANGED <<wfContended, wfMarked>>
     \/ /\ wfLock.by # WfNone
        /\ WfMark /\ WfGo(p, "idle")
        /\ UNCHANGED wfLock
  /\ UNCHANGED <<wfKind, wfTheft, wfLeaked, wfCrashes>>

\* openSync(lock, 'wx'): exclusive creation, or contention.
WfCreate(p) ==
  /\ wfPc[p] = "create"
  /\ \/ /\ wfLock.by = WfNone
        /\ wfLock' = [by |-> p, text |-> FALSE, old |-> FALSE]
        /\ WfGo(p, "write")
        /\ UNCHANGED <<wfContended, wfMarked>>
     \/ /\ wfLock.by # WfNone
        /\ WfMark /\ WfGo(p, "idle")
        /\ UNCHANGED wfLock
  /\ UNCHANGED <<wfKind, wfTheft, wfLeaked, wfCrashes>>

\* The text goes to the open file, whatever has its name by now.
WfWrite(p) ==
  /\ wfPc[p] = "write"
  /\ wfLock' = IF wfLock.by = p THEN [wfLock EXCEPT !.text = TRUE] ELSE wfLock
  /\ WfGo(p, "clear")
  /\ UNCHANGED <<wfContended, wfKind, wfMarked, wfTheft, wfLeaked, wfCrashes>>

\* The contention recorded before this owner is dropped; the fence is held.
WfClear(p) ==
  /\ wfPc[p] = "clear"
  /\ wfContended' = FALSE
  /\ wfMarked' = [wfMarked EXCEPT ![p] = FALSE]
  /\ WfGo(p, "held")
  /\ UNCHANGED <<wfLock, wfKind, wfTheft, wfLeaked, wfCrashes>>

WfMine(p) == wfLock.by = p /\ wfLock.text

\* assertUncontended: an owner's worker starts only under an unbroken fence;
\* otherwise the call throws and the owner's finally block releases.
WfDispatch(p) ==
  /\ wfPc[p] = "held" /\ wfKind[p] = "owner"
  /\ WfGo(p, IF WfMine(p) /\ ~wfContended THEN "running" ELSE "release")
  /\ UNCHANGED <<wfLock, wfContended, wfKind, wfMarked, wfTheft, wfLeaked, wfCrashes>>

\* A worker with its own fence asks for a resource lease: it is granted, the
\* wait gives up (the finally block releases), or it is rejected, and that
\* early return comes before the try block.
WfAskLease(p) ==
  /\ wfPc[p] = "held" /\ wfKind[p] = "worker"
  /\ \/ WfGo(p, "running") /\ UNCHANGED wfLeaked
     \/ WfGo(p, "release") /\ UNCHANGED wfLeaked
     \/ WfGo(p, "idle") /\ wfLeaked' = wfLeaked \cup {p}
  /\ UNCHANGED <<wfLock, wfContended, wfKind, wfMarked, wfTheft, wfCrashes>>

\* The provider is done. A worker releases; an owner may commit: the assertion
\* of commitSqlite, then the last look at the contention file and COMMIT.
WfWorkDone(p) ==
  /\ wfPc[p] = "running"
  /\ WfGo(p, IF wfKind[p] = "owner" /\ WfMine(p) /\ ~wfContended THEN "asserted" ELSE "release")
  /\ UNCHANGED <<wfLock, wfContended, wfKind, wfMarked, wfTheft, wfLeaked, wfCrashes>>

WfCommit(p) ==
  /\ wfPc[p] = "asserted" /\ ~wfContended
  /\ WfGo(p, "release")
  /\ UNCHANGED <<wfLock, wfContended, wfKind, wfMarked, wfTheft, wfLeaked, wfCrashes>>

WfCommitRefused(p) ==
  /\ wfPc[p] = "asserted" /\ wfContended
  /\ WfGo(p, "release")
  /\ UNCHANGED <<wfLock, wfContended, wfKind, wfMarked, wfTheft, wfLeaked, wfCrashes>>

\* release(): the file is removed only when it still has this text.
WfRelease(p) ==
  /\ wfPc[p] = "release"
  /\ wfLock' = IF WfMine(p) THEN WfNoFile ELSE wfLock
  /\ WfGo(p, "idle")
  /\ UNCHANGED <<wfContended, wfKind, wfMarked, wfTheft, wfLeaked, wfCrashes>>

\* 30 seconds pass for the lock file.
WfAge ==
  /\ wfLock.by # WfNone /\ ~wfLock.old
  /\ wfLock' = [wfLock EXCEPT !.old = TRUE]
  /\ UNCHANGED <<wfContended, wfPc, wfKind, wfMarked, wfTheft, wfLeaked, wfCrashes>>

\* A process dies at any point; another one takes its place.
WfCrash(p) ==
  /\ wfCrashes < WfMaxCrashes
  /\ wfCrashes' = wfCrashes + 1
  /\ wfLock' = IF wfLock.by = p THEN [wfLock EXCEPT !.by = WfDead] ELSE wfLock
  /\ wfLeaked' = wfLeaked \ {p}
  /\ WfGo(p, "idle")
  /\ UNCHANGED <<wfContended, wfKind, wfMarked, wfTheft>>

WfStep(p) == \/ \E kind \in {"owner", "worker"} : WfLook(p, kind)
             \/ WfUnlink(p) \/ WfCreate(p) \/ WfWrite(p) \/ WfClear(p)
             \/ WfDispatch(p) \/ WfAskLease(p) \/ WfWorkDone(p)
             \/ WfCommit(p) \/ WfCommitRefused(p) \/ WfRelease(p)

WfNext == WfAge \/ \E p \in WfProcs : WfStep(p) \/ WfCrash(p)

WfSpec == WfInit /\ [][WfNext]_wfVars
-----------------------------------------------------------------------------
\* The lock file, the contention file and the processes have their types; a lock
\* file that is not there has no text.
WfTypeOK == /\ wfLock \in WfFile /\ (wfLock.by = WfNone => wfLock = WfNoFile)
            /\ wfContended \in BOOLEAN
            /\ wfPc \in [WfProcs -> WfPcs] /\ wfKind \in [WfProcs -> {"owner", "worker"}]
            /\ wfMarked \in [WfProcs -> BOOLEAN] /\ wfTheft \in BOOLEAN
            /\ wfLeaked \subseteq WfProcs /\ wfCrashes \in 0..WfMaxCrashes

\* The one canonical writer lease of a source tree (tryAcquireRepositoryWriter
\* Fence): two processes hold it together only after two of them had looked at
\* the same dead owner's file and the second unlinked the first one's new file
\* (repository-writer-fence.ts:72).
WfExclusive == wfTheft \/ \A p, q \in WfProcs : WfHolds(p) /\ WfHolds(q) => p = q

\* A live process keeps the lock file while it is idle only when it left
\* runWorker through the rejected resource request (worker.ts:407), and then it
\* does so for ever: every other early return and throw releases the fence.
WfIdleHoldsNothing ==
  \A p \in WfProcs : wfLock.by = p /\ wfPc[p] = "idle" => p \in wfLeaked

\* commitSqlite fails closed: an owner never commits after another writer was
\* refused since the owner had the fence (unless its lock was stolen).
WfContentionFailsClosed ==
  [][\A p \in WfProcs : WfCommit(p) => ~wfMarked[p] \/ wfTheft]_wfVars

\* What the fence promises (tryAcquireRepositoryWriterFence, commitSqlite, runWorker):
\* one writer, nothing left behind, no commit after a refusal.
WfSafe == [](WfTypeOK /\ WfExclusive /\ WfIdleHoldsNothing) /\ WfContentionFailsClosed
-----------------------------------------------------------------------------
(* The inductive invariant of the proofs *)

\* A file has its text once its creator has gone past the write, and a creator
\* that is out of the call with its file there has left through the rejection.
WfFileHasCreator ==
  \A p \in WfProcs : wfLock.by = p =>
    /\ wfPc[p] # "write" => wfLock.text
    /\ wfPc[p] \in {"idle", "unlink", "create"} => p \in wfLeaked

\* Without a theft, who is past the creation has the file, and who holds the
\* fence finds every refusal since in the contention file.
WfHolderHasFile ==
  ~wfTheft => \A p \in WfProcs :
    /\ wfPc[p] \in {"write", "clear", "held", "running", "asserted"} => wfLock.by = p
    /\ WfHolds(p) /\ wfMarked[p] => wfContended

WfInv == WfTypeOK /\ WfFileHasCreator /\ WfHolderHasFile
=============================================================================
