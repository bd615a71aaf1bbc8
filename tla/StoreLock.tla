------------------------------ MODULE StoreLock ------------------------------
(***************************************************************************)
(* The lock file of the JSON stores: withStoreLock of supervisor/resources *)
(* and withSupervisorStateLock of supervisor/state.  A process creates the *)
(* file with O_EXCL; when it exists it looks at the file's age, removes it *)
(* when it is stale, sleeps and tries again until its deadline.  The store *)
(* is read, changed and renamed into place, and the finally block removes  *)
(* the lock file by name, whoever created it.                              *)
(*                                                                         *)
(* An operation of the store is abstracted to the addition of its own      *)
(* identity, so an update is lost when a completed operation is missing.   *)
(***************************************************************************)
EXTENDS Integers, FiniteSets

CONSTANTS
  LockProcs,      \* processes that share the store
  MaxOps,     \* bound: operations per process
  StaleAge,   \* STALE_LOCK_MS
  Deadline,   \* LOCK_TIMEOUT_MS
  CrashFree,  \* no process dies while it holds the lock
  LockPrompt      \* no live holder is suspended for longer than StaleAge

ASSUME StoreLockAssumption ==
  /\ MaxOps \in Nat /\ StaleAge \in Nat /\ Deadline \in Nat
  /\ CrashFree \in BOOLEAN /\ LockPrompt \in BOOLEAN

VARIABLES
  lockPc,       \* where each process is in withStoreLock
  locked,   \* the lock file exists
  age,      \* its age, capped just above StaleAge
  store,    \* the operations the store file reflects
  copy,     \* the store as each process read it
  ops,      \* operations each process has begun
  done,     \* operations whose call returned normally
  lockPatience  \* time left to each process's deadline

lockVars == <<lockPc, locked, age, store, copy, ops, done, lockPatience>>

Holding == {"read", "write", "unlink", "throw"}
Holders == {p \in LockProcs : lockPc[p] \in Holding}
LockStage == {"idle", "open", "stat", "break", "sleep", "dead"} \cup Holding

LockGoto(p, s) == lockPc' = [lockPc EXCEPT ![p] = s]

\* A store operation is called.
Call(p) ==
  /\ lockPc[p] = "idle" /\ ops[p] < MaxOps
  /\ LockGoto(p, "open")
  /\ ops' = [ops EXCEPT ![p] = @ + 1]
  /\ lockPatience' = [lockPatience EXCEPT ![p] = Deadline]
  /\ UNCHANGED <<locked, age, store, copy, done>>

\* Slip: the lock file is opened without O_EXCL.
Open_NotExclusive(p) ==
  /\ lockPc[p] = "open"
  /\ LockGoto(p, "read") /\ locked' = TRUE /\ age' = 0
  /\ UNCHANGED <<store, copy, ops, done, lockPatience>>

\* openSync(path, 'wx')
Open(p) ==
  /\ lockPc[p] = "open"
  /\ IF locked
     THEN LockGoto(p, "stat") /\ UNCHANGED <<locked, age>>
     ELSE LockGoto(p, "read") /\ locked' = TRUE /\ age' = 0
  /\ UNCHANGED <<store, copy, ops, done, lockPatience>>

\* statSync(path): stale, fresh, or gone meanwhile
Stat(p) ==
  /\ lockPc[p] = "stat"
  /\ LockGoto(p, IF locked /\ age > StaleAge THEN "break" ELSE "sleep")
  /\ UNCHANGED <<locked, age, store, copy, ops, done, lockPatience>>

\* unlinkSync(path) of what was stale when it was looked at
BreakStale(p) ==
  /\ lockPc[p] = "break"
  /\ LockGoto(p, "sleep")
  /\ locked' = FALSE /\ age' = 0
  /\ UNCHANGED <<store, copy, ops, done, lockPatience>>

Sleep(p) ==
  /\ lockPc[p] = "sleep"
  /\ LockGoto(p, IF lockPatience[p] = 0 THEN "idle" ELSE "open")
  /\ UNCHANGED <<locked, age, store, copy, ops, done, lockPatience>>

ReadStore(p) ==
  /\ lockPc[p] = "read"
  /\ copy' = [copy EXCEPT ![p] = store]
  /\ LockGoto(p, "write")
  /\ UNCHANGED <<locked, age, store, ops, done, lockPatience>>

\* The operation is applied to the copy and the copy renamed into place.
WriteStore(p) ==
  /\ lockPc[p] = "write"
  /\ store' = copy[p] \cup {<<p, ops[p]>>}
  /\ LockGoto(p, "unlink")
  /\ UNCHANGED <<locked, age, copy, ops, done, lockPatience>>

\* The operation throws and nothing is written.
OperationThrows(p) ==
  /\ lockPc[p] = "write"
  /\ LockGoto(p, "throw")
  /\ UNCHANGED <<locked, age, store, copy, ops, done, lockPatience>>

\* The finally block.
Unlock(p) ==
  /\ lockPc[p] \in {"unlink", "throw"}
  /\ locked' = FALSE /\ age' = 0
  /\ LockGoto(p, "idle")
  /\ done' = IF lockPc[p] = "unlink" THEN done \cup {<<p, ops[p]>>} ELSE done
  /\ UNCHANGED <<store, copy, ops, lockPatience>>

LockCrash(p) ==
  /\ lockPc[p] # "dead"
  /\ CrashFree => p \notin Holders
  /\ LockGoto(p, "dead")
  /\ UNCHANGED <<locked, age, store, copy, ops, done, lockPatience>>

\* Date.now() moves on: the file ages and deadlines come closer.
LockTick ==
  /\ locked \/ \E p \in LockProcs : lockPatience[p] > 0
  /\ LockPrompt /\ locked /\ Holders # {} => age < StaleAge
  /\ age' = IF locked /\ age <= StaleAge THEN age + 1 ELSE age
  /\ lockPatience' = [p \in LockProcs |-> IF lockPatience[p] = 0 THEN 0 ELSE lockPatience[p] - 1]
  /\ UNCHANGED <<lockPc, locked, store, copy, ops, done>>

LockInit ==
  /\ lockPc = [p \in LockProcs |-> "idle"]
  /\ locked = FALSE /\ age = 0
  /\ store = {} /\ done = {}
  /\ copy = [p \in LockProcs |-> {}]
  /\ ops = [p \in LockProcs |-> 0]
  /\ lockPatience = [p \in LockProcs |-> 0]

Step(p) == \/ Open(p) \/ Stat(p) \/ BreakStale(p) \/ Sleep(p)
           \/ ReadStore(p) \/ WriteStore(p) \/ OperationThrows(p) \/ Unlock(p)

LockNext == LockTick \/ \E p \in LockProcs : Call(p) \/ Step(p) \/ LockCrash(p)

LockSpec == LockInit /\ [][LockNext]_lockVars

-----------------------------------------------------------------------------
(* Properties *)

\* Types of the lock file, the store file and the processes.
LockTypeOK ==
  /\ lockPc \in [LockProcs -> LockStage]
  /\ locked \in BOOLEAN /\ age \in Nat
  /\ store \subseteq LockProcs \X Nat /\ done \subseteq LockProcs \X Nat
  /\ copy \in [LockProcs -> SUBSET (LockProcs \X Nat)]
  /\ ops \in [LockProcs -> Nat] /\ lockPatience \in [LockProcs -> Nat]

\* Every store operation whose call returned is in the store file: no holder
\* overwrites it with a copy it had read before.
NoLostUpdate == done \subseteq store

-----------------------------------------------------------------------------
(* The inductive invariant of the proofs, for prompt holders that do not die *)

LockInv ==
  /\ LockTypeOK
  /\ \A p, q \in Holders : p = q
  /\ locked <=> Holders # {}
  /\ locked => age <= StaleAge
  /\ \A p \in LockProcs :
       /\ lockPc[p] # "break"
       /\ lockPc[p] = "write" => copy[p] = store
       /\ lockPc[p] = "unlink" => <<p, ops[p]>> \in store
  /\ NoLostUpdate
=============================================================================
