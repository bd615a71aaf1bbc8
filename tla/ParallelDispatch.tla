-------------------------- MODULE ParallelDispatch --------------------------
(***************************************************************************)
(* The parallel path of a goal cycle (supervisor/parallel-dispatch and     *)
(* runParallelGoalCycle of supervisor/runtime): promote a landed task,     *)
(* recover lapsed claims, pick a batch of tasks with disjoint paths, drive *)
(* each one through a worker in its own worktree, and land the results one *)
(* at a time on the goal checkout.                                         *)
(*                                                                         *)
(* The writer fence of the repository admits one such cycle at a time, so  *)
(* there is one dispatcher, which may die and start again; recovery of     *)
(* lapsed claims is also run by the dispatchers of other repositories on   *)
(* the same database.  A git command is abstracted to its outcome, and the *)
(* commit graph to which results were verified on the current head.        *)
(***************************************************************************)
EXTENDS TaskClaims, Sequences

CONSTANTS
  Overlap,     \* pairs of tasks whose declared paths overlap
  Limit,       \* workers per batch
  MaxCrashes,  \* bound: deaths of the dispatcher
  Prompt,      \* a renewed lease outlives the step the renewal guards
  Neighbours   \* dispatchers of other repositories share the database

ASSUME DispatchAssumption ==
  /\ Overlap \subseteq Tasks \X Tasks
  /\ Limit \in Nat /\ MaxCrashes \in Nat
  /\ Prompt \in BOOLEAN /\ Neighbours \in BOOLEAN

VARIABLES
  mode,      \* where the cycle is: "idle", "promote", "select", "batch"
  pc,        \* where the driver of each task is
  mine,      \* the attempt each driver claimed
  repaired,  \* its one integrator run is spent
  fresh,     \* its branch was rebased on, and verified at, the current head
  mergeq,    \* results waiting for their turn to land
  landings,  \* attempts that were fast-forwarded onto the goal checkout
  crashes

vars == <<dbvars, mode, pc, mine, repaired, fresh, mergeq, landings, crashes>>

Waiting == {"succeeded", "failed", "unusable"}
Landing == {"release", "try", "verified", "ff", "integrate", "landed",
            "record", "close", "park", "parkclose"}
InFlight == {"setup", "handback", "work", "error", "errorclose"} \cup Waiting \cup Landing
Stage == {"idle", "claim"} \cup InFlight

Goto(t, s) == pc' = [pc EXCEPT ![t] = s]

\* The promise of the driver resolves.
Settle(t) ==
  /\ Goto(t, "idle")
  /\ mine' = [mine EXCEPT ![t] = 0]
  /\ repaired' = [repaired EXCEPT ![t] = FALSE]
  /\ fresh' = [fresh EXCEPT ![t] = FALSE]

-----------------------------------------------------------------------------
(* The cycle *)

StartCycle ==
  /\ mode = "idle" /\ mode' = "promote"
  /\ UNCHANGED <<dbvars, pc, mine, repaired, fresh, mergeq, landings, crashes>>

Promote ==
  /\ mode = "promote" /\ mode' = "select"
  /\ \/ \E t \in Tasks : promoteNextLandedTask(t)
     \/ (\A t \in Tasks : ~mayPromote(t)) /\ UNCHANGED dbvars
  /\ UNCHANGED <<pc, mine, repaired, fresh, mergeq, landings, crashes>>

\* A trigger refuses the promotion and the cycle throws.
PromoteThrows ==
  /\ mode = "promote" /\ mode' = "idle"
  /\ \E t \in Tasks : mayPromote(t) /\ ~tasks_status_requires_current_fence(claim, t, 0)
  /\ UNCHANGED <<dbvars, pc, mine, repaired, fresh, mergeq, landings, crashes>>

Clash(t, u) == <<t, u>> \in Overlap \/ <<u, t>> \in Overlap

\* Slip: only equal declarations are taken to overlap.
selectParallelBatch_Equal(queued) ==
  CHOOSE B \in SUBSET queued :
    \A t \in queued : t \in B <=> Cardinality({u \in B : u < t}) < Limit

\* Oldest first, greedily, pairwise disjoint, at most Limit of them
selectParallelBatch(queued) ==
  CHOOSE B \in SUBSET queued :
    \A t \in queued : LET earlier == {u \in B : u < t} IN
      t \in B <=> Cardinality(earlier) < Limit /\ \A u \in earlier : ~Clash(u, t)

\* recoverExpiredClaims, the batch, and the refusals that end the cycle
Select ==
  /\ mode = "select"
  /\ recoverExpiredClaims
  /\ LET B == selectParallelBatch({t \in Tasks : status'[t] = "queued"}) IN
     \/ /\ B # {} /\ mode' = "batch"
        /\ pc' = [t \in Tasks |-> IF t \in B THEN "claim" ELSE "idle"]
     \/ mode' = "idle" /\ UNCHANGED pc
  /\ UNCHANGED <<mine, repaired, fresh, mergeq, landings, crashes>>

\* Promise.all: every driver has settled.
EndBatch ==
  /\ mode = "batch" /\ \A t \in Tasks : pc[t] = "idle"
  /\ mode' = "idle"
  /\ UNCHANGED <<dbvars, pc, mine, repaired, fresh, mergeq, landings, crashes>>

-----------------------------------------------------------------------------
(* One driver; mine[t] is its fence *)

Claim(t) ==
  /\ pc[t] = "claim"
  /\ \/ \E a \in Attempts : /\ claimNextTask(t, a)
                            /\ mine' = [mine EXCEPT ![t] = a]
                            /\ Goto(t, "setup")
     \/ /\ \A a \in Attempts : ~claimable(t, a)
        /\ Goto(t, "idle") /\ UNCHANGED <<dbvars, mine>>
  /\ UNCHANGED <<mode, repaired, fresh, mergeq, landings, crashes>>

\* createTaskWorktree
Setup(t) ==
  /\ pc[t] = "setup"
  /\ Goto(t, "work") \/ Goto(t, "handback")
  /\ UNCHANGED <<dbvars, mode, mine, repaired, fresh, mergeq, landings, crashes>>

\* runTaskWorker returns ("unusable": blocked, or no session identity) or throws
WorkerEnds(t) ==
  /\ pc[t] = "work"
  /\ \/ (\E o \in Waiting : Goto(t, o)) /\ mergeq' = Append(mergeq, t)
     \/ Goto(t, "error") /\ UNCHANGED mergeq
  /\ UNCHANGED <<dbvars, mode, mine, repaired, fresh, landings, crashes>>

\* The interval of the driver; what it throws is swallowed.
Heartbeat(t) ==
  /\ pc[t] \in InFlight
  /\ heartbeatClaim(t, mine[t])
  /\ UNCHANGED <<mode, pc, mine, repaired, fresh, mergeq, landings, crashes>>

\* renew: on to s, or the outer catch of the driver
Renew(t, s) ==
  \/ heartbeatClaim(t, mine[t]) /\ Goto(t, s)
  \/ ~MayRenew(t, mine[t]) /\ UNCHANGED dbvars /\ Goto(t, "error")

\* Slip: landings are not chained on the merge queue.
Land_Unchained(t) ==
  /\ mergeq # <<>> /\ t = Head(mergeq)
  /\ Renew(t, CASE pc[t] = "succeeded" -> "try"
                [] pc[t] = "failed" -> "release"
                [] OTHER -> "park")
  /\ mergeq' = Tail(mergeq)
  /\ UNCHANGED <<mode, mine, repaired, fresh, landings, crashes>>

\* land, when every earlier landing is over
Land(t) ==
  /\ mergeq # <<>> /\ t = Head(mergeq) /\ \A u \in Tasks : pc[u] \notin Landing
  /\ Renew(t, CASE pc[t] = "succeeded" -> "try"
                [] pc[t] = "failed" -> "release"
                [] OTHER -> "park")
  /\ mergeq' = Tail(mergeq)
  /\ UNCHANGED <<mode, mine, repaired, fresh, landings, crashes>>

\* releaseClaim of a failed attempt, inside and outside the merge queue
Release(t) ==
  /\ pc[t] \in {"release", "handback"}
  /\ \/ releaseClaim(t, mine[t], "queued") /\ Settle(t)
     \/ /\ ~(MayClose(t, mine[t]) /\ validateTransition(t, "queued"))
        /\ Goto(t, "error") /\ UNCHANGED <<dbvars, mine, repaired, fresh>>
  /\ UNCHANGED <<mode, mergeq, landings, crashes>>

\* A landing that failed gets one integrator run.
Failed(t) == Goto(t, IF repaired[t] THEN "park" ELSE "integrate")

\* tryLand up to its renewal: commit, rebase, declared paths, verification
TryLand(t) ==
  /\ pc[t] = "try"
  /\ \/ Goto(t, "verified") /\ fresh' = [fresh EXCEPT ![t] = TRUE]
     \/ (Failed(t) \/ Goto(t, "error")) /\ UNCHANGED fresh
  /\ UNCHANGED <<dbvars, mode, mine, repaired, mergeq, landings, crashes>>

\* Slip: the claim is not renewed before the merge.
RenewToLand_Skipped(t) ==
  /\ pc[t] = "verified" /\ Goto(t, "ff")
  /\ UNCHANGED <<dbvars, mode, mine, repaired, fresh, mergeq, landings, crashes>>

RenewToLand(t) ==
  /\ pc[t] = "verified" /\ Renew(t, "ff")
  /\ UNCHANGED <<mode, mine, repaired, fresh, mergeq, landings, crashes>>

\* merge --ff-only
FastForward(t) ==
  /\ pc[t] = "ff"
  /\ \/ /\ fresh[t] /\ Goto(t, "landed")
        /\ landings' = landings \cup {<<t, mine[t]>>}
        /\ fresh' = [u \in Tasks |-> FALSE]
     \/ ~fresh[t] /\ Failed(t) /\ UNCHANGED <<landings, fresh>>
  /\ UNCHANGED <<dbvars, mode, mine, repaired, mergeq, crashes>>

IntegratorEnds(t) ==
  /\ pc[t] = "integrate"
  /\ Renew(t, "try") \/ Renew(t, "park") \/ (Goto(t, "error") /\ UNCHANGED dbvars)
  /\ repaired' = [repaired EXCEPT ![t] = TRUE]
  /\ UNCHANGED <<mode, mine, fresh, mergeq, landings, crashes>>

\* head() and the renewal before the record
RenewLanded(t) ==
  /\ pc[t] = "landed"
  /\ Renew(t, "record") \/ (Goto(t, "error") /\ UNCHANGED dbvars)
  /\ UNCHANGED <<mode, mine, repaired, fresh, mergeq, landings, crashes>>

\* Slip: the record does not present the fence.
Record_Unfenced(t) ==
  /\ pc[t] = "record" /\ Goto(t, "close")
  /\ status' = [status EXCEPT ![t] = "verifying"]
  /\ recorded' = recorded \cup {<<t, mine[t]>>}
  /\ UNCHANGED <<taskFence, claim, mode, mine, repaired, fresh, mergeq, landings, crashes>>

Record(t) ==
  /\ pc[t] = "record"
  /\ \/ recordLanding(t, mine[t]) /\ Goto(t, "close")
     \/ /\ ~MayTransition(claim, t, "verifying", mine[t])
        /\ Goto(t, "error") /\ UNCHANGED dbvars
  /\ UNCHANGED <<mode, mine, repaired, fresh, mergeq, landings, crashes>>

Close(t) ==
  /\ pc[t] = "close"
  /\ \/ completeClaim(t, mine[t]) /\ Settle(t)
     \/ /\ ~MayClose(t, mine[t])
        /\ Goto(t, "error") /\ UNCHANGED <<dbvars, mine, repaired, fresh>>
  /\ UNCHANGED <<mode, mergeq, landings, crashes>>

\* Slip: a result that cannot land is handed back to the queue.
Park_Requeues(t) ==
  /\ pc[t] \in {"park", "error"}
  /\ \/ releaseClaim(t, mine[t], "queued") /\ Settle(t)
     \/ /\ ~(MayClose(t, mine[t]) /\ validateTransition(t, "queued"))
        /\ UNCHANGED dbvars /\ Settle(t)
  /\ UNCHANGED <<mode, mergeq, landings, crashes>>

\* Slip: a parking that the fence refuses is not swallowed.
Park_Insists(t) ==
  /\ pc[t] \in {"park", "error"}
  /\ parkTask(t, mine[t])
  /\ Goto(t, IF pc[t] = "park" THEN "parkclose" ELSE "errorclose")
  /\ UNCHANGED <<mode, mine, repaired, fresh, mergeq, landings, crashes>>

\* park, first transaction; what it throws is swallowed
Park(t) ==
  /\ pc[t] \in {"park", "error"}
  /\ \/ /\ parkTask(t, mine[t])
        /\ Goto(t, IF pc[t] = "park" THEN "parkclose" ELSE "errorclose")
        /\ UNCHANGED <<mine, repaired, fresh>>
     \/ /\ ~MayTransition(claim, t, "needs_decision", mine[t])
        /\ UNCHANGED dbvars /\ Settle(t)
  /\ UNCHANGED <<mode, mergeq, landings, crashes>>

\* park, second transaction
ParkClose(t) ==
  /\ pc[t] \in {"parkclose", "errorclose"}
  /\ \/ completeClaim(t, mine[t])
     \/ ~MayClose(t, mine[t]) /\ UNCHANGED dbvars
  /\ Settle(t)
  /\ UNCHANGED <<mode, mergeq, landings, crashes>>

-----------------------------------------------------------------------------
(* The environment *)

\* Somebody else commits to the goal checkout.
OwnerCommits ==
  /\ \E t \in Tasks : fresh[t]
  /\ fresh' = [t \in Tasks |-> FALSE]
  /\ UNCHANGED <<dbvars, mode, pc, mine, repaired, mergeq, landings, crashes>>

\* The owner's transitions, the grade, and other dispatchers' recovery
Others ==
  /\ \/ \E t \in Tasks : completeTask(t) \/ \E to \in Status : ownerTransition(t, to)
     \/ Neighbours /\ LapsedTasks # {} /\ recoverExpiredClaims
  /\ UNCHANGED <<mode, pc, mine, repaired, fresh, mergeq, landings, crashes>>

\* The dispatcher dies and starts again.
Crash ==
  /\ crashes < MaxCrashes /\ mode # "idle"
  /\ mode' = "idle" /\ mergeq' = <<>> /\ crashes' = crashes + 1
  /\ pc' = [t \in Tasks |-> "idle"] /\ mine' = [t \in Tasks |-> 0]
  /\ repaired' = [t \in Tasks |-> FALSE] /\ fresh' = [t \in Tasks |-> FALSE]
  /\ UNCHANGED <<dbvars, landings>>

Guarded == {"ff", "landed", "record", "close", "park", "parkclose", "error", "errorclose"}

TimePasses ==
  /\ \E t \in Tasks, a \in Attempts : Active(t, a) /\ claim[t][a].left >= 0
  /\ Prompt => \A t \in Tasks : pc[t] \in Guarded /\ Live(t, mine[t]) => claim[t][mine[t]].left > 1
  /\ Tick
  /\ UNCHANGED <<mode, pc, mine, repaired, fresh, mergeq, landings, crashes>>

Init ==
  /\ DbInit
  /\ mode = "idle" /\ mergeq = <<>> /\ landings = {} /\ crashes = 0
  /\ pc = [t \in Tasks |-> "idle"] /\ mine = [t \in Tasks |-> 0]
  /\ repaired = [t \in Tasks |-> FALSE] /\ fresh = [t \in Tasks |-> FALSE]

Cycle == StartCycle \/ Promote \/ PromoteThrows \/ Select \/ EndBatch

Driver(t) ==
  \/ Claim(t) \/ Setup(t) \/ WorkerEnds(t) \/ Land(t) \/ Release(t)
  \/ TryLand(t) \/ RenewToLand(t) \/ FastForward(t) \/ IntegratorEnds(t)
  \/ RenewLanded(t) \/ Record(t) \/ Close(t) \/ Park(t) \/ ParkClose(t)

Next ==
  \/ Cycle \/ OwnerCommits \/ Others \/ Crash \/ TimePasses
  \/ \E t \in Tasks : Driver(t) \/ Heartbeat(t)

Spec == Init /\ [][Next]_vars

\* Cycles go on, every worker and git command ends within its timeout, and
\* time passes.
FairSpec == /\ Spec /\ WF_vars(Cycle) /\ WF_vars(TimePasses)
            /\ \A t \in Tasks : WF_vars(Driver(t))

-----------------------------------------------------------------------------
(* Properties *)

\* Types of the cycle and of its drivers.
TypeOK ==
  /\ DbTypeOK
  /\ mode \in {"idle", "promote", "select", "batch"}
  /\ pc \in [Tasks -> Stage] /\ mine \in [Tasks -> Attempts \cup {0}]
  /\ repaired \in [Tasks -> BOOLEAN] /\ fresh \in [Tasks -> BOOLEAN]
  /\ mergeq \in Seq(Tasks)
  /\ landings \subseteq Tasks \X Attempts /\ crashes \in Nat

\* Landings are serialised: while one result is rebased, verified and merged,
\* no sibling moves the head it was verified at.
OneLanding ==
  \A t, u \in Tasks : pc[t] \in Landing /\ pc[u] \in Landing => t = u

\* Two workers never run at once on tasks whose declared paths overlap, also
\* when an earlier batch left a claim behind.
BatchDisjoint ==
  \A t, u \in Tasks : t # u /\ pc[t] \in InFlight /\ pc[u] \in InFlight => ~Clash(t, u)

\* A lost claim does not land: at the merge the driver holds the live claim.
LostClaimNeverLands == \A t \in Tasks : pc[t] = "ff" => Live(t, mine[t])

\* Work that is on the goal checkout is recorded or parked for the owner: it
\* is never handed back to the queue to be done again.
NoRequeueAfterLanding ==
  [][\A t \in Tasks : status[t] = "running" /\ status'[t] = "queued"
                      => <<t, taskFence[t]>> \notin landings]_vars

\* Every driver of a batch settles, so the cycle ends whatever happened to it.
BatchEnds == mode = "batch" ~> mode = "idle"

\* A claim whose lease lapsed is expired by a later cycle.
LapsedClaimRecovered ==
  \A t \in Tasks : \A a \in Attempts : Lapsed(t, a) ~> ~Active(t, a)

-----------------------------------------------------------------------------
(* The inductive invariant of the proofs *)

DispatchTypes ==
  /\ pc \in [Tasks -> Stage] /\ mine \in [Tasks -> Attempts \cup {0}]
  /\ mergeq \in Seq(Tasks)

\* A driver in flight holds the fence it claimed.
DriversHaveFences == \A t \in Tasks : pc[t] \in InFlight => mine[t] \in Attempts

\* The merge queue holds each waiting driver once.
QueueWaits ==
  /\ \A i \in 1..Len(mergeq) : pc[mergeq[i]] \in Waiting
  /\ \A i, j \in 1..Len(mergeq) : mergeq[i] = mergeq[j] => i = j

\* Drivers exist only during a batch.
DriversInBatch == mode = "batch" \/ \A t \in Tasks : pc[t] = "idle"

DispatchInv ==
  DispatchTypes /\ DriversHaveFences /\ QueueWaits /\ OneLanding /\ DriversInBatch

\* The rest of the types: what only this cycle writes.
CycleTypes ==
  /\ mode \in {"idle", "promote", "select", "batch"}
  /\ repaired \in [Tasks -> BOOLEAN] /\ fresh \in [Tasks -> BOOLEAN]
  /\ landings \subseteq Tasks \X Attempts /\ crashes \in Nat

\* Tasks whose drivers have not settled are disjoint, before the claim already.
DriversApart ==
  \A t, u \in Tasks : t # u /\ pc[t] # "idle" /\ pc[u] # "idle" => ~Clash(t, u)

\* A driver that is about to close its claim has moved its task on.
ClosingMoved ==
  \A t \in Tasks : pc[t] \in {"close", "parkclose", "errorclose"} /\ mine[t] \in Attempts
                     /\ Active(t, mine[t]) => status[t] # "running"

\* Work that landed is in the hands of the driver that landed it, under its
\* live claim, for as long as the task is still said to run.
LandedHeld ==
  \A t \in Tasks, a \in Attempts : <<t, a>> \in landings =>
    /\ claim[t][a].status # "none"
    /\ status[t] = "running" /\ taskFence[t] = a =>
         mine[t] = a /\ pc[t] \in {"landed", "record", "error"} /\ Live(t, a)

\* What holds of a dispatch wherever its process dies: types, disjoint workers,
\* one task in the completion gate, no running task without a claim.
DispatchSafe == TypeOK /\ BatchDisjoint /\ GateHoldsOne /\ RunningIsClaimed
=============================================================================
