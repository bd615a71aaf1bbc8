----------------------------- MODULE TaskClaims -----------------------------
(***************************************************************************)
(* The task table, its lifecycle and the worker claims on it               *)
(* (domain/lifecycle, domain/task-service, domain/claim-service and the    *)
(* fencing triggers of drizzle/0011_complete_worker_fencing.sql).          *)
(*                                                                         *)
(* A claim is the pair of a task and an attempt number.  Whoever knows the *)
(* pair may present it as a fence at any time, so a worker that was        *)
(* suspended or replaced is any action on an attempt that is no longer     *)
(* live.  Every action is one BEGIN IMMEDIATE transaction; one that would  *)
(* throw or hit a trigger rolls back, and is simply not enabled.           *)
(*                                                                         *)
(* A lease is the time left to leaseExpiresAt: live while it is positive,  *)
(* and recoverable only once it is negative (both comparisons in the code  *)
(* are strict).                                                            *)
(***************************************************************************)
EXTENDS Integers, FiniteSets

CONSTANTS
  Tasks,        \* tasks of the project, numbered by createdAt
  MaxAttempts,  \* bound: claims per task
  Lease,        \* leaseMs
  DependsOn,    \* the rows of task_dependencies
  Provable,     \* tasks whose frozen criteria a recorded landing satisfies
  OwnerMoves    \* statuses an unfenced caller of transitionTask asks for

Attempts == 1..MaxAttempts
Status == {"draft", "ready", "queued", "running", "verifying", "reviewing",
           "repairing", "needs_decision", "ready_to_merge", "completed",
           "failed", "cancelled"}
ClaimStatus == {"none", "active", "completed", "released", "expired"}

ASSUME TaskClaimsAssumption ==
  /\ Tasks \subseteq Nat
  /\ MaxAttempts \in Nat /\ Lease \in Nat \ {0}
  /\ DependsOn \in [Tasks -> SUBSET Tasks]
  /\ Provable \subseteq Tasks /\ OwnerMoves \subseteq Status

VARIABLES
  status,    \* tasks.status
  taskFence, \* attempt of tasks.mutation_claim_id, 0 for null
  claim,     \* task_claims: status and time left of every attempt
  recorded   \* attempts with a succeeded run, checks and evidence

dbvars == <<status, taskFence, claim, recorded>>

-----------------------------------------------------------------------------
(* The lifecycle *)

TRANSITIONS ==
  [draft          |-> {"ready", "cancelled"},
   ready          |-> {"queued", "draft", "cancelled"},
   queued         |-> {"running", "ready", "cancelled"},
   running        |-> {"verifying", "queued", "needs_decision", "failed", "cancelled"},
   verifying      |-> {"reviewing", "repairing", "needs_decision", "failed", "cancelled"},
   reviewing      |-> {"ready_to_merge", "repairing", "needs_decision", "failed", "cancelled"},
   repairing      |-> {"verifying", "needs_decision", "failed", "cancelled"},
   needs_decision |-> {"ready", "queued", "repairing", "ready_to_merge", "failed", "cancelled"},
   ready_to_merge |-> {"completed", "repairing", "needs_decision", "cancelled"},
   completed      |-> {},
   failed         |-> {"queued", "cancelled"},
   cancelled      |-> {}]

incompleteDependencyCount(t) == {d \in DependsOn[t] : status[d] # "completed"}

\* evaluateCompletionProof against the criteria frozen at queue time
Proof(t) == t \in Provable /\ \E a \in Attempts : <<t, a>> \in recorded

\* Slip: the dependency check is forgotten.
validateTransition_NoDependencies(t, to) ==
  /\ to \in TRANSITIONS[status[t]]
  /\ to = "completed" => Proof(t)

validateTransition(t, to) ==
  /\ to \in TRANSITIONS[status[t]]
  /\ status[t] = "ready" /\ to = "queued" => incompleteDependencyCount(t) = {}
  /\ to = "completed" => Proof(t)

-----------------------------------------------------------------------------
(* Claims and the triggers that fence the tables *)

Active(t, a) == claim[t][a].status = "active"
Live(t, a) == Active(t, a) /\ claim[t][a].left > 0
Lapsed(t, a) == Active(t, a) /\ claim[t][a].left < 0

Closed(s) == [status |-> s, left |-> 0]

\* Slip: the trigger does not look at claims when no fence is presented.
tasks_status_requires_current_fence_OnlyFenced(c, t, a) ==
  a # 0 => c[t][a].status = "active" /\ c[t][a].left > 0

\* A status update carries the live claim of the task, or there is no active
\* claim at all; c is the claim table inside the transaction.
tasks_status_requires_current_fence(c, t, a) ==
  IF a = 0 THEN \A b \in Attempts : c[t][b].status # "active"
           ELSE c[t][a].status = "active" /\ c[t][a].left > 0

MayTransition(c, t, to, a) ==
  validateTransition(t, to) /\ tasks_status_requires_current_fence(c, t, a)

\* applyTransition under the fence a (0: none), after claim' is known
applyTransition(t, to, a) ==
  /\ MayTransition(claim', t, to, a)
  /\ status' = [status EXCEPT ![t] = to]
  /\ taskFence' = [taskFence EXCEPT ![t] = a]

\* a queued task without an active claim, and its next attempt
claimable(t, a) ==
  /\ status[t] = "queued"
  /\ \A b \in Attempts : ~Active(t, b)
  /\ claim[t][a].status = "none" /\ \A b \in 1..(a-1) : claim[t][b].status # "none"

\* claimNextTask of this task: insert the claim, queued -> running
claimNextTask(t, a) ==
  /\ claimable(t, a)
  /\ claim' = [claim EXCEPT ![t][a] = [status |-> "active", left |-> Lease]]
  /\ applyTransition(t, "running", a)
  /\ UNCHANGED recorded

\* the trigger wants a strictly later expiry
MayRenew(t, a) == Live(t, a) /\ claim[t][a].left < Lease

heartbeatClaim(t, a) ==
  /\ MayRenew(t, a)
  /\ claim' = [claim EXCEPT ![t][a] = [status |-> "active", left |-> Lease]]
  /\ UNCHANGED <<status, taskFence, recorded>>

MayClose(t, a) == Live(t, a) /\ taskFence[t] = a

completeClaim(t, a) ==
  /\ MayClose(t, a)
  /\ claim' = [claim EXCEPT ![t][a] = Closed("completed")]
  /\ UNCHANGED <<status, taskFence, recorded>>

\* Slip: the task is requeued and its claim left open.
releaseClaim_KeepsClaim(t, a, to) ==
  /\ MayClose(t, a)
  /\ status' = [status EXCEPT ![t] = to] /\ taskFence' = [taskFence EXCEPT ![t] = 0]
  /\ UNCHANGED <<claim, recorded>>

releaseClaim(t, a, to) ==
  /\ MayClose(t, a) /\ to \in {"queued", "cancelled"}
  /\ claim' = [claim EXCEPT ![t][a] = Closed("released")]
  /\ applyTransition(t, to, 0)
  /\ UNCHANGED recorded

LapsedTasks == {t \in Tasks : \E a \in Attempts : Lapsed(t, a)}

\* recoverExpiredClaims: every lapsed claim in one transaction, of all projects
recoverExpiredClaims ==
  /\ claim' = [t \in Tasks |-> [a \in Attempts |->
                IF Lapsed(t, a) THEN Closed("expired") ELSE claim[t][a]]]
  /\ LET requeued == {t \in LapsedTasks : status[t] = "running"} IN
     /\ \A t \in requeued : tasks_status_requires_current_fence(claim', t, 0)
     /\ status' = [t \in Tasks |-> IF t \in requeued THEN "queued" ELSE status[t]]
     /\ taskFence' = [t \in Tasks |-> IF t \in requeued THEN 0 ELSE taskFence[t]]
  /\ UNCHANGED recorded

\* transitionTask without a fence
ownerTransition(t, to) ==
  /\ to \in OwnerMoves
  /\ UNCHANGED claim
  /\ applyTransition(t, to, 0)
  /\ UNCHANGED recorded

\* transitionTask(needs_decision) with the fence of the driver that gives up
parkTask(t, a) ==
  /\ UNCHANGED claim
  /\ applyTransition(t, "needs_decision", a)
  /\ UNCHANGED recorded

\* One transaction: the run, its checks and evidence, running -> verifying.
recordLanding(t, a) ==
  /\ UNCHANGED claim
  /\ applyTransition(t, "verifying", a)
  /\ recorded' = recorded \cup {<<t, a>>}

Gate == {t \in Tasks : status[t] \in {"reviewing", "ready_to_merge"}}
Landed == {t \in Tasks : status[t] = "verifying"}

\* the oldest landed task, when no task is in the gate
mayPromote(t) == Gate = {} /\ t \in Landed /\ \A u \in Landed : t <= u

\* promoteNextLandedTask with a task: verifying -> reviewing -> ready_to_merge
promoteNextLandedTask(t) ==
  /\ mayPromote(t)
  /\ tasks_status_requires_current_fence(claim, t, 0)
  /\ status' = [status EXCEPT ![t] = IF Proof(t) THEN "ready_to_merge" ELSE "needs_decision"]
  /\ taskFence' = [taskFence EXCEPT ![t] = 0]
  /\ UNCHANGED <<claim, recorded>>

\* The passing grade of supervisor/state completes the one canonical task.
completeTask(t) ==
  /\ {u \in Tasks : status[u] = "ready_to_merge"} = {t}
  /\ Proof(t)
  /\ tasks_status_requires_current_fence(claim, t, taskFence[t])
  /\ status' = [status EXCEPT ![t] = "completed"]
  /\ UNCHANGED <<taskFence, claim, recorded>>

\* Time passes for every active claim.
Tick ==
  /\ claim' = [t \in Tasks |-> [a \in Attempts |->
                IF Active(t, a) /\ claim[t][a].left >= 0
                THEN [status |-> "active", left |-> claim[t][a].left - 1]
                ELSE claim[t][a]]]
  /\ UNCHANGED <<status, taskFence, recorded>>

DbInit ==
  /\ status = [t \in Tasks |-> "draft"]
  /\ taskFence = [t \in Tasks |-> 0]
  /\ claim = [t \in Tasks |-> [a \in Attempts |-> Closed("none")]]
  /\ recorded = {}

ClaimsNext ==
  \/ recoverExpiredClaims
  \/ Tick
  \/ \E t \in Tasks :
       \/ promoteNextLandedTask(t)
       \/ completeTask(t)
       \/ \E to \in Status : ownerTransition(t, to)
       \/ \E a \in Attempts :
            \/ claimNextTask(t, a) \/ heartbeatClaim(t, a) \/ completeClaim(t, a)
            \/ \E to \in Status : releaseClaim(t, a, to)
            \/ parkTask(t, a) \/ recordLanding(t, a)

ClaimsSpec == DbInit /\ [][ClaimsNext]_dbvars

-----------------------------------------------------------------------------
(* Properties *)

\* Types of the task and claim tables.
DbTypeOK ==
  /\ status \in [Tasks -> Status]
  /\ taskFence \in [Tasks -> Attempts \cup {0}]
  /\ claim \in [Tasks -> [Attempts -> [status : ClaimStatus, left : -1..Lease]]]
  /\ recorded \subseteq Tasks \X Attempts

\* An active claim owns its task: it is the only active one, it is the latest
\* attempt, and the task was last moved under it, to a status its worker leaves
\* it in.  No owner, recovery or promotion takes the task from under it.
ClaimOwnsTask ==
  \A t \in Tasks : \A a \in Attempts : Active(t, a) =>
    /\ \A b \in Attempts : Active(t, b) => b = a
    /\ \A b \in Attempts : b > a => claim[t][b].status = "none"
    /\ taskFence[t] = a
    /\ status[t] \in {"running", "verifying", "needs_decision"}

\* While a claim is active its task changes status only under that claim's
\* live lease, or in the step that closes the claim.
FencedStatus ==
  [][\A t \in Tasks : \A a \in Attempts :
       Active(t, a) /\ status'[t] # status[t] =>
         \/ Live(t, a) /\ taskFence'[t] = a
         \/ claim'[t][a].status \in {"released", "expired"}]_dbvars

\* Work starts only after everything it depends on is completed, whichever
\* way a task came back to the queue (only ready -> queued is checked).
DependenciesFirst ==
  \A t \in Tasks : status[t] \notin {"draft", "ready", "cancelled"} =>
    \A d \in DependsOn[t] : status[d] = "completed"

\* A task is completed only on the evidence of a recorded landing.
CompletedIsProved == \A t \in Tasks : status[t] = "completed" => Proof(t)

\* At most one task is in the completion gate, so the canonical binding of a
\* completion claim is never ambiguous (owners that do not move tasks there).
GateHoldsOne == \A t, u \in Gate : t = u

\* A running task has an active claim, so that one whose worker died is
\* always found by recoverExpiredClaims (owners that do not start tasks).
RunningIsClaimed ==
  \A t \in Tasks : status[t] = "running" => \E a \in Attempts : Active(t, a)

-----------------------------------------------------------------------------
(* The inductive invariant of the proofs *)

\* Attempts are numbered without gaps.
Consecutive ==
  \A t \in Tasks : \A a, b \in Attempts :
    a < b /\ claim[t][a].status = "none" => claim[t][b].status = "none"

ClaimInv == DbTypeOK /\ Consecutive /\ ClaimOwnsTask
=============================================================================
