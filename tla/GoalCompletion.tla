---------------------------- MODULE GoalCompletion ----------------------------
(* How a supervisor goal becomes done: src/supervisor/state.ts (the goal in      *)
(* supervisor.json and applyIndependentCompletionGrade), runtime.ts (the worker  *)
(* cycle and the independent completion review) and cli.ts (grade, admit,        *)
(* report).                                                                      *)
(*                                                                               *)
(* A cycle reads the goal, takes the repository writer fence and works for       *)
(* minutes from what it read; every write of the goal is a short mutation under  *)
(* the state lock.  A decision is durable in SQLite first (one transaction with  *)
(* the task's completion) and is then written to supervisor.json, with a crash   *)
(* possible in between.                                                          *)
(*                                                                               *)
(* One goal of one repository.  Its text is an epoch number (ghost: the code     *)
(* keeps the text itself), its source identity (HEAD and tree digest) a member   *)
(* of Sources.  A review dispatch, its run and its receipt are one record, the   *)
(* receipt present once verdict is not "none".  The pacing of cycles             *)
(* (nextRunAt, retryImmediately, the failure count) is left out: a cycle may     *)
(* start whenever the daemon's filter lets it.                                   *)
EXTENDS Naturals, Sequences

CONSTANTS
  Daemons,        \* processes of runDaemon
  Foregrounds,    \* processes of major run --foreground
  Graders,        \* processes of major project grade
  Sources,        \* the identities the source tree can have
  None,           \* no process, no source, no pending claim
  Dead,           \* a pid whose process is gone
  MAX_INDEPENDENT_REVIEW_ATTEMPTS,
  OwnerWaits,     \* TRUE: the owner redefines the goal only between cycles
  MaxClaims,      \* bound: worker completion claims
  MaxDispatches,  \* bound: review dispatches
  MaxEpoch,       \* bound: redefinitions of the goal
  MaxCrashes      \* bound: processes killed

Procs == Daemons \cup Foregrounds \cup Graders

ASSUME GoalAssumption ==
  /\ MAX_INDEPENDENT_REVIEW_ATTEMPTS \in Nat \ {0}
  /\ MaxClaims \in Nat /\ MaxDispatches \in Nat
  /\ MaxEpoch \in Nat /\ MaxCrashes \in Nat
  /\ OwnerWaits \in BOOLEAN
  /\ None \notin Procs /\ Dead \notin Procs /\ None # Dead
  /\ None \notin Sources /\ Sources # {}
  /\ Graders \cap (Daemons \cup Foregrounds) = {}

VARIABLES
  goal,        \* the goal's row of supervisor.json
  task,        \* the repository's canonical task: none, ready (to merge), completed
  source,      \* the identity of the source tree now
  claims,      \* completion claims made so far (claimedAt, as a number)
  dispatches,  \* review dispatches, with run status and receipt
  commits,     \* supervisor_completion_commits, oldest first
  fence,       \* holder of the writer fence, or Dead for a lease left behind
  contended,   \* the fence's contention file exists
  lock,        \* holder of the state lock
  pc, snap, local,
  crashes

vars == <<goal, task, source, claims, dispatches, commits, fence, contended,
          lock, pc, snap, local, crashes>>
database == <<task, claims, dispatches, commits>>

GoalStatus == {"active", "running", "blocked", "paused", "failed", "done"}
Results == {"done", "more", "blocked", "failed", "unsigned", "pass", "fail", "inconclusive"}

NoPending == [claim |-> 0, src |-> None, task |-> FALSE, attempts |-> 0, dispatch |-> 0]

(* A claim with a dispatch still has an attempt left.                            *)
Claim ==
  {c \in [claim : 1..MaxClaims, src : Sources, task : BOOLEAN,
          attempts : 0..MAX_INDEPENDENT_REVIEW_ATTEMPTS, dispatch : 0..MaxDispatches] :
     c.dispatch # 0 => c.attempts < MAX_INDEPENDENT_REVIEW_ATTEMPTS}

Pending == Claim \cup {NoPending}

Goal ==
  [status : GoalStatus, epoch : 0..MaxEpoch, pid : Procs \cup {None, Dead},
   pending : Pending]

Dispatch ==
  [claim : 1..MaxClaims, src : Sources, epoch : 0..MaxEpoch,
   run : {"running", "succeeded", "failed"}, verdict : {"none", "pass", "fail"}]

Commit == [dispatch : 1..MaxDispatches, claim : 1..MaxClaims, task : BOOLEAN,
           verdict : {"pass", "fail"}, final : Goal]

(* What a process carries from one step of its cycle to the next: the frozen     *)
(* candidate, its dispatch, the newest commit it read and its worker's result.   *)
Fresh == [src |-> None, task |-> FALSE, dispatch |-> 0, commit |-> 0, result |-> "more"]

Local == [src : Sources \cup {None}, task : BOOLEAN, dispatch : 0..MaxDispatches,
          commit : Nat, result : Results]

PCs == {"idle", "recover", "read", "fence", "review", "dispatch", "reviewing",
        "settle", "grade", "commit", "write",
        "work", "start", "check", "working", "after", "report", "clear"}

(* What a cycle uses of the goal it read: the text and the pending claim.         *)
Seen(g) == [epoch |-> g.epoch, pending |-> g.pending]

FirstGoal == [status |-> "active", epoch |-> 0, pid |-> None, pending |-> NoPending]

Init ==
  /\ goal = FirstGoal
  /\ task \in {"none", "ready"}
  /\ source \in Sources
  /\ claims = 0 /\ dispatches = << >> /\ commits = << >>
  /\ fence = None /\ contended = FALSE /\ lock = None
  /\ pc = [p \in Procs |-> "idle"]
  /\ snap = [p \in Procs |-> Seen(FirstGoal)]
  /\ local = [p \in Procs |-> Fresh]
  /\ crashes = 0

-------------------------------------------------------------------------------
(* Writes of the goal.  mutateSupervisorState and updateGoal run under the state *)
(* lock; a patch replaces the fields it names.                                   *)

CanWrite == lock = None

(* SQLite has one writer: between BEGIN IMMEDIATE and COMMIT the others wait.     *)
DbFree == \A p \in Procs : pc[p] # "commit"

Goto(p, step) == pc' = [pc EXCEPT ![p] = step]

(* The finally block of a cycle or of a grade, and what a new cycle starts from. *)
Leave(p) ==
  /\ Goto(p, "idle")
  /\ snap' = [snap EXCEPT ![p] = Seen(FirstGoal)]
  /\ local' = [local EXCEPT ![p] = Fresh]
  /\ fence' = IF fence = p THEN None ELSE fence

(* The operating system's view of an activePid once its process has exited.      *)
Orphan(g, p) == [g EXCEPT !.pid = IF @ = p THEN Dead ELSE @]

(* The goal is open again for an ordinary cycle.                                 *)
Reopened(g) == [g EXCEPT !.status = "active", !.pid = None, !.pending = NoPending]

WithoutDispatch(pending) == [pending EXCEPT !.dispatch = 0]

(* Slip: the pid of the ended reviewer stays on the goal.                        *)
Inconclusive_KeepsPid(g, pending, attempts) ==
  [g EXCEPT !.status = "active",
            !.pending = [WithoutDispatch(pending) EXCEPT !.attempts = attempts]]

(* recordInconclusiveReviewAttemptPatch and reviewerAvailabilityExhaustedPatch:  *)
(* the claim the cycle read goes back without its dispatch.                      *)
Inconclusive(g, pending, attempts) ==
  [g EXCEPT !.status = "active", !.pid = None,
            !.pending = [WithoutDispatch(pending) EXCEPT !.attempts = attempts]]

-------------------------------------------------------------------------------
(* runGoalCycle: recover a committed decision, read the goal, take the fence.    *)

(* The daemon's filter; a foreground run names its goal and has none.            *)
Selects(p) ==
  p \in Daemons => /\ goal.status \in {"active", "running"}
                   /\ goal.pid \notin Procs

StartCycle(p) ==
  /\ pc[p] = "idle" /\ p \notin Graders
  /\ Selects(p)
  /\ Goto(p, "recover")
  /\ local' = [local EXCEPT ![p].commit = Len(commits)]
  /\ UNCHANGED <<goal, database, source, fence, contended, lock, snap, crashes>>

(* Slip: the decision is read and never written over the goal.                   *)
recoverSupervisorCompletion_Skips(p) ==
  /\ pc[p] = "recover" /\ (local[p].commit > 0 => CanWrite)
  /\ local' = [local EXCEPT ![p].commit = 0]
  /\ Goto(p, "read")
  /\ UNCHANGED <<goal, database, source, fence, contended, lock, snap, crashes>>

(* The newest commit is written over the goal if its claim is still the pending  *)
(* one; a done goal and a replaced claim are left alone.                         *)
recoverSupervisorCompletion(p) ==
  /\ pc[p] = "recover" /\ (local[p].commit > 0 => CanWrite)
  /\ goal' = IF /\ local[p].commit > 0
                /\ goal.status # "done"
                /\ goal.pending.claim = commits[local[p].commit].claim
             THEN commits[local[p].commit].final
             ELSE goal
  /\ local' = [local EXCEPT ![p].commit = 0]
  /\ Goto(p, "read")
  /\ UNCHANGED <<database, source, fence, contended, lock, snap, crashes>>

(* getGoal reads the file without the lock; a write replaces it in one rename.    *)
ReadGoal(p) ==
  /\ pc[p] = "read"
  /\ IF goal.status \in {"done", "paused"}
     THEN Leave(p)
     ELSE /\ Goto(p, "fence")
          /\ snap' = [snap EXCEPT ![p] = Seen(goal)]
          /\ UNCHANGED <<fence, local>>
  /\ UNCHANGED <<goal, database, source, contended, lock, crashes>>

(* A lease left by a dead process is refused while it is young and reclaimed     *)
(* later; a refused writer marks contention, an accepted one clears it.          *)
TakeFence(p) ==
  /\ pc[p] = "fence" /\ fence \in {None, Dead}
  /\ fence' = p /\ contended' = FALSE
  /\ Goto(p, IF snap[p].pending = NoPending THEN "work" ELSE "review")
  /\ UNCHANGED <<goal, database, source, lock, snap, local, crashes>>

RefusedFence(p) ==
  /\ pc[p] = "fence" /\ fence # None
  /\ contended' = TRUE
  /\ Leave(p)
  /\ UNCHANGED <<goal, database, source, lock, crashes>>

-------------------------------------------------------------------------------
(* runPendingCompletionReview: an independent reviewer judges the claim.  pending *)
(* is what the cycle read before it took the fence.                              *)

Mine(p) == snap[p].pending

(* The tree is no longer the claimed one, or the claim lacks the provenance or    *)
(* the draft evidence it needs.  The pid field is not in the patch.              *)
ReviewStale(p) ==
  /\ pc[p] = "review" /\ CanWrite
  /\ \E provenance \in BOOLEAN : ~provenance \/ source # Mine(p).src
  /\ goal' = [goal EXCEPT !.status = "active", !.pending = NoPending]
  /\ Leave(p)
  /\ UNCHANGED <<database, source, contended, lock, crashes>>

(* A dispatch in what was read is one whose process died: its run is failed and  *)
(* it counts as a crashed attempt.                                               *)
recoverAbandonedReviewDispatch(p) ==
  /\ pc[p] = "review" /\ CanWrite /\ DbFree
  /\ source = Mine(p).src /\ Mine(p).dispatch # 0
  /\ dispatches' = [dispatches EXCEPT ![Mine(p).dispatch].run = "failed"]
  /\ goal' = Inconclusive(goal, Mine(p), Mine(p).attempts + 1)
  /\ Leave(p)
  /\ UNCHANGED <<task, claims, commits, source, contended, lock, crashes>>

ReviewExhausted(p) ==
  /\ pc[p] = "review" /\ CanWrite
  /\ source = Mine(p).src /\ Mine(p).dispatch = 0
  /\ Mine(p).attempts >= MAX_INDEPENDENT_REVIEW_ATTEMPTS
  /\ goal' = Inconclusive(goal, Mine(p), Mine(p).attempts)
  /\ Leave(p)
  /\ UNCHANGED <<database, source, contended, lock, crashes>>

MayReview(p) ==
  /\ source = Mine(p).src /\ Mine(p).dispatch = 0
  /\ Mine(p).attempts < MAX_INDEPENDENT_REVIEW_ATTEMPTS

(* No provider has capacity: only the summary and the next run time change.      *)
ReviewWaits(p) ==
  /\ pc[p] = "review" /\ CanWrite
  /\ MayReview(p)
  /\ Leave(p)
  /\ UNCHANGED <<goal, database, source, contended, lock, crashes>>

(* The canonical review run.  The prompt carries the goal text that was read.    *)
CreateReviewRun(p) ==
  /\ pc[p] = "review" /\ DbFree
  /\ MayReview(p)
  /\ Len(dispatches) < MaxDispatches
  /\ dispatches' = Append(dispatches,
       [claim |-> Mine(p).claim, src |-> Mine(p).src, epoch |-> snap[p].epoch,
        run |-> "running", verdict |-> "none"])
  /\ local' = [local EXCEPT ![p].dispatch = Len(dispatches) + 1]
  /\ Goto(p, "dispatch")
  /\ UNCHANGED <<goal, task, claims, commits, source, fence, contended, lock, snap, crashes>>

(* The claim is written back with its dispatch before the reviewer is started.   *)
DispatchReview(p) ==
  /\ pc[p] = "dispatch" /\ CanWrite
  /\ goal' = [goal EXCEPT !.pid = p,
                          !.pending = [Mine(p) EXCEPT !.dispatch = local[p].dispatch]]
  /\ Goto(p, "reviewing")
  /\ UNCHANGED <<database, source, fence, contended, lock, snap, local, crashes>>

(* The reviewer ends; only a verdict with a session is a succeeded run.  A run   *)
(* can succeed and still hold no verdict.                                        *)
ReviewerReturns(p) ==
  /\ pc[p] = "reviewing" /\ DbFree
  /\ \E r \in {"pass", "fail", "inconclusive"}, run \in {"succeeded", "failed"} :
       /\ r # "inconclusive" => run = "succeeded"
       /\ local' = [local EXCEPT ![p].result = r]
       /\ dispatches' = [dispatches EXCEPT ![local[p].dispatch].run = run]
  /\ Goto(p, "settle")
  /\ UNCHANGED <<goal, task, claims, commits, source, fence, contended, lock, snap, crashes>>

recordInconclusiveReviewAttempt(p) ==
  /\ pc[p] = "settle" /\ CanWrite
  /\ local[p].result = "inconclusive"
  /\ goal' = Inconclusive(goal, Mine(p), Mine(p).attempts + 1)
  /\ Leave(p)
  /\ UNCHANGED <<database, source, contended, lock, crashes>>

(* A pass that is not bound to the frozen writing draft, before its receipt is    *)
(* recorded or after it: the claim stays, its dispatch does not, and no attempt   *)
(* is counted.                                                                    *)
ReviewUnbound(p) ==
  /\ pc[p] \in {"settle", "grade"} /\ CanWrite
  /\ p \notin Graders /\ local[p].result = "pass"
  /\ goal' = [goal EXCEPT !.pid = None, !.pending = WithoutDispatch(Mine(p))]
  /\ Leave(p)
  /\ UNCHANGED <<database, source, contended, lock, crashes>>

(* The tree changed during the review, or the reviewer is known to have written.  *)
postReviewSourceChange(p) ==
  /\ pc[p] = "settle" /\ CanWrite
  /\ local[p].result # "inconclusive"
  /\ \E workspaceMutated \in BOOLEAN : workspaceMutated \/ source # Mine(p).src
  /\ goal' = Reopened(goal)
  /\ Leave(p)
  /\ UNCHANGED <<database, source, contended, lock, crashes>>

(* The receipt; a trigger admits it only for a succeeded review run.             *)
recordIndependentReviewExecution(p) ==
  /\ pc[p] = "settle" /\ DbFree
  /\ local[p].result # "inconclusive"
  /\ source = Mine(p).src
  /\ dispatches[local[p].dispatch].run = "succeeded"
  /\ dispatches' = [dispatches EXCEPT ![local[p].dispatch].verdict = local[p].result]
  /\ Goto(p, "grade")
  /\ UNCHANGED <<goal, task, claims, commits, source, fence, contended, lock, snap, local, crashes>>

-------------------------------------------------------------------------------
(* applyIndependentCompletionGrade: fence, state lock, one immediate transaction, *)
(* then the goal's row of supervisor.json.                                       *)

(* major project grade: a receipt, a goal with a pending claim and the fence.    *)
CliGrade(p) ==
  /\ pc[p] = "idle" /\ p \in Graders
  /\ goal.pending # NoPending
  /\ fence \in {None, Dead}
  /\ \E d \in 1..Len(dispatches) :
       /\ dispatches[d].verdict # "none"
       /\ local' = [local EXCEPT ![p].dispatch = d]
  /\ fence' = p /\ contended' = FALSE
  /\ Goto(p, "grade")
  /\ UNCHANGED <<goal, database, source, lock, snap, crashes>>

CliRefused(p) ==
  /\ pc[p] = "idle" /\ p \in Graders
  /\ goal.pending # NoPending
  /\ fence # None /\ ~contended
  /\ contended' = TRUE
  /\ UNCHANGED <<goal, database, source, fence, lock, pc, snap, local, crashes>>

(* The receipt is for the claim that is pending now, from the dispatch recorded   *)
(* in it, at its source, and both runs succeeded.                                *)
ReceiptStands(pending, d) ==
  /\ dispatches[d].claim = pending.claim
  /\ dispatches[d].src = pending.src
  /\ pending.dispatch = d
  /\ dispatches[d].run = "succeeded"

(* The frozen task binding still resolves; proof is what its evidence shows now. *)
Bound(pending, proof) ==
  IF pending.task THEN task = "ready" /\ proof ELSE task # "ready"

(* The source and binding checks; receipt_id is UNIQUE among the commits.         *)
Passes(pending, d) ==
  /\ source = pending.src
  /\ dispatches[d].verdict = "pass" => \E proof \in BOOLEAN : Bound(pending, proof)

(* Slip: a rejection is not looked up.                                           *)
Decided_PassOnly(d) ==
  \E i \in 1..Len(commits) : commits[i].dispatch = d /\ commits[i].verdict = "pass"

Decided(d) == \E i \in 1..Len(commits) : commits[i].dispatch = d

(* An error leaves through the finally blocks and ends its process.              *)
Throw(p, g) ==
  /\ goal' = Orphan(g, p)
  /\ Leave(p)

GradeRefused(p) ==
  /\ pc[p] = "grade" /\ CanWrite /\ DbFree
  /\ \/ ~ReceiptStands(goal.pending, local[p].dispatch)
     \/ Passes(goal.pending, local[p].dispatch) /\ Decided(local[p].dispatch)
  /\ Throw(p, goal)
  /\ UNCHANGED <<database, source, contended, lock, crashes>>

(* The checks inside the transaction pass; nothing is written yet.               *)
GradeBegin(p) ==
  /\ pc[p] = "grade" /\ CanWrite /\ DbFree
  /\ ReceiptStands(goal.pending, local[p].dispatch)
  /\ Passes(goal.pending, local[p].dispatch) /\ ~Decided(local[p].dispatch)
  /\ lock' = p
  /\ Goto(p, "commit")
  /\ UNCHANGED <<goal, database, source, fence, contended, snap, local, crashes>>

(* The source moved, or the task binding no longer holds: reopened and refused.  *)
GradeReopens(p) ==
  /\ pc[p] = "grade" /\ CanWrite /\ DbFree
  /\ ReceiptStands(goal.pending, local[p].dispatch)
  /\ \/ source # goal.pending.src
     \/ /\ dispatches[local[p].dispatch].verdict = "pass"
        /\ \E proof \in BOOLEAN : ~Bound(goal.pending, proof)
  /\ Throw(p, Reopened(goal))
  /\ UNCHANGED <<database, source, contended, lock, crashes>>

Graded(g, verdict) ==
  [g EXCEPT !.status = IF verdict = "pass" THEN "done" ELSE "active",
            !.pid = None, !.pending = NoPending]

(* The second read of the source and the contention check guard the COMMIT of    *)
(* the decision, which completes the task in the same transaction.               *)
CommitGrade(p) ==
  LET d == local[p].dispatch
      v == dispatches[d].verdict
  IN /\ pc[p] = "commit"
     /\ source = goal.pending.src /\ ~contended
     /\ commits' = Append(commits, [dispatch |-> d, claim |-> goal.pending.claim,
                                    task |-> goal.pending.task, verdict |-> v, final |-> Graded(goal, v)])
     /\ task' = IF v = "pass" /\ goal.pending.task THEN "completed" ELSE task
     /\ Goto(p, "write")
     /\ UNCHANGED <<goal, claims, dispatches, source, fence, contended, lock, snap, local, crashes>>

(* Slip: the goal graded in memory is saved although the transaction rolled back. *)
CommitFenced_KeepsGrade(p) ==
  /\ pc[p] = "commit"
  /\ source # goal.pending.src \/ contended
  /\ lock' = None
  /\ Throw(p, Graded(goal, dispatches[local[p].dispatch].verdict))
  /\ UNCHANGED <<database, source, contended, crashes>>

(* CompletionSourceFenceError: ROLLBACK, and the goal is reopened.               *)
CommitFenced(p) ==
  /\ pc[p] = "commit"
  /\ source # goal.pending.src \/ contended
  /\ lock' = None
  /\ Throw(p, Reopened(goal))
  /\ UNCHANGED <<database, source, contended, crashes>>

WriteGoal(p) ==
  /\ pc[p] = "write"
  /\ goal' = Graded(goal, dispatches[local[p].dispatch].verdict)
  /\ lock' = None
  /\ Leave(p)
  /\ UNCHANGED <<database, source, contended, crashes>>

-------------------------------------------------------------------------------
(* runLockedGoalCycle: one worker execution in the repository.                   *)

(* Routing, capability and source checkpoints end the cycle before a run exists. *)
WorkCheckpoint(p) ==
  /\ pc[p] = "work" /\ CanWrite
  /\ \/ goal' = [goal EXCEPT !.status = "active", !.pid = None]
     \/ goal' = [goal EXCEPT !.status = "blocked", !.pid = None]
     \/ goal' = Reopened(goal)
  /\ Leave(p)
  /\ UNCHANGED <<database, source, contended, lock, crashes>>

freezeSupervisorCandidate(p) ==
  /\ pc[p] = "work" /\ DbFree
  /\ local' = [local EXCEPT ![p].src = source, ![p].task = (task = "ready")]
  /\ Goto(p, "start")
  /\ UNCHANGED <<goal, database, source, fence, contended, lock, snap, crashes>>

StartWork(p) ==
  /\ pc[p] = "start" /\ CanWrite
  /\ goal' = [goal EXCEPT !.status = "running", !.pid = p, !.pending = NoPending]
  /\ Goto(p, "check")
  /\ UNCHANGED <<database, source, fence, contended, lock, snap, local, crashes>>

(* A candidate that may not be dispatched, or whose source moved.                *)
DispatchRefused(p) ==
  /\ pc[p] = "check" /\ CanWrite
  /\ goal' = Reopened(goal)
  /\ Leave(p)
  /\ UNCHANGED <<database, source, contended, lock, crashes>>

(* runWorker asserts the fence for a host that may write, and its error ends the   *)
(* process.                                                                      *)
DispatchWorker(p) ==
  /\ pc[p] = "check"
  /\ source = local[p].src
  /\ \E mayMutate \in BOOLEAN :
       IF mayMutate /\ contended
       THEN Throw(p, goal)
       ELSE /\ Goto(p, "working")
            /\ UNCHANGED <<goal, fence, snap, local>>
  /\ UNCHANGED <<database, source, contended, lock, crashes>>

(* The worker may have changed the tree.  A done claim over a changed candidate   *)
(* or without its proof is ordinary progress; a success without a session is not  *)
(* signed.                                                                       *)
WorkerReturns(p) ==
  /\ pc[p] = "working" /\ DbFree
  /\ source' \in Sources
  /\ \E r \in {"done", "more", "blocked", "failed", "unsigned"} :
       /\ r = "done" => source' = local[p].src
       /\ local' = [local EXCEPT ![p].result = r]
  /\ Goto(p, "after")
  /\ UNCHANGED <<goal, database, fence, contended, lock, snap, crashes>>

(* The refusal of an unsigned result does not look at the goal first.            *)
WorkUnsigned(p) ==
  /\ pc[p] = "after" /\ CanWrite
  /\ local[p].result = "unsigned"
  /\ goal' = Reopened(goal)
  /\ Leave(p)
  /\ UNCHANGED <<database, source, contended, lock, crashes>>

(* A goal that was settled meanwhile keeps its status.  The promotion proof of a  *)
(* task's claim needs the task to be ready to merge still.                       *)
ReadAfter(p) ==
  /\ pc[p] = "after"
  /\ local[p].result # "unsigned"
  /\ Goto(p, IF goal.status \in {"done", "blocked", "paused"} THEN "clear" ELSE "report")
  /\ local' = [local EXCEPT ![p].result =
       IF @ = "done" /\ local[p].task /\ task # "ready" THEN "more" ELSE @]
  /\ UNCHANGED <<goal, database, source, fence, contended, lock, snap, crashes>>

ClearPid(p) ==
  /\ pc[p] = "clear" /\ CanWrite
  /\ goal' = [goal EXCEPT !.pid = None]
  /\ Leave(p)
  /\ UNCHANGED <<database, source, contended, lock, crashes>>

(* A done report becomes a claim that waits for an independent review.           *)
ClaimCompletion(p) ==
  /\ pc[p] = "report" /\ CanWrite
  /\ local[p].result = "done" /\ claims < MaxClaims
  /\ claims' = claims + 1
  /\ goal' = [goal EXCEPT !.status = "active", !.pid = None,
       !.pending = [claim |-> claims + 1, src |-> local[p].src, task |-> local[p].task,
                    attempts |-> 0, dispatch |-> 0]]
  /\ Leave(p)
  /\ UNCHANGED <<task, dispatches, commits, source, contended, lock, crashes>>

WorkReported(p) ==
  /\ pc[p] = "report" /\ CanWrite
  /\ \E st \in CASE local[p].result = "blocked" -> {"blocked"}
                 [] local[p].result = "failed"  -> {"active", "failed"}
                 [] OTHER                       -> {"active"} :
       goal' = [Reopened(goal) EXCEPT !.status = st]
  /\ Leave(p)
  /\ UNCHANGED <<database, source, contended, lock, crashes>>

-------------------------------------------------------------------------------
(* The owner, other tools and the operating system.                              *)

(* admitGoal with refine, which forgets the running pid, and startGoal, which     *)
(* keeps it: a new text, and the completion artifacts of the old one revoked.    *)
RedefineGoal ==
  /\ CanWrite /\ goal.epoch < MaxEpoch
  /\ OwnerWaits => \A p \in Procs : pc[p] = "idle"
  /\ goal.status \in {"active", "running", "blocked"}
  /\ \E pid \in {None, goal.pid} :
       goal' = [goal EXCEPT !.epoch = @ + 1, !.status = "active", !.pid = pid,
                            !.pending = NoPending]
  /\ UNCHANGED <<database, source, fence, contended, lock, pc, snap, local, crashes>>

(* major goal report.                                                            *)
ReportGoal ==
  /\ CanWrite
  /\ \E st \in {"active", "blocked", "failed", "paused"} :
       goal' = [goal EXCEPT !.status = st, !.pid = None, !.pending = NoPending]
  /\ UNCHANGED <<database, source, fence, contended, lock, pc, snap, local, crashes>>

(* An editor does not take the fence.                                            *)
EditSource ==
  /\ source' \in Sources \ {source}
  /\ UNCHANGED <<goal, database, fence, contended, lock, pc, snap, local, crashes>>

(* Another part of Major moves the canonical task in or out of ready_to_merge.   *)
MoveTask ==
  /\ DbFree
  /\ \/ task = "none" /\ task' = "ready"
     \/ task = "ready" /\ task' = "none"
  /\ UNCHANGED <<goal, claims, dispatches, commits, source, fence, contended, lock,
                 pc, snap, local, crashes>>

(* A kill or a power loss at any point of a cycle or a grade.                    *)
Crash(p) ==
  /\ pc[p] # "idle" /\ crashes < MaxCrashes
  /\ crashes' = crashes + 1
  /\ goal' = Orphan(goal, p)
  /\ fence' = IF fence = p THEN Dead ELSE fence
  /\ lock' = IF lock = p THEN None ELSE lock
  /\ Goto(p, "idle")
  /\ snap' = [snap EXCEPT ![p] = Seen(FirstGoal)]
  /\ local' = [local EXCEPT ![p] = Fresh]
  /\ UNCHANGED <<database, source, contended>>

Review(p) ==
  \/ ReviewStale(p) \/ recoverAbandonedReviewDispatch(p) \/ ReviewExhausted(p)
  \/ ReviewWaits(p) \/ CreateReviewRun(p) \/ DispatchReview(p) \/ ReviewerReturns(p)
  \/ recordInconclusiveReviewAttempt(p) \/ ReviewUnbound(p) \/ postReviewSourceChange(p)
  \/ recordIndependentReviewExecution(p)

Grade(p) ==
  \/ GradeRefused(p) \/ GradeBegin(p) \/ GradeReopens(p)
  \/ CommitGrade(p) \/ CommitFenced(p) \/ WriteGoal(p)

Work(p) ==
  \/ WorkCheckpoint(p) \/ freezeSupervisorCandidate(p) \/ StartWork(p)
  \/ DispatchRefused(p) \/ DispatchWorker(p) \/ WorkerReturns(p) \/ WorkUnsigned(p)
  \/ ReadAfter(p) \/ ClearPid(p) \/ ClaimCompletion(p) \/ WorkReported(p)

Enter(p) ==
  \/ recoverSupervisorCompletion(p) \/ ReadGoal(p) \/ TakeFence(p) \/ RefusedFence(p)

Run(p) == Enter(p) \/ Review(p) \/ Grade(p) \/ Work(p)

Next ==
  \/ \E p \in Procs :
       StartCycle(p) \/ Run(p) \/ CliGrade(p) \/ CliRefused(p) \/ Crash(p)
  \/ RedefineGoal \/ ReportGoal \/ EditSource \/ MoveTask

Spec == Init /\ [][Next]_vars

(* The daemon's loop keeps starting cycles, and a process that has started a      *)
(* cycle or a grade runs on unless it crashes.                                   *)
Fairness ==
  /\ \A p \in Procs : WF_vars(Run(p))
  /\ \A p \in Daemons : WF_vars(StartCycle(p))

FairSpec == Spec /\ Fairness

-------------------------------------------------------------------------------
(* Properties                                                                    *)

(* Every variable keeps its type: a claim carries at most the allowed attempts,   *)
(* and dispatches and commits refer to claims that were made.                    *)
TypeOK ==
  /\ goal \in Goal
  /\ task \in {"none", "ready", "completed"}
  /\ source \in Sources
  /\ claims \in 0..MaxClaims
  /\ dispatches \in Seq(Dispatch) /\ Len(dispatches) <= MaxDispatches
  /\ commits \in Seq(Commit)
  /\ fence \in Procs \cup {None, Dead}
  /\ contended \in BOOLEAN
  /\ lock \in Procs \cup {None}
  /\ pc \in [Procs -> PCs]
  /\ snap \in [Procs -> [epoch : 0..MaxEpoch, pending : Pending]]
  /\ local \in [Procs -> Local]
  /\ crashes \in 0..MaxCrashes

(* "A worker claim alone can never mark a goal done": a done goal has a committed *)
(* pass, backed by a passing receipt for the claim that was committed.           *)
DoneIsGraded ==
  goal.status = "done" =>
    \E i \in 1..Len(commits) :
      LET d == dispatches[commits[i].dispatch]
      IN /\ commits[i].verdict = "pass" /\ d.verdict = "pass"
         /\ d.claim = commits[i].claim

(* A completion claim is decided at most once, whatever crashes and however often *)
(* its receipt is graded again, as long as one process runs the cycles.          *)
ClaimDecidedOnce ==
  \A i, j \in 1..Len(commits) : commits[i].claim = commits[j].claim => i = j

(* The task is completed exactly when a pass of a claim about it is committed:    *)
(* SQLite never shows one without the other.                                     *)
TaskFollowsCommit ==
  (task = "completed") <=>
    \E i \in 1..Len(commits) : commits[i].verdict = "pass" /\ commits[i].task

(* A goal is done only for the text its reviewer was given: a redefinition        *)
(* revokes the reviews of the earlier text.                                      *)
ReviewedObjective ==
  goal.status = "done" =>
    \E i \in 1..Len(commits) :
      /\ commits[i].verdict = "pass"
      /\ dispatches[commits[i].dispatch].epoch = goal.epoch

(* A live pid on the goal is a process inside its cycle: otherwise the daemon      *)
(* would pass the goal over for as long as that process lives.                   *)
LivePidWorks == goal.pid \in Procs => pc[goal.pid] # "idle"

(* A decision committed for the pending claim reaches supervisor.json, unless the  *)
(* goal is taken out of the daemon's hands first.                                *)
CommittedIsShown ==
  \A c \in 1..MaxClaims :
    (goal.pending.claim = c /\ \E i \in 1..Len(commits) : commits[i].claim = c)
      ~> (goal.pending.claim # c \/ goal.status \notin {"active", "running"})

\* A goal is done, and its canonical task completed, by a committed pass of an
\* independent review and by nothing else (applyIndependentCompletionGrade).
CompletionIsGraded == DoneIsGraded /\ TaskFollowsCommit
=============================================================================
