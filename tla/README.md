# Major control plane: TLA+ verification

Major (the `project-baracks` repository) is a control plane that runs coding agents on a
developer's machine. Several processes share one machine without a server between them: a
background daemon, foreground runs, command-line calls, nested workers, sessions of the workstation
bundle, installers and the editors of the owner. They coordinate through JSON files guarded by lock
files, through one SQLite database with triggers, through a writer fence per repository and through
renames. This project models that coordination: who may run, who owns a task, what lands, when a
goal is done, and what a crash at any point leaves behind.

Paths below are relative to `src/` (so `src/supervisor/state.ts` is `src/src/supervisor/state.ts`
from the root that holds `tla/`). `PROJECT.json` maps every definition to its lines.

## Inventory

### Parts that are modelled

| Part | State | What makes it correct | Module |
|---|---|---|---|
| Store locks (`supervisor/resources.ts`, `state.ts`) | a lock file per JSON store | no completed operation is overwritten | `StoreLock` |
| Resource broker (`supervisor/resources.ts`, `worker.ts`) | leases and a queue, limits from memory and cores | limits kept at admission, in order, live leases survive, waiting ends | `ResourceBroker` |
| Tasks and claims (`domain/*`, `drizzle/0011_*.sql`) | status, fence, claims, recorded landings | an active claim owns its task, dependencies first, completion has proof | `TaskClaims` |
| Parallel dispatch (`supervisor/parallel-dispatch.ts`, `runtime.ts`) | a batch, a driver per task, a merge chain | one landing at a time, lost claims do not land, overlapping work apart | `ParallelDispatch` |
| Goal completion (`supervisor/state.ts`, `runtime.ts`, `cli.ts`, `drizzle/0023_*.sql`) | goal, review dispatches, receipts, commits | done only by a committed independent pass; repaired after a crash | `GoalCompletion` |
| Goal cycles and daemon (`supervisor/runtime.ts`, `state.ts`) | status, session, pid, pause, hops | a cycle and the owner never undo each other | `GoalCycles` |
| Goal ownership (`supervisor/state.ts`, `cli.ts`) | bindings, live-worker claims, leases | sessions and registry agree on who works where | `GoalOwnership` |
| Writer fence (`supervisor/repository-writer-fence.ts`) | lock file, contention file | one writer, nothing left behind, no commit after a refusal | `WriterFence` |
| Policy and trust (`supervisor/policy.ts`) | an unlocked store of trust and grades | trust is earned and the owner's word stands | `TrustPolicy` |
| Gateway, kill switch, staged leases, Workshop sessions (`security/*`) | executions, one-use leases, approvals, sessions | authority is used once and ends what runs on it | `ExecutionGateway` |
| Staged fields (`security/staged-validation.ts`) | leases from issue to evidence | a pass is of its run and its chain | `StagedFields` |
| Learning queue (`learning/queue.ts`) | `queue.jsonl`, claimed files, dead letters | no step vanishes, none is applied twice after a drain | `LearningQueue` |
| Learning stores (`learning/candidates.ts`) | project and global file, three locks | migration alone, counted once, no deadlock | `LearningStores` |
| Capability registry (`capabilities/registry.ts`) | source revision, verification, uses | used only on a proof of the present source | `CapabilityRegistry` |
| Provider accounts (`providers/discovery-store.ts`, ...) | availability, back-off, attestation | one retry per back-off, revoked stays revoked | `ProviderStore` |
| Routing (`routing/*`, `runtime.ts`) | a function of request and accounts | work stays with its provider and is not stranded | `RouteLadder` |
| Lima backend (`execution/lima-backend.ts`) | lock directory, manifests, guests, workspace | exclusive, recorded, the owner's edits survive | `LimaBackend` |
| Cursor runtime (`execution/cursor-acp-runtime.ts`, `security/provider-approval-policy.ts`) | one session with the agent | one approval one use, the model is held, no agent left | `CursorSession` |
| Skill bundles (`skills/sync.ts`) | bundles, links, marker | the active bundle is usable, its predecessor kept | `SkillBundles` |
| Generated skills (`skills/lifecycle.ts`) | candidates, grades, files | sessions load graded texts | `SkillLifecycle` |
| Releases (`scripts/install-*.sh`, `rollback-*.sh`) | lock, releases, history, gate | one transaction, true history, lessons kept | `ReleaseInstall` |
| User state (`scripts/activate-major-user-state.py`) | targets, backups | all or nothing, nothing lost | `UserStateActivation`, `AtomicSwitch` |
| Harness pin (`scripts/install-deepseek-harness-pin.sh`) | paths set aside, record | whole, undone or unrecorded | `HarnessPin` |
| Clean-up (`resources/*`) | roots, releases, run directories, archives | roots and pending runs are kept | `MachineCleanup` |
| Roadmap proposals (`roadmap/proposal-service.ts`) | rows and a remote sheet | rows tell what happened to the sheet | `RoadmapProposals` |
| Workstation bundle (`distribution/.../major-kernel/index.js`) | sessions, increments, leases | work is leased, one worker, reviews bind | `MajorKernel` |

`PROJECT.json` says for each part whether all of it is modelled, or what is left out.

### Parts that are not modelled

Rendering, argument parsing, text heuristics (skill resolver, decision kernel, writing), probes of
provider tools, path and environment checks, context packs, and the database client: I/O, or pure
functions of large inputs that no property here tells apart. SQLite is taken as serialisable
transactions. Each is listed under `components` with its reason.

### What is hard in this code

* **Lock files removed by name.** A stale lock is judged by its age and removed in a second step;
  store locks, writer fence, lock directories of installer and Lima backend all share this.
* **Two stores, no common transaction.** A grade is committed in SQLite and then written to
  `supervisor.json`; a landing is merged in git and then recorded; the sheet, the skill file and the
  files of a release are written beside the row that describes them.
* **Snapshots used minutes later.** Goal, batch, capability row, account list, clean-up plan and
  policy are read, something slow is awaited, and the result is written over whatever is there.
* **Leases against slow processes.** Heartbeats, expiry and recovery race; at the very instant of
  expiry a claim is neither live nor recoverable.
* **Deadlines judged on a snapshot.** A waiter decides to give up and cancels in another transaction.
* **Limits that move.** Worker slots depend on free memory, so they shrink under held leases.
* **Deaths in the middle of many renames.** Bundles, user state, the pin and releases.

## Modules

One module per component, every name of it with a prefix of its own (`Wf…`, `Ls…`, `Gw…`; the four
oldest ones use `Broker…`, `Lock…` and the plain names), so that modules can stand side by side.
`ParallelDispatch` extends `TaskClaims`: its database steps are `TaskClaims` actions, and
`ClaimsSpec` is the abstract specification it implements. `UserStateActivation` implements
`AtomicSwitch` under a refinement mapping. `*Proofs` modules hold theorems, `MC*` modules the values
of constants and the compositions below.

How state corresponds to code, where it is not evident from the module's own comments:

* **StoreLock.** `pc` is the line of the retry loop a process is at, `locked` and `age` are the lock
  file, `store` the operations the file reflects. `Stat` and `BreakStale` are two steps, as
  `statSync` and `unlinkSync` are. `Crash` leaves the file behind.
* **ResourceBroker.** `disk` is the store file, `work` the copy of the operation that holds the
  lock, `cursor` the loop of `promoteQueued` (one step per queue entry: drop, skip or grant).
  `st[o]` follows `runWorker`: idle, waiting, cancelling, holding, given up. Instants are time left.
* **TaskClaims.** Each action is one `BEGIN IMMEDIATE` transaction; a transaction that throws or
  that a trigger aborts is not enabled. A fence is a (task, attempt) pair anybody may present at any
  time, which is what a suspended worker does. A renewal must move the expiry strictly forward, as
  the trigger demands.
* **ParallelDispatch.** `mode` is the place in `runParallelGoalCycle`, `pc[t]` the place in
  `runOne`/`land`, `mergeq` the promise chain that serialises landings. Git, verification and
  agents are their outcomes. `fresh[t]` says that a branch was verified at the head it is merged on.
* **GoalCompletion.** `goal` is the row in `supervisor.json`; `dispatches` holds review dispatch,
  run and receipt in one record; `commits` is `supervisor_completion_commits`. `snap[p]` is the goal
  as the process read it. The text of the goal is an epoch number that the code does not have.
* **History variables** (`…Raced`, `…Stole`, `everQueued`, `recorded`, `grading`, …) say what has
  happened so that a property can speak of it; no guard reads them. Where a race that the code does
  not defend against breaks a promise, the property names the race instead of leaving it out:
  `wfTheft`, `tpRaced`, the thefts of the Lima lock, an inherited run of the bundle.

The `Name_Slip` operators in front of some definitions are plausible mistakes in that code (a
dropped guard, a wrong bound, a missing reset). Each checked property is paired in `PROJECT.json`
with one of them that it catches.

## Runs

The components share no state that is modelled here, so a passing run puts several of them side by
side: `MCGoals`, `MCMachine`, `MCUpkeep`, `MCDispatching` and `MCRecovery` have a variable `part` that
is chosen in the initial state and never changes; only that part moves, the others stay in one
initial state each. The run costs the sum of their states, not the product, and fairness is asked of
a part only when it is chosen. A property `XxSafe` is the conjunction of the type invariant and the
safety properties of module `Xx`, named and commented in that module.

| Run | Parts | What it shows |
|---|---|---|
| `goals` | completion, cycles, ownership, claims, fence, queue, stores, capability, provider, route, activation, bundles | Done is graded, each claim is decided once, claims own their tasks, and what a goal rests on keeps its promises through races and crashes. |
| `machine` | broker with nested owners, dispatch with a death, gateway, Lima with two processes, Cursor session, trust | Admission within limits and in order, overlapping work apart, authority used once, the owner's edits survive. |
| `upkeep` | releases, clean-up, pin, staged fields, roadmap, generated skills, bundle | Installation changes are whole, undone or recorded as what they are. |
| `dispatching` (fairness) | dispatch, broker, learning stores | Waiters are resolved, batches end, calls into the stores end; one landing at a time, lost claims do not land, landed work is not queued again. |
| `recovery` (fairness) | completion, gateway, store lock | A committed grade reaches the goal after a crash, the kill switch drains what runs, no update is lost with two processes. |
| `storelock_crash` (violation) | store lock, 3 processes | After a death two waiters judge the same file stale and an update is lost. |
| `dispatch_stuck` (violation) | dispatch | A death between record and `completeClaim` leaves a claim no later cycle recovers. |
| `goal_refine` (violation) | completion | A redefinition during a review dispatch is undone by it. |
| `lima_leftovers` (violation) | Lima backend | A run with a fenced lease leaves a directory no later call can read past. |
| `ownership_lease` (violation) | ownership | An admission from another worktree does not see the worker's lease. |
| `rollback_lessons` (violation) | releases | A rollback overwrites a lesson captured beside it. |
| `cleanup_archive` (violation) | clean-up | A second cleaner trusts a half-written archive and removes the only whole copy. |

The seven violations are findings: each quotes in `PROJECT.json` the comment or document that says
otherwise.

### Bounds

Every bound is a named constant or a guard on one (`MaxOps`, `MaxId`, `MaxAttempts`, `MaxClaims`,
`…MaxCrashes`, `…Edits`, `…MaxTime`). They are large enough for the cases the properties are about:

* two processes are what the races of locks, snapshots and takeovers need; the third process of
  `storelock_crash` and the third session of the roadmap are there because two are not enough;
* two tasks and two drivers are what overlap, serialisation and dependency are about, and a second
  attempt is what a stale worker needs;
* three owners give a parent, its child and a competitor for the slot; the memory levels lie on both
  sides of the soft floor or give one and two slots;
* lease times are the smallest that separate live, expired-but-not-recoverable and recoverable;
* one death is allowed wherever the code persists something, so that every step of the part can be
  its last; three releases or bundles give an active, a previous and an older one.

Symmetry is used for processes and sources that are only compared with each other, and never in a
run with a liveness property. Deadlock checking is off in the composed runs, because a part in which
everybody is done, dead or at its bound stops; that calls and waits end is stated as a property
instead.

### Fairness

* Broker: the lock holder runs on (its section is synchronous), waiters poll every 250 ms or hit the
  lock's own deadline, and time passes. Nobody is assumed to release, heartbeat or call again.
* Dispatch: cycles are started again, every agent and git command ends (they run under timeouts),
  time passes. Neither the owner nor other dispatchers have to act.
* Learning stores: a process at a step takes it, and strong fairness for the deadline of a call,
  which is looked at in every turn of a loop that others can make it wait in.
* Goal: the daemon keeps starting cycles (its loop) and a process that has started a cycle runs on
  unless it crashes.
* Gateway: the watcher of an execution looks again and again (an interval timer), and a provider
  that is cancelled ends (it is killed after a grace period).

### Assumptions to keep in mind

* `LockPrompt` in `StoreLock` and `Prompt` in `ParallelDispatch`: no process is suspended between a
  check and the step it guards for longer than the stale age or the lease. Without it a sleeping
  laptop loses an update or lands a lost claim. TLC finds both, and the code has no defence against
  either.
* `OwnerWaits` in `GoalCompletion`: the owner redefines a goal only between cycles. `goal_refine`
  shows what happens otherwise.
* `goals` has one cycle process in its completion part. With a daemon and a foreground run,
  `ClaimDecidedOnce` fails: the goal is read before the fence is taken, so a claim rejected by the
  first process is decided again by the second. Of the proved properties only this one needs the
  restriction (`OneCycle`).
* `docs/architecture.md:73` says parent links enforce `subagent_depth <= 1`; the code has no cap
  unless `MAJOR_MAX_SUBAGENT_DEPTH` is set. The model takes the cap as a constant.

## Proofs

TLAPS proves the following for all values of the constants that satisfy the named assumptions of
each module (`StoreLockAssumption`, `BrokerAssumption`, ...), which TLC evaluates in the runs. The
assumptions say that bounds are numbers and that placeholders (`CyNone`, `RtNone`, `LsDead`, ...)
are nobody's name. The theorems stand in eight modules: one each for the broker, the
claims, the dispatcher and goal completion; `GoalProofs` for cycles, ownership, roadmap proposals,
generated skills and the workstation kernel; `AuthorityProofs` for trust, gateway, capabilities,
providers, routes, staged fields, the Lima backend and the Cursor session; `FileProofs` for the store
lock, the protocols over files and the clean-up of the machine; `LibraryProofs` for the learning
queue and the skill bundles.

| Theorem | States | Argument |
|---|---|---|
| `LockNoLostUpdate` | `NoLostUpdate`, assuming `CrashFree` and `LockPrompt` | `LockInv`: one holder, the file exists exactly while there is one and is then not stale, so nobody reaches the removal; a writer's copy equals the store. |
| `BrokerTyped`, `BrokerOneEntry`, `BrokerLiveLease` | types; one entry per kind and owner; only stale or released leases leave the store | `BrokerInv`: the same facts for file and working copy, ids are unique and drawn before use, and a lease missing from the working copy is one that may go (`Classified`). The copy is needed because a removal is decided steps before it is written. |
| `AdmissionIsInOrder` | `AdmissionInOrder`: one entry per use, nesting is a chain, no grant beyond the limits, before an earlier request of its kind or under a parent that is gone | `AdmissionInv` with `BrokerInv`: the chain of depths in file and copy, numbers drawn before they are used, and `PassInOrder`, which relates what the pass has added to the limits it read and to the queue entries before its cursor. Ageing an entry is a bijection, so it keeps every count. |
| `ClaimsOwnTasks`, `StatusIsFenced`, `DependenciesCompleted` | ownership, fencing, dependency order | `ClaimInv` adds that attempts have no gaps (`Consecutive`), which makes the newest attempt the only one that can be active. `DependenciesFirst` follows from it, because a completed task never leaves that status and only `ready -> queued` leads out of the early statuses. |
| `CompletedOnProof` | a task is completed only on recorded evidence | the only entry to `completed` is the guarded gate, and a record is never taken back. |
| `LandingsSerialised` | at most one result lands at a time | `DispatchInv`: the merge queue holds each waiting driver once, drivers hold fences and exist only in a batch. |
| `DispatchImplementsClaims` | `Spec => ClaimsSpec` | every step of the dispatcher is a step of the claim protocol or leaves the database alone; `DispatchInv` supplies that a driver's attempt is one of `Attempts`. |
| `OnlyLiveClaimsLand` | with `Prompt`, the claim is live at the merge | ownership carries over by refinement; nothing but time ends a live lease between the renewal and the merge. |
| `LandedIsNotRequeued` | `NoRequeueAfterLanding`, assuming `Prompt` and `MaxCrashes = 0` | `LandedHeld`: while a task whose running attempt has landed is still `running`, the driver that merged it is on its way to record or park it, and its claim is live. Both hypotheses are needed: a death between the fast-forward and the record does requeue the task, and so does a lease that runs out in between. Run `dispatching` makes the same assumptions. |
| `DispatchIsSafe` | `DispatchSafe`: types, workers that run at once have disjoint paths, one task in the gate, a running task has a claim, deaths included | `DriversApart` and `ClosingMoved` with `DispatchInv`. The batch is chosen greedily in the order of the tasks; that it is pairwise disjoint is proved for every set of tasks by a least counterexample (`Smallest`, from the well-foundedness of `Nat`), because the greedy selection is a recursive function. Its hypothesis is that the owner does not put a task into `running`, `reviewing` or `ready_to_merge` by hand, which is what the command line offers but no document asks for. |
| `GoalTypeCorrect`, `DoneGraded`, `TaskCommit`, `LivePid`, `CompletionGraded` | types with the attempt limit; done is graded; the task is completed exactly by a committed pass; no live pid stays behind | `GoalInv`: the lock is held from transaction to write, a reviewer has a dispatch of its own without a receipt, a grade works on the pending claim's receipt, each commit repeats its receipt, a pid belongs to a process that will still clear it. |
| `DecidedOnce` | `ClaimDecidedOnce` for any number of graders, deaths and redefinitions, assuming one cycle process (`OneCycle`) | `OnceInv` with `GoalInv`: a decided claim that is pending again is the newest decision's (`Lingering`), the cycle that finds it so holds that decision and writes it over the goal before it reads (`RecoverFinds`), and what a cycle read is undecided wherever it would start a review of it (`ReviewFinds`). Every step is quiet about decisions, puts back the claim that was read, or is one of six decisive actions (`DecisionFrame`). Without `OneCycle` it is false. |
| `FenceIsSafe` | `WfSafe` for any number of processes and deaths | `WfInv`: types; a lock file that exists was created by somebody; and, unless a live file was stolen between look and unlink (`wfTheft`), a process in the section is the one the lock file names, and one whose section was marked still has the contention file. |
| `ActivationIsSafe` | `AcSafe`: implements `AtomicSwitch`, loses no file before it has committed | `AcInv`: for each entry, what is at target, backup and source by its place relative to the cursor, in each direction of the cursor. |
| `TrustIsSafe` | `TpSafe`, also when commands overwrite one another | what a process has read and computed is a state the store may be in, so that writing it late breaks nothing that is not excepted by `tpRaced`. |
| `StoresAreSafe` | `LsSafe`: a migration is alone with the project's stores, a candidate is counted once, nothing is taken back | `LsInv`: each lock file names exactly the process that is at a place where the lock is held; while one merges nobody has the project's lock for good; what a promotion read is what the project's store still holds, because it keeps that lock while it seeks the global one. |
| `CyclesAreSafe` | `CySafe` for any processes, failure limits and hops | `CyInv`: one process has the writer fence; a worker that runs works on the present text unless the goal was redefined under it (`cyLate`); what a cycle finds paused when it settles was paused after its second read. |
| `OwnershipIsSafe` | `GoSafe` for any sessions, goals, worktrees and window | `GoInv`: an admission under way has its goal and its worktree; a session that believes in its work within the window is the one the goal names, and the goal's heartbeat is no older than the belief. |
| `GatewayIsSafe` | `GwSafe` for any executions, leases, approvals and sessions | `GwInv`: nothing has started under a lease that may still be taken, only consumed approvals have been used, and only staged executions outside the host have a lease at all. |
| `CapabilitiesAreSafe` | `CpSafe` for any resolvers and revisions | `CpInv`: a resolver began at a revision that was installed then, and from the withdrawal to its plan nothing but a racing reviewer makes an older source usable again. |
| `ProvidersAreSafe` | `PvSafe` for any accounts and dispatchers | `PvInv`: a back-off that may still be spent was not spent before, and what a synchronisation revoked is prohibited and not among what it goes on to import. |
| `RoutesAreSafe` | `RtSafe` for any accounts, providers, classes and default | no invariant: each answer is a function of the request. The first free account exists by taking the least index four times over (`RtSmallest`, from the well-foundedness of `Nat`), once per rung of the ladder. |
| `StagedFieldsAreSafe` | `SfSafe` for any cases, leases and files | `SfInv`: what an issued lease builds on is over, so it stays as it was when the lease was issued; a lease that is validated or passed had the run its case asks for, and only a run is recorded as interrupted. |
| `ProposalsAreTrue` | `RpSafe` for any callers, updates, attempts and lease | `RpInv`: two callers never claim the same attempt; a row rejected or superseded is of an update that did not reach the sheet; who may still write it holds the row's attempt, who settles it with a "no" brings the truth, and nobody is about to supersede it on a stale one. |
| `SkillsAreGraded` | `SlSafe` for any processes, tasks and goals | `SlInv`: what a candidate was approved for and what was promoted of it are graded texts; a process between the two writes of a promotion has the store's lock, which keeps the candidate's text the one that was graded. |
| `InstallsAreSafe` | `InSafe` for any processes, releases and deaths | `InInv`: unless a live process lost its lock directory to a reclaim (`inTheft`), who is inside a transaction made that directory, a release directory it made is of a release that never was active, and an install from staging to activation has the migration lock and keeps the writers out; without a death the last line of the history is the active release, except between activation and record, and who stopped the legacy service is still to restart or replace it. |
| `PinsAreWhole` | `PnSafe` for any number of installs, the trap and kills included | `PnInv`: which paths are set aside, staged, removed or put back by the place of the cursor in `PnManaged`. An install cut short while it sets the old state aside had not reached the record, which is last in that order. |
| `CleanupIsSafe` | `McSafe` for any cleaners, releases, runs and deaths | `McInv`: while no installer works beside a cleaner, active and rollback releases have snapshot and worker, a plan names neither, and the history ends with the active release except between activation and record; a planned run has a newer one that is still there, and only the newest run can have paths in the guest. The part about runs holds with installers beside cleaners, too. That the newest line of another release exists is taken from a least counterexample (`LastPlace`). |
| `QueueIsSafe` | `LqSafe` for any steps, processes, deaths and attempts | `LqInv`: a step that was run is applied, dead, one of the two losses, or in the queue, with an appender, in a file still to be read or in the lines still to be replayed (`LqKept`); every line, wherever it is, has failed more often than it says. A file being replayed does not keep its lines, for it will be unlinked. `LqCopyInv`: the applications of a step, its lines in the main file and its lines that a drain has taken, or left at its death, and may still replay are together at most 2^`lqCrashes`, as are its lines in any one file, and a step nobody ran has none (`LqBound`). The death of a drain leaves a file of lines some of which were applied, so it can double the sum and nothing else can raise it. That powers of two double and grow is proved by counting subsets (`LqDoubles`, `LqPowerGrows`). |
| `BundlesAreSafe` | `SkSafe` for any bundles, commands, faults and kills | `SkInv`: of two directories one is the newer; unless commands were mixed, a command is alone (`SkAlone`) and what host link, marker and current link hold is settled by how many of them it has renamed, in either direction (`SkUnder`); as long as nothing has failed, the predecessor that is recorded or about to be is retained (`SkGoesBack`). Retention keeps it because it is the first of its rows, and it keeps no more rows than its number says (`SkKeptFew`). |
| `SessionIsSafe` | `CsSafe` for any actions, tools, models and orders of the agent's messages | `CsInv`: with `CsSafe`, once an action is granted on an approval no decision with its digest is left to consume (`CsSpent`). Actions with one digest are classified alike, so a second of them finds nothing either. |
| `IncrementsAreSafe` | `KnSafe` for any sessions, goals, slots, turns and restarts | `KnInv`: a goal is in the broker's queue once and not while it has a lease, and there are no more leases than slots, which every step of a pass over the queue keeps (`KnBroker`); and what each session's turn may rely on at its place: the lease of this boot unless it was inherited, its claim on the project unless that was taken over, what its worker did and reported, and the files as its review found them (`KnGoodTurn`). |
| `LimaIsSafe` | `LimaSafe` for any processes, runs, files, edits and deaths | `LiInv`: unless a living process lost its lock to a reclaim (`limaStolen`), the lock directory names the one process inside (`LiLock`), and of its run that process finds a manifest under way from the step that writes it to the one that records its end, with guest directories only then (`LiGood`); a delta in the workspace is recorded as a success, about to be by the process inside, or its process died (`LiSettled`). Types and the survival of the owner's edits hold after a theft, too. |

The proof of `ProposalsAreTrue` corrected the exception it makes. The comment at
`roadmap/proposal-service.ts:328` takes the window between a lapsed lease and a late write to be
harmless, because the next apply finds the key in the sheet. It is not always: a row requeued on an
answer from before that write landed can later be superseded by a stale "moved" answer although the
change is in the sheet. `rpLate` therefore names an update requeued while its write was on its way, or
while somebody had yet to act on a "no" given before that write arrived.

The proof of `LimaIsSafe` corrected `LimaCopyBack` and `LimaReconcileOne`: both write a manifest whole,
as they hold it in memory (`execution/lima-backend.ts:1261` and `1544`). So a run that goes on after
its lock was stolen overwrites the terminal manifest a later call has written for it, and that call may
record as failed what succeeded after it had read the manifests.

The proof about the learning queue led to `LqWrite` appending also to a file that is being replayed:
such a line is not seen by that drain, but comes back if the drain dies before it unlinks the file.

Three definitions were restated so that they could be reasoned about, with the same behaviour:
`CsApprovedOnce` says of single actions what a sum over a digest's actions said before, the pass of the
workstation kernel's broker promotes a prefix of its queue (`KnPromoted`), and the ages of skill
bundles are an order (`skNewer`) and no list, so that what retention removes is a count of newer ones.

Where a theorem states the property of a run, the run shows it on a small instance, inductive
invariants included (they were checked by TLC as invariants before they were proved).

Every safety invariant, action property and refinement that a passing run checks is stated by a
theorem. Out of the prover's reach, and only model-checked:

* everything under fairness (`BatchEnds`, `WaiterResolved`, `LsCallEnds`, `CommittedIsShown`,
  `GwStopDrains`);
* what a recursive definition computes for every input, beyond what a least counterexample or a count
  of subsets gives. The theorems use of such definitions only what was proved of them.

## What is left out of the modelled parts

* Task creation, suggestions, findings and the editing of evidence; a task starts as a draft and a
  landing proves its criteria or does not (`Provable`).
* Several goals in one `supervisor.json`, and the pacing of cycles.
* In `GoalCompletion` taking the writer fence is one step; `WriterFence` has its file operations.
  In `ReleaseInstall` the activation of user state is one step; `UserStateActivation` has its renames.
* Worktree rows, prompts and logs; what a git, tar, virtual-machine or provider command does beyond
  its outcome.

## Plan

No property of a passing run is left without a theorem but those of liveness. What could follow is a
model of parts that have none (see the components above): first the skill resolver, then the command
line's own transactions.

## Running

From this directory, `tlc -config Goals.cfg MCGoals` checks one run (up to four minutes with two
workers) and `tlapm GoalCompletionProofs.tla` one module of proofs (seconds to ten minutes).
