---------------------------- MODULE MajorKernel -----------------------------
(***************************************************************************)
(* The workstation bundle (bundles/major-kernel/index.js): sessions of one  *)
(* DSH process turn a message or a /major command into one increment of     *)
(* Major. An increment admits the goal of the project, is routed, waits for *)
(* a worker lease, runs a worker, reports, and leaves a receipt; a command  *)
(* then has the workspace reviewed. Each subprocess of the Major CLI is one *)
(* step; between two steps anybody else moves, the user aborts, claims and  *)
(* leases age, and the process may be restarted.                            *)
(***************************************************************************)
EXTENDS Naturals, FiniteSets, Sequences

CONSTANTS KnSessions,   \* sessions of the DSH process
          KnGoals,      \* projects, each with its one open goal
          KnRoutes,     \* what MAJOR_DSH_EXECUTION_ENVIRONMENT may say
          KnSlots,      \* worker leases the broker grants at once
          KnTurns,      \* bound: turns of a session
          KnEdits,      \* bound: writes in a workspace by others
          KnBoots,      \* bound: lives of the DSH process
          KnNone

KnModes == {"composer", "command"}
KnClaims == [by : KnSessions \X KnModes, fresh : BOOLEAN]
KnLeases == [pid : 1..KnBoots, lapsed : BOOLEAN]

ASSUME KnAssumption ==
  /\ KnSlots \in Nat \ {0} /\ KnTurns \in Nat /\ KnEdits \in Nat /\ KnBoots \in Nat \ {0}
  /\ KnRoutes \subseteq {"native", "legacy", "bad"}
  /\ KnNone \notin KnClaims \cup KnLeases

VARIABLES
  knGoal,    \* per session: the goal of its project, for good
  knBoot,    \* which life of the process this is: its pid
  knRoute,   \* how this life executes an increment
  knRun,     \* per session: its turn
  knClaim,   \* per goal: liveWorker in the state file
  knLease,   \* per goal: the lease owned by dsh-goal-<id>, or KnNone
  knQueue,   \* the broker's queued requests
  knCycle,   \* per goal: its cycle
  knFiles,   \* per goal: the workspace, as a version
  knEdits

knVars == <<knGoal, knBoot, knRoute, knRun, knClaim, knLease, knQueue, knCycle, knFiles, knEdits>>

KnSteps == {"idle", "admit", "show", "route", "acquire", "wait", "work", "report", "release",
            "run", "after", "review", "reviewing"}
KnEnds == {"none", "answered", "error", "cancelled", "completed", "reviewed", "lost"}
\* worked, told, hops, stolen, inherited and touched are history.
KnIdle == [pc |-> "idle", mode |-> "composer", turns |-> 0, aborted |-> FALSE, before |-> 0,
           ok |-> FALSE, end |-> "none", worked |-> FALSE, told |-> FALSE, hops |-> 0,
           stolen |-> FALSE, inherited |-> FALSE, touched |-> FALSE]

KnInit ==
  /\ knGoal \in [KnSessions -> KnGoals]
  /\ knBoot = 1 /\ knRoute \in KnRoutes
  /\ knRun = [s \in KnSessions |-> KnIdle]
  /\ knClaim = [g \in KnGoals |-> KnNone]
  /\ knLease = [g \in KnGoals |-> KnNone]
  /\ knQueue = <<>>
  /\ knCycle = [g \in KnGoals |-> 0]
  /\ knFiles = [g \in KnGoals |-> 0]
  /\ knEdits = 0

KnSet(s, r) == knRun' = [knRun EXCEPT ![s] = r]
KnGoes(s, pc) == KnSet(s, [knRun[s] EXCEPT !.pc = pc])

(***************************************************************************)
(* A turn                                                                   *)
(***************************************************************************)

\* configuredRuntimeRoute: an environment the bundle does not know is refused,
\* before there is a run to record.
KnKnown == knRoute # "bad"

\* The composer adapter's stream: a greeting is answered on the spot, anything
\* else is one increment.
KnMessage(s) ==
  /\ knRun[s].pc = "idle" /\ knRun[s].turns < KnTurns
  /\ LET turn == [KnIdle EXCEPT !.turns = knRun[s].turns + 1] IN
     KnSet(s, IF KnKnown THEN [turn EXCEPT !.pc = "admit"]
              ELSE [turn EXCEPT !.end = "error"])
  /\ UNCHANGED <<knGoal, knBoot, knRoute, knClaim, knLease, knQueue, knCycle, knFiles, knEdits>>
KnGreeting(s) ==
  /\ knRun[s].pc = "idle" /\ knRun[s].turns < KnTurns
  /\ KnSet(s, [KnIdle EXCEPT !.turns = knRun[s].turns + 1, !.end = "answered"])
  /\ UNCHANGED <<knGoal, knBoot, knRoute, knClaim, knLease, knQueue, knCycle, knFiles, knEdits>>

\* The /major command, between its turn/start and turn/end.
KnCommand(s) ==
  /\ knRun[s].pc = "idle" /\ knRun[s].turns < KnTurns
  /\ LET turn == [KnIdle EXCEPT !.turns = knRun[s].turns + 1, !.mode = "command"] IN
     KnSet(s, IF KnKnown THEN [turn EXCEPT !.pc = "admit"]
              ELSE [turn EXCEPT !.end = "error"])
  /\ UNCHANGED <<knGoal, knBoot, knRoute, knClaim, knLease, knQueue, knCycle, knFiles, knEdits>>

\* The receipt every run leaves: its outcome. The rest of it is measurement.
KnReceipt(r, ok) ==
  CASE ok -> "completed"
    [] ~ok /\ r.aborted -> "cancelled"
    [] OTHER -> "error"

\* The provider's two outcomes, each with its receipt, and what the turn makes
\* of them: a completed command goes on to its review.
KnSettled(r, ok) ==
  IF ok THEN [r EXCEPT !.pc = IF r.mode = "command" THEN "review" ELSE "idle",
                       !.ok = TRUE, !.end = KnReceipt(r, ok)]
  ELSE [KnIdle EXCEPT !.turns = r.turns, !.end = KnReceipt(r, ok)]

\* The user's abort, or dispose: it is looked at by the next step.
KnAbort(s) ==
  /\ knRun[s].pc # "idle" /\ ~knRun[s].aborted
  /\ KnSet(s, [knRun[s] EXCEPT !.aborted = TRUE])
  /\ UNCHANGED <<knGoal, knBoot, knRoute, knClaim, knLease, knQueue, knCycle, knFiles, knEdits>>

\* runProcess: the CLI refuses, answers what cannot be read, or is killed with
\* the abort, before it has changed anything. Nothing is leased yet.
KnFails(s) ==
  /\ knRun[s].pc \in {"admit", "show", "route", "acquire", "wait", "run", "after"}
  /\ knRun[s].pc = "wait" => knRun[s].aborted
  /\ KnSet(s, KnSettled(knRun[s], FALSE))
  /\ UNCHANGED <<knGoal, knBoot, knRoute, knClaim, knLease, knQueue, knCycle, knFiles, knEdits>>

\* A step that succeeds is one whose signal has not been aborted.
KnGoesOn(s, pc) == knRun[s].pc = pc /\ ~knRun[s].aborted

(***************************************************************************)
(* Admission and routing                                                    *)
(***************************************************************************)

\* A message claims as the native app, a command as the session's host.
KnWho(s) == <<s, knRun[s].mode>>

\* claimLiveWorker: free, one's own, or without a heartbeat for too long. The
\* bundle never sends one.
KnOwns(s) ==
  LET c == knClaim[knGoal[s]] IN c = KnNone \/ (c # KnNone /\ (c.by = KnWho(s) \/ ~c.fresh))

\* admitMajorTask: a goal somebody else works on is refused.
KnAdmit(s) ==
  LET g == knGoal[s]
      robbed(t) == knClaim[g] # KnNone /\ ~knClaim[g].fresh /\ t # s /\ knClaim[g].by = KnWho(t)
  IN
  /\ KnGoesOn(s, "admit")
  /\ IF KnOwns(s)
     THEN /\ knClaim' = [knClaim EXCEPT ![g] = [by |-> KnWho(s), fresh |-> TRUE]]
          /\ knRun' = [t \in KnSessions |->
                CASE t = s -> [knRun[t] EXCEPT !.pc = "show"]
                  [] robbed(t) -> [knRun[t] EXCEPT !.stolen = TRUE]
                  [] OTHER -> knRun[t]]
     ELSE /\ KnSet(s, KnSettled(knRun[s], FALSE))
          /\ UNCHANGED knClaim
  /\ UNCHANGED <<knGoal, knBoot, knRoute, knLease, knQueue, knCycle, knFiles, knEdits>>

\* goal show, which both ways of executing begin with.
KnShow(s) ==
  /\ KnGoesOn(s, "show")
  /\ KnSet(s, [knRun[s] EXCEPT !.pc = IF knRoute = "native" THEN "route" ELSE "run",
                               !.before = knCycle[knGoal[s]]])
  /\ UNCHANGED <<knGoal, knBoot, knRoute, knClaim, knLease, knQueue, knCycle, knFiles, knEdits>>

\* goal route-execution, the run limit and the adapter of the selected host.
KnRouted(s) ==
  /\ KnGoesOn(s, "route") /\ KnGoes(s, "acquire")
  /\ UNCHANGED <<knGoal, knBoot, knRoute, knClaim, knLease, knQueue, knCycle, knFiles, knEdits>>

(***************************************************************************)
(* The worker lease                                                         *)
(***************************************************************************)

\* Slip: the clock alone decides.
KnActive_ClockOnly(l) == l # KnNone /\ ~l.lapsed

\* leaseIsActive: a lease lives while its time lasts or its process does.
KnActive(l) == l # KnNone /\ (~l.lapsed \/ l.pid = knBoot)

\* prune.
KnPruned == [g \in KnGoals |-> IF KnActive(knLease[g]) THEN knLease[g] ELSE KnNone]
KnHeld(leases) == {g \in KnGoals : leases[g] # KnNone}

KnRoom(leases) == Cardinality(KnHeld(leases)) < KnSlots

\* promoteQueued, for the one kind there is here: the first ones, while there is room.
KnPlace(g) == CHOOSE i \in DOMAIN knQueue : knQueue[i].goal = g
KnPromoted ==
  LET room == KnSlots - Cardinality(KnHeld(KnPruned))
      n == IF room < Len(knQueue) THEN room ELSE Len(knQueue)
  IN [leases |-> [g \in KnGoals |-> IF \E i \in 1..n : knQueue[i].goal = g
                                    THEN [pid |-> knQueue[KnPlace(g)].pid, lapsed |-> FALSE]
                                    ELSE KnPruned[g]],
      queue |-> SubSeq(knQueue, n + 1, Len(knQueue))]

\* requestResource for the owner of the goal, whoever it was that asked before.
KnRequested(s) ==
  LET g == knGoal[s]
      st == KnPromoted
  IN CASE st.leases[g] # KnNone -> st
       [] st.leases[g] = KnNone /\ (\E i \in DOMAIN st.queue : st.queue[i].goal = g) -> st
       [] OTHER ->
            IF KnRoom(st.leases)
            THEN [st EXCEPT !.leases[g] = [pid |-> knBoot, lapsed |-> FALSE]]
            ELSE [st EXCEPT !.queue = Append(@, [goal |-> g, pid |-> knBoot])]

KnAsked(s) == knLease' = KnRequested(s).leases /\ knQueue' = KnRequested(s).queue

\* acquireWorkerLease: one round of it.
KnAcquire(s) ==
  LET l == KnRequested(s).leases[knGoal[s]] IN
  /\ KnGoesOn(s, "acquire")
  /\ KnAsked(s)
  /\ KnSet(s, [knRun[s] EXCEPT !.pc = IF l # KnNone THEN "work" ELSE "wait",
                               !.inherited = l # KnNone /\ l.pid # knBoot])
  /\ UNCHANGED <<knGoal, knBoot, knRoute, knClaim, knCycle, knFiles, knEdits>>
\* Aborted when the broker has answered: the grant or the place in the queue stays.
KnAcquireCut(s) ==
  /\ knRun[s].pc = "acquire" /\ knRun[s].aborted
  /\ KnAsked(s)
  /\ KnSet(s, KnSettled(knRun[s], FALSE))
  /\ UNCHANGED <<knGoal, knBoot, knRoute, knClaim, knCycle, knFiles, knEdits>>
KnPoll(s) ==
  /\ KnGoesOn(s, "wait") /\ KnGoes(s, "acquire")
  /\ UNCHANGED <<knGoal, knBoot, knRoute, knClaim, knLease, knQueue, knCycle, knFiles, knEdits>>

(***************************************************************************)
(* A native increment                                                       *)
(***************************************************************************)

\* Every write in a workspace, noted for the reviews that are looking at it.
KnWrite(g, run) ==
  /\ knFiles' = [knFiles EXCEPT ![g] = @ + 1]
  /\ knRun' = [t \in KnSessions |->
       IF knGoal[t] = g /\ run[t].pc = "reviewing" THEN [run[t] EXCEPT !.touched = TRUE]
       ELSE run[t]]

\* The worker of settleSubagent writes and ends: completed, or not.
KnWork(s) ==
  /\ knRun[s].pc = "work" /\ ~knRun[s].worked
  /\ KnWrite(knGoal[s], [knRun EXCEPT ![s].worked = TRUE])
  /\ UNCHANGED <<knGoal, knBoot, knRoute, knClaim, knLease, knQueue, knCycle, knEdits>>

\* Only a worker that completed is reported.
KnCompleted(s) == knRun[s].pc = "work" /\ knRun[s].worked /\ ~knRun[s].aborted
KnWorkDone(s) ==
  /\ KnCompleted(s) /\ KnGoes(s, "report")
  /\ UNCHANGED <<knGoal, knBoot, knRoute, knClaim, knLease, knQueue, knCycle, knFiles, knEdits>>
\* An error, the run limit or the abort.
KnWorkFails(s) ==
  /\ knRun[s].pc = "work"
  /\ KnSet(s, [knRun[s] EXCEPT !.pc = "release", !.ok = FALSE])
  /\ UNCHANGED <<knGoal, knBoot, knRoute, knClaim, knLease, knQueue, knCycle, knFiles, knEdits>>

\* goal report; cut short it may have been stored all the same.
KnReport(s) ==
  /\ KnGoesOn(s, "report")
  /\ KnSet(s, [knRun[s] EXCEPT !.pc = "release", !.ok = TRUE, !.told = TRUE])
  /\ UNCHANGED <<knGoal, knBoot, knRoute, knClaim, knLease, knQueue, knCycle, knFiles, knEdits>>
KnReportFails(s) ==
  /\ knRun[s].pc = "report"
  /\ \E stored \in BOOLEAN :
       KnSet(s, [knRun[s] EXCEPT !.pc = "release", !.ok = FALSE, !.told = stored])
  /\ UNCHANGED <<knGoal, knBoot, knRoute, knClaim, knLease, knQueue, knCycle, knFiles, knEdits>>

\* releaseWorkerLease: the CLI asks for a --fence the bundle does not pass, so
\* each attempt is refused and the lease stays. The outcome is not changed by it.
KnRelease(s) ==
  /\ knRun[s].pc = "release"
  /\ KnSet(s, KnSettled(knRun[s], knRun[s].ok))
  /\ UNCHANGED <<knGoal, knBoot, knRoute, knClaim, knLease, knQueue, knCycle, knFiles, knEdits>>

(***************************************************************************)
(* A legacy increment                                                       *)
(***************************************************************************)

\* major run --foreground: a cycle of the goal, or none because somebody else
\* holds the repository's lock.
KnForeground(s) ==
  LET g == knGoal[s] IN
  /\ KnGoesOn(s, "run")
  /\ \E hops \in {0, 1} :
       /\ knCycle' = [knCycle EXCEPT ![g] = @ + hops]
       /\ KnSet(s, IF hops = 0 THEN KnSettled(knRun[s], FALSE)
                   ELSE [knRun[s] EXCEPT !.pc = "after", !.hops = hops])
  /\ UNCHANGED <<knGoal, knBoot, knRoute, knClaim, knLease, knQueue, knFiles, knEdits>>

\* goal show again: the cycle must have advanced.
KnAfter(s) ==
  /\ KnGoesOn(s, "after")
  /\ KnSet(s, KnSettled(knRun[s], knCycle[knGoal[s]] > knRun[s].before))
  /\ UNCHANGED <<knGoal, knBoot, knRoute, knClaim, knLease, knQueue, knCycle, knFiles, knEdits>>

(***************************************************************************)
(* The independent review of a command                                      *)
(***************************************************************************)

\* hashReviewWorkspace: every file, mode, directory and link, and git's control
\* files; it throws past its limits.
KnHash(g) == knFiles[g]

KnReview(s) ==
  /\ knRun[s].pc = "review"
  /\ \/ KnSet(s, [knRun[s] EXCEPT !.pc = "reviewing", !.before = KnHash(knGoal[s])])
     \/ KnSet(s, KnSettled(knRun[s], FALSE))
  /\ UNCHANGED <<knGoal, knBoot, knRoute, knClaim, knLease, knQueue, knCycle, knFiles, knEdits>>

KnUnchanged(s) == KnHash(knGoal[s]) = knRun[s].before

\* The reviewer ends, and the finally compares; a changed workspace is an error
\* whatever the reviewer said.
KnReviewed(s) ==
  /\ knRun[s].pc = "reviewing"
  /\ \/ /\ KnUnchanged(s) /\ ~knRun[s].aborted
        /\ KnSet(s, [knRun[s] EXCEPT !.pc = "idle", !.end = "reviewed"])
     \/ KnSet(s, KnSettled(knRun[s], FALSE))
  /\ UNCHANGED <<knGoal, knBoot, knRoute, knClaim, knLease, knQueue, knCycle, knFiles, knEdits>>

(***************************************************************************)
(* What else happens                                                        *)
(***************************************************************************)

\* A reviewer that leaves plan mode, or anybody else, writes in the workspace.
KnEdit(g) ==
  /\ knEdits < KnEdits /\ knEdits' = knEdits + 1
  /\ KnWrite(g, knRun)
  /\ UNCHANGED <<knGoal, knBoot, knRoute, knClaim, knLease, knQueue, knCycle>>

\* 45 minutes without a heartbeat; the time to live of a lease and its grace.
KnStale(g) ==
  /\ knClaim[g] # KnNone /\ knClaim[g].fresh
  /\ knClaim' = [knClaim EXCEPT ![g].fresh = FALSE]
  /\ UNCHANGED <<knGoal, knBoot, knRoute, knRun, knLease, knQueue, knCycle, knFiles, knEdits>>
KnLapse(g) ==
  /\ knLease[g] # KnNone /\ ~knLease[g].lapsed
  /\ knLease' = [knLease EXCEPT ![g].lapsed = TRUE]
  /\ UNCHANGED <<knGoal, knBoot, knRoute, knRun, knClaim, knQueue, knCycle, knFiles, knEdits>>

\* The process ends, its workers and subprocesses with it, and is started again.
KnRestart ==
  /\ knBoot < KnBoots /\ knBoot' = knBoot + 1
  /\ knRoute' \in KnRoutes
  /\ knRun' = [s \in KnSessions |->
        [KnIdle EXCEPT !.turns = knRun[s].turns,
                       !.end = IF knRun[s].pc = "idle" THEN "none" ELSE "lost"]]
  /\ UNCHANGED <<knGoal, knClaim, knLease, knQueue, knCycle, knFiles, knEdits>>

KnNext ==
  \/ \E s \in KnSessions :
       \/ KnMessage(s) \/ KnGreeting(s) \/ KnCommand(s) \/ KnAbort(s) \/ KnFails(s)
       \/ KnAdmit(s) \/ KnShow(s) \/ KnRouted(s) \/ KnAcquire(s) \/ KnAcquireCut(s) \/ KnPoll(s)
       \/ KnWork(s) \/ KnWorkDone(s) \/ KnWorkFails(s) \/ KnReport(s) \/ KnReportFails(s)
       \/ KnRelease(s) \/ KnForeground(s) \/ KnAfter(s) \/ KnReview(s) \/ KnReviewed(s)
  \/ \E g \in KnGoals : KnEdit(g) \/ KnStale(g) \/ KnLapse(g)
  \/ KnRestart

KnSpec == KnInit /\ [][KnNext]_knVars

(***************************************************************************)
(* Properties                                                               *)
(***************************************************************************)

\* Types: the rows of the state file and of the broker's store, and the turns.
KnTypeOK ==
  /\ knGoal \in [KnSessions -> KnGoals]
  /\ knBoot \in 1..KnBoots /\ knRoute \in KnRoutes
  /\ \A s \in KnSessions :
       /\ DOMAIN knRun[s] = DOMAIN KnIdle
       /\ knRun[s].pc \in KnSteps /\ knRun[s].mode \in KnModes /\ knRun[s].end \in KnEnds
       /\ knRun[s].turns \in 0..KnTurns
  /\ \A g \in KnGoals :
       /\ knClaim[g] \in {KnNone} \cup KnClaims /\ knLease[g] \in {KnNone} \cup KnLeases
  /\ \A i, j \in DOMAIN knQueue : knQueue[i].goal = knQueue[j].goal => i = j

KnAtWork(s) == knRun[s].pc \in {"work", "report"}

\* A worker runs under a lease of its goal as long as it runs: neither the clock,
\* nor another session's requests, nor the other run of the same goal takes it
\* away. Excepted is a run that was handed a lease of an earlier life of the
\* process (acquireWorkerLease, index.js:550-603; leaseIsActive).
KnWorkIsLeased ==
  \A s \in KnSessions : KnAtWork(s) /\ ~knRun[s].inherited => knLease[knGoal[s]] # KnNone

\* The goals that have a worker of this process never outnumber the broker's
\* worker slots, whatever is queued, aborted in the queue, or restarted.
KnSlotsKept ==
  Cardinality({knGoal[s] : s \in {t \in KnSessions : KnAtWork(t) /\ ~knRun[t].inherited}})
    <= KnSlots

\* Two sessions have a worker in the same project at once only when one of them
\* has lost its claim for want of a heartbeat (admitMajorTask's ownLiveWork).
KnOneWorker ==
  \A s, t \in KnSessions :
    s # t /\ knGoal[s] = knGoal[t] /\ KnAtWork(s) /\ KnAtWork(t)
      => knRun[s].stolen \/ knRun[t].stolen

\* An increment recorded as completed is one whose worker completed and whose
\* report was stored, or whose own foreground run dispatched a cycle: not one
\* that another session's cycle made look advanced (executeNativeDsh, executeMajor).
KnDoneIsDone ==
  \A s \in KnSessions :
    knRun[s].end \in {"completed", "reviewed"} =>
      \/ knRun[s].worked /\ knRun[s].told
      \/ knRun[s].hops > 0

\* A review that is accepted is of a workspace nobody wrote in while it was
\* looked at: not the reviewer, not a worker of another session, not the owner
\* (executeMajorWithClaudeReview's two hashes).
KnReviewBinds ==
  \A s \in KnSessions : knRun[s].end = "reviewed" => ~knRun[s].touched

\* What the increments of several sessions may rely on: the parts above.
KnSafe ==
  /\ KnTypeOK
  /\ KnWorkIsLeased
  /\ KnSlotsKept
  /\ KnOneWorker
  /\ KnDoneIsDone
  /\ KnReviewBinds
=============================================================================
