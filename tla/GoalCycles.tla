----------------------------- MODULE GoalCycles -----------------------------
(***************************************************************************)
(* The cycles of one goal and the owner's commands against them: startGoal  *)
(* and --refine redefine the outcome, `goal report` overrides the status,   *)
(* a foreground loop (runForegroundGoal) or the daemon (runDaemon) runs one *)
(* cycle after another, and each result is written over whatever the goal   *)
(* has become (src/src/supervisor/state.ts, runtime.ts). Claims of          *)
(* completion and their review belong to GoalCompletion; pendingCompletion  *)
(* is one bit here.                                                         *)
(***************************************************************************)
EXTENDS Naturals

CONSTANTS CyTexts,      \* outcome texts
          CyPids,       \* cycle processes
          CyGiveUp,     \* failures after which a goal is given up (6)
          CyHopLimit,   \* FOREGROUND_CONTINUATION_HOP_LIMIT (32)
          CyNone

ASSUME CyAssumption == /\ CyGiveUp \in Nat \ {0} /\ CyHopLimit \in Nat \ {0}
                       /\ CyNone \notin CyTexts /\ CyNone \notin CyPids

VARIABLES
  cyGoal,     \* the goal as the state file has it
  cyCycle,    \* per process: the cycle it runs
  cyLate      \* history: redefined while a worker of another text was running

cyVars == <<cyGoal, cyCycle, cyLate>>

CyStatus == {"active", "running", "blocked", "done", "failed", "paused"}
CyGoal == [status : CyStatus, text : CyTexts, auto : BOOLEAN, pid : CyPids \cup {CyNone},
           due : BOOLEAN, retry : BOOLEAN, pending : BOOLEAN, fails : 0..CyGiveUp,
           ref : CyTexts \cup {CyNone}]
CyCycle == [pc : {"idle", "routing", "worker", "after", "hop"}, text : CyTexts \cup {CyNone},
            fg : BOOLEAN, hop : 0..CyHopLimit, raced : BOOLEAN]
CyIdle == [pc |-> "idle", text |-> CyNone, fg |-> FALSE, hop |-> 0, raced |-> FALSE]

CyBusy(p) == cyCycle[p].pc # "idle"
CyHasFence(p) == cyCycle[p].pc \in {"routing", "worker", "after"}
CyWorks == \E p \in CyPids : cyCycle[p].pc \in {"worker", "after"}

CyInit == /\ \E t \in CyTexts, auto \in BOOLEAN :
               cyGoal = [status |-> "active", text |-> t, auto |-> auto, pid |-> CyNone,
                         due |-> TRUE, retry |-> FALSE, pending |-> FALSE, fails |-> 0,
                         ref |-> CyNone]
          /\ cyCycle = [p \in CyPids |-> CyIdle]
          /\ cyLate = FALSE

\* clearSessionContinuityOnOutcomeChange.
CyKeptRef(t) == IF cyGoal.text = t THEN cyGoal.ref ELSE CyNone
CyRedefined(t) == cyLate' = IF cyGoal.text = t THEN cyLate ELSE CyWorks

\* startGoal on the open goal (`major run --goal`): redefined and restarted.
CyStart(t, auto) ==
  /\ cyGoal.status \in {"active", "running", "blocked"}
  /\ cyGoal' = [cyGoal EXCEPT !.status = "active", !.text = t, !.auto = auto, !.due = TRUE,
                              !.ref = CyKeptRef(t), !.retry = FALSE, !.pending = FALSE]
  /\ CyRedefined(t)
  /\ UNCHANGED cyCycle

\* admitGoal with --refine: as above, and the pid is forgotten.
CyRefine(t) ==
  /\ cyGoal.status \in {"active", "running", "blocked"}
  /\ cyGoal' = [cyGoal EXCEPT !.status = "active", !.text = t, !.pid = CyNone, !.due = TRUE,
                              !.ref = CyKeptRef(t), !.retry = FALSE, !.pending = FALSE]
  /\ CyRedefined(t)
  /\ UNCHANGED cyCycle

\* `major goal report`: the owner's word replaces whatever a cycle left.
CyReport(status) ==
  /\ cyGoal' = [cyGoal EXCEPT !.status = status, !.pid = CyNone, !.pending = FALSE,
                              !.retry = FALSE]
  /\ cyCycle' = [p \in CyPids |-> IF cyCycle[p].pc = "after" THEN [cyCycle[p] EXCEPT !.raced = TRUE]
                                  ELSE cyCycle[p]]
  /\ UNCHANGED cyLate

\* The independent review of a pending claim (GoalCompletion) ends.
CyReviewed ==
  /\ cyGoal.pending
  /\ \E status \in {"active", "done"} :
       cyGoal' = [cyGoal EXCEPT !.pending = FALSE, !.status = status, !.due = TRUE]
  /\ UNCHANGED <<cyCycle, cyLate>>

\* A delayed next run comes due.
CyDue == /\ ~cyGoal.due
         /\ cyGoal' = [cyGoal EXCEPT !.due = TRUE]
         /\ UNCHANGED <<cyCycle, cyLate>>

\* runGoalCycle: the goal is read and the fence of its repository taken.
CyMayCycle == /\ cyGoal.status \notin {"done", "paused"} /\ ~cyGoal.pending
              /\ \A q \in CyPids : ~CyHasFence(q)
CyBegin(p, fg, hop) ==
  cyCycle' = [cyCycle EXCEPT ![p] = [pc |-> "routing", text |-> cyGoal.text, fg |-> fg,
                                     hop |-> hop, raced |-> FALSE]]

\* The first hop of runForegroundGoal.
CyForeground(p) ==
  /\ ~CyBusy(p) /\ CyMayCycle
  /\ CyBegin(p, TRUE, 0)
  /\ UNCHANGED <<cyGoal, cyLate>>

\* A pass of runDaemon: an autonomous goal that is due and has no live cycle.
CyDaemon(p) ==
  /\ ~CyBusy(p) /\ CyMayCycle
  /\ cyGoal.auto /\ cyGoal.status \in {"active", "running"}
  /\ cyGoal.pid = CyNone /\ cyGoal.due
  /\ CyBegin(p, FALSE, 0)
  /\ UNCHANGED <<cyGoal, cyLate>>

\* updateGoal at the end of a cycle; a foreground loop looks at the goal next.
CyWrite(p, patch) ==
  /\ cyGoal' = patch
  /\ cyCycle' = [cyCycle EXCEPT ![p] = IF cyCycle[p].fg
                                       THEN [CyIdle EXCEPT !.pc = "hop", !.fg = TRUE, !.hop = cyCycle[p].hop]
                                       ELSE CyIdle]
  /\ UNCHANGED cyLate

\* Routing finds no capacity, a missing CLI, or a Toolsmith checkpoint.
CyCheckpoint(p) ==
  /\ cyCycle[p].pc = "routing"
  /\ \/ CyWrite(p, [cyGoal EXCEPT !.status = "active", !.pid = CyNone, !.due = FALSE, !.retry = FALSE])
     \/ CyWrite(p, [cyGoal EXCEPT !.status = "active", !.pid = CyNone, !.due = TRUE, !.retry = TRUE])
     \/ CyWrite(p, [cyGoal EXCEPT !.status = "blocked", !.pid = CyNone, !.retry = FALSE])

\* The goal is marked running with this pid, and the worker starts with the
\* text that was read before routing.
CyDispatch(p) ==
  /\ cyCycle[p].pc = "routing"
  /\ cyGoal' = [cyGoal EXCEPT !.status = "running", !.pid = p, !.pending = FALSE]
  /\ cyCycle' = [cyCycle EXCEPT ![p].pc = "worker"]
  /\ cyLate' = (cyLate \/ cyGoal.text # cyCycle[p].text)

\* A succeeded worker without a session identity: written without a look.
CyUnsigned(p) ==
  /\ cyCycle[p].pc = "worker"
  /\ CyWrite(p, [cyGoal EXCEPT !.status = "active", !.pid = CyNone, !.due = FALSE,
                               !.pending = FALSE, !.retry = FALSE])

\* The worker returned: the goal is read again, and a goal that was closed or
\* stopped meanwhile only loses its pid.
CyClosed == cyGoal.status \in {"done", "blocked", "paused"}
CyReadAgain(p) ==
  /\ cyCycle[p].pc = "worker"
  /\ \/ CyClosed /\ CyWrite(p, [cyGoal EXCEPT !.pid = CyNone])
     \/ /\ ~CyClosed
        /\ cyCycle' = [cyCycle EXCEPT ![p].pc = "after"]
        /\ UNCHANGED <<cyGoal, cyLate>>

\* nonSuccessCyclePatch: a failure backs off, and enough of them give up.
CyMore == IF cyGoal.fails + 1 > CyGiveUp THEN CyGiveUp ELSE cyGoal.fails + 1
CyFailed == [cyGoal EXCEPT !.pid = CyNone, !.pending = FALSE, !.fails = CyMore, !.due = FALSE,
                           !.retry = FALSE,
                           !.status = IF cyGoal.fails + 1 >= CyGiveUp THEN "failed" ELSE "active"]
\* Slip: the pid stays when the goal is retried elsewhere.
CyRerouted_KeepsPid == [cyGoal EXCEPT !.pending = FALSE, !.due = TRUE, !.retry = TRUE,
                             !.status = "active"]

\* Lost capacity is no failure: the goal is retried at once elsewhere.
CyRerouted == [cyGoal EXCEPT !.pid = CyNone, !.pending = FALSE, !.due = TRUE, !.retry = TRUE,
                             !.status = "active"]
\* smartNonSuccessCyclePatch: change the strategy and retry, or stop.
CyNewStrategy == [CyRerouted EXCEPT !.fails = IF CyMore < 2 /\ CyGiveUp >= 2 THEN 2 ELSE CyMore]
CyStopped == [CyFailed EXCEPT !.status = "failed"]

\* A success keeps the vendor session of this worker: blocked, a completion
\* claim, more work to do, or a refused mutation claim.
CySucceeded(p) ==
  LET base == [cyGoal EXCEPT !.pid = CyNone, !.fails = 0, !.retry = FALSE, !.pending = FALSE,
                             !.ref = cyCycle[p].text]
  IN {[base EXCEPT !.status = "blocked"],
      [base EXCEPT !.status = "active", !.pending = TRUE, !.due = TRUE],
      [base EXCEPT !.status = "active", !.due = FALSE],
      [CyFailed EXCEPT !.ref = cyCycle[p].text]}

CySettle(p) ==
  /\ cyCycle[p].pc = "after"
  /\ \E patch \in {CyFailed, CyRerouted, CyNewStrategy, CyStopped} \cup CySucceeded(p) :
       CyWrite(p, patch)

\* The foreground loop after a hop: stop, take another one, or, out of hops or
\* of time, take back the retry flag instead of leaving it behind.
CyAgain == cyGoal.retry /\ cyGoal.status \in {"active", "running"}
CyLast(p) == cyCycle[p].hop + 1 >= CyHopLimit
CyHop(p) ==
  /\ cyCycle[p].pc = "hop"
  /\ \/ /\ CyAgain /\ ~CyLast(p) /\ CyMayCycle
        /\ CyBegin(p, TRUE, cyCycle[p].hop + 1)
        /\ UNCHANGED cyGoal
     \/ /\ ~CyAgain \/ (~CyLast(p) /\ ~CyMayCycle)
        /\ cyCycle' = [cyCycle EXCEPT ![p] = CyIdle]
        /\ UNCHANGED cyGoal
     \/ /\ CyAgain
        /\ cyGoal' = [cyGoal EXCEPT !.retry = FALSE, !.due = FALSE]
        /\ cyCycle' = [cyCycle EXCEPT ![p] = CyIdle]
  /\ UNCHANGED cyLate

\* The process dies; its pid is no longer a live one.
CyDies(p) ==
  /\ CyBusy(p)
  /\ cyCycle' = [cyCycle EXCEPT ![p] = CyIdle]
  /\ cyGoal' = [cyGoal EXCEPT !.pid = IF @ = p THEN CyNone ELSE @]
  /\ UNCHANGED cyLate

CyStep(p) == CyCheckpoint(p) \/ CyDispatch(p) \/ CyUnsigned(p) \/ CyReadAgain(p) \/ CySettle(p)
                \/ CyHop(p)
CyOwner == \/ \E t \in CyTexts : CyRefine(t) \/ \E auto \in BOOLEAN : CyStart(t, auto)
           \/ \E status \in {"active", "blocked", "failed", "paused"} : CyReport(status)

CyNext == \/ CyOwner \/ CyReviewed \/ CyDue
          \/ \E p \in CyPids : CyForeground(p) \/ CyDaemon(p) \/ CyStep(p) \/ CyDies(p)

CySpec == CyInit /\ [][CyNext]_cyVars
-----------------------------------------------------------------------------
\* The goal and the cycles have their types.
CyTypeOK == cyGoal \in CyGoal /\ cyCycle \in [CyPids -> CyCycle] /\ cyLate \in BOOLEAN

\* "never resume the vendor session or replay the prior cycle summary that
\* belonged to the old outcome text" (state.ts:314): the stored session is one
\* of the present outcome, unless the goal was redefined while a worker of the
\* old text was running, which writes its session afterwards.
CySessionOfOutcome == cyLate \/ cyGoal.ref \in {CyNone, cyGoal.text}

\* An owner's pause outlives the worker that was running (runtime.ts:2377): the
\* result of a cycle overwrites it only when it came after the second read.
CyPauseStands ==
  [][\A p \in CyPids : CySettle(p) /\ cyGoal.status = "paused" => cyCycle[p].raced]_cyVars

\* The daemon and a foreground run never work on the goal together: a recorded
\* pid belongs to a process inside its cycle, so a goal is never left looking
\* busy, and no second process holds the fence.
CyPidIsAtWork ==
  \A p, q \in CyPids : /\ cyGoal.pid = p => cyCycle[p].pc \in {"worker", "after"}
                       /\ CyHasFence(p) /\ CyHasFence(q) => p = q

\* A cycle and the owner never undo each other: session, pid and pause, the
\* parts above.
CySafe == [](CyTypeOK /\ CySessionOfOutcome /\ CyPidIsAtWork) /\ CyPauseStands

\* The inductive invariant behind CySafe. A worker that is running works on the
\* present text unless the goal was redefined under it, and what it finds paused
\* at its end was paused after its second read.
CyFenceIsOne == \A p, q \in CyPids : CyHasFence(p) /\ CyHasFence(q) => p = q
CyPidWorks == \A p \in CyPids : cyGoal.pid = p => cyCycle[p].pc \in {"worker", "after"}
CyWorkOfOutcome ==
  ~cyLate => /\ cyGoal.ref \in {CyNone, cyGoal.text}
             /\ \A p \in CyPids : cyCycle[p].pc \in {"worker", "after"}
                                     => cyCycle[p].text = cyGoal.text
CyPauseIsLate ==
  cyGoal.status = "paused" => \A p \in CyPids : cyCycle[p].pc = "after" => cyCycle[p].raced
CyInv == CyTypeOK /\ CyFenceIsOne /\ CyPidWorks /\ CyWorkOfOutcome /\ CyPauseIsLate
=============================================================================
